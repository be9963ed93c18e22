---------------------------- MODULE ConsoleProofs ----------------------------
(***************************************************************************)
(* printk's lock and interrupt mask, proved for any number of CPUs, any    *)
(* scripts and any FIFO depth.                                             *)
(***************************************************************************)
EXTENDS Console, TLAPS

Types ==
    /\ script \in [Frames -> Seq(CallNames)]
    /\ \A c \in Cpus : script[Irq(c)] \in Seq({"print"})
    /\ pc \in [Frames -> Labels]
    /\ \A c \in Cpus : /\ pc[Task(c)] \notin {"off", "ret"}
                       /\ pc[Irq(c)] \notin {"drainpoll", "drainwrite"}
    /\ \A f \in Frames : pc[f] \notin {"off", "out", "ret"} => script[f] # <<>>
    /\ masked \in [Cpus -> BOOLEAN] /\ flags \in [Frames -> BOOLEAN]
    /\ irqon \subseteq Cpus /\ reserved \subseteq Cpus
    /\ lock \in {0, 1}

\* An exclusive monitor is set only while nobody has stored to the free lock, and
\* a task inside the lock's pair of calls has interrupts masked.
LockInv ==
    /\ LockExclusive
    /\ reserved # {} => lock = 0
    /\ \A c \in Cpus : pc[Task(c)] \in Inside => masked[c]

\* The saved mask is the one that local_irq_save found: unmasked in a task whose
\* CPU has enabled interrupts, masked in a handler.
MaskInv ==
    /\ IrqStateRestored
    /\ \A c \in Cpus :
        /\ pc[Irq(c)] # "off" => c \in irqon
        /\ pc[Irq(c)] = "off" /\ pc[Task(c)] \notin Inside => (masked[c] <=> c \notin irqon)
        /\ pc[Task(c)] \in Inside => (flags[Task(c)] <=> c \notin irqon)
        /\ pc[Irq(c)] \in Inside => flags[Irq(c)]

IInv == Types /\ LockInv /\ MaskInv

-----------------------------------------------------------------------------
(* Frames *)

\* A frame is the task or the interrupt level of one CPU.
LEMMA FrameFacts ==
    /\ \A c \in Cpus : /\ Task(c) \in Frames /\ Task(c)[1] = c /\ Task(c)[2] = "task"
                       /\ Irq(c) \in Frames /\ Irq(c)[1] = c /\ Irq(c)[2] = "irq"
    /\ \A f \in Frames : /\ f[1] \in Cpus
                         /\ \/ f[2] = "task" /\ f = Task(f[1])
                            \/ f[2] = "irq" /\ f = Irq(f[1])
  BY DEF Frames, Task, Irq

\* Taking the next call off a script keeps its type.
LEMMA TailType ==
    ASSUME NEW S, NEW s \in Seq(S), s # <<>>
    PROVE  Tail(s) \in Seq(S)
  OBVIOUS

-----------------------------------------------------------------------------
(* The initial states *)

\* The invariant holds when the boot CPU enters the kernel.
LEMMA InitIInv == Init => IInv
  <1> SUFFICES ASSUME Init PROVE IInv
    OBVIOUS
  <1>1. Types
    BY FrameFacts, ScriptAssumption DEF Init, Types, Labels, Inside, Holding
  <1>2. LockInv
    BY FrameFacts DEF Init, LockInv, LockExclusive, Inside, Holding
  <1>3. MaskInv
    BY FrameFacts DEF Init, MaskInv, IrqStateRestored, Inside, Holding
  <1> QED
    BY <1>1, <1>2, <1>3 DEF IInv

-----------------------------------------------------------------------------
(* The steps *)

\* Every step of a frame keeps the invariant.
LEMMA StepIInv ==
    ASSUME IInv, NEW f \in Frames, Step(f)
    PROVE  IInv'
  <1> USE DEF At, Runs, GoTo, Labels, Inside, Holding
  <1>1. CASE printk(f)
    <2>1. CASE status = "forbid" /\ f[2] = "task"
      <3>1. /\ pc[f] = "out" /\ script[f] # <<>>
            /\ pc' = [pc EXCEPT ![f] = "out"]
            /\ script' = [script EXCEPT ![f] = Tail(@)]
            /\ UNCHANGED <<masked, flags, irqon, lock, reserved>>
        BY <1>1, <2>1 DEF printk, Calls, Called, lockVars
      <3>2. Types'
        BY <2>1, <3>1, FrameFacts, TailType DEF IInv, Types
      <3>3. LockInv'
        BY <2>1, <3>1, <3>2, FrameFacts DEF IInv, Types, LockInv, LockExclusive
      <3>4. MaskInv'
        BY <2>1, <3>1, <3>2, FrameFacts DEF IInv, Types, LockInv, LockExclusive, MaskInv, IrqStateRestored
      <3> QED
        BY <3>2, <3>3, <3>4 DEF IInv
    <2>2. CASE status = "forbid" /\ f[2] = "irq"
      <3>1. /\ pc[f] = "out" /\ script[f] # <<>>
            /\ pc' = [pc EXCEPT ![f] = "ret"]
            /\ script' = [script EXCEPT ![f] = Tail(@)]
            /\ UNCHANGED <<masked, flags, irqon, lock, reserved>>
        BY <1>1, <2>2 DEF printk, Calls, Called, lockVars
      <3>2. Types'
        BY <2>2, <3>1, FrameFacts, TailType DEF IInv, Types
      <3>3. LockInv'
        BY <2>2, <3>1, <3>2, FrameFacts DEF IInv, Types, LockInv, LockExclusive
      <3>4. MaskInv'
        BY <2>2, <3>1, <3>2, FrameFacts DEF IInv, Types, LockInv, LockExclusive, MaskInv, IrqStateRestored
      <3> QED
        BY <3>2, <3>3, <3>4 DEF IInv
    <2>3. CASE status # "forbid"
      <3>1. /\ pc[f] = "out" /\ script[f] # <<>>
            /\ f[2] = "task" => pc[Irq(f[1])] = "off"
            /\ pc' = [pc EXCEPT ![f] = "ldr"]
            /\ flags' = [flags EXCEPT ![f] = masked[f[1]]]
            /\ masked' = [masked EXCEPT ![f[1]] = TRUE]
            /\ UNCHANGED <<script, irqon, lock, reserved>>
        BY <1>1, <2>3 DEF printk, Calls, Called, lockVars
      <3>2. Types'
        BY <2>3, <3>1, FrameFacts, TailType DEF IInv, Types
      <3>3. LockInv'
        BY <2>3, <3>1, <3>2, FrameFacts DEF IInv, Types, LockInv, LockExclusive
      <3>4. MaskInv'
        BY <2>3, <3>1, <3>2, FrameFacts DEF IInv, Types, LockInv, LockExclusive, MaskInv, IrqStateRestored
      <3> QED
        BY <3>2, <3>3, <3>4 DEF IInv
    <2> QED
      BY <2>1, <2>2, <2>3, FrameFacts
  <1>2. CASE Ldr(f)
    <2>1. Types'
      BY <1>2, FrameFacts, TailType DEF Ldr, IInv, Types, lockVars
    <2>2. LockInv'
      BY <1>2, <2>1, FrameFacts DEF Ldr, IInv, Types, LockInv, LockExclusive, lockVars
    <2>3. MaskInv'
      BY <1>2, <2>1, FrameFacts DEF Ldr, IInv, Types, LockInv, LockExclusive, MaskInv, IrqStateRestored, lockVars
    <2> QED
      BY <2>1, <2>2, <2>3 DEF IInv
  <1>3. CASE Ldaxr(f)
    <2>1. Types'
      BY <1>3, FrameFacts, TailType DEF Ldaxr, IInv, Types, lockVars
    <2>2. LockInv'
      BY <1>3, <2>1, FrameFacts DEF Ldaxr, IInv, Types, LockInv, LockExclusive, lockVars
    <2>3. MaskInv'
      BY <1>3, <2>1, FrameFacts DEF Ldaxr, IInv, Types, LockInv, LockExclusive, MaskInv, IrqStateRestored, lockVars
    <2> QED
      BY <2>1, <2>2, <2>3 DEF IInv
  <1>4. CASE Stxr(f)
    <2>1. CASE f[1] \in reserved
      <3>1. /\ pc[f] = "stxr"
            /\ pc' = [pc EXCEPT ![f] = "format"]
            /\ lock' = 1 /\ reserved' = {}
            /\ UNCHANGED <<script, masked, flags, irqon>>
        BY <1>4, <2>1 DEF Stxr
      <3>2. Types'
        BY <2>1, <3>1, FrameFacts, TailType DEF IInv, Types
      <3>3. LockInv'
        BY <2>1, <3>1, <3>2, FrameFacts DEF IInv, Types, LockInv, LockExclusive
      <3>4. MaskInv'
        BY <2>1, <3>1, <3>2, FrameFacts DEF IInv, Types, LockInv, LockExclusive, MaskInv, IrqStateRestored
      <3> QED
        BY <3>2, <3>3, <3>4 DEF IInv
    <2>2. CASE f[1] \notin reserved
      <3>1. /\ pc[f] = "stxr"
            /\ pc' = [pc EXCEPT ![f] = "ldr"]
            /\ UNCHANGED <<lock, reserved>>
            /\ UNCHANGED <<script, masked, flags, irqon>>
        BY <1>4, <2>2 DEF Stxr, lockVars
      <3>2. Types'
        BY <2>2, <3>1, FrameFacts, TailType DEF IInv, Types
      <3>3. LockInv'
        BY <2>2, <3>1, <3>2, FrameFacts DEF IInv, Types, LockInv, LockExclusive
      <3>4. MaskInv'
        BY <2>2, <3>1, <3>2, FrameFacts DEF IInv, Types, LockInv, LockExclusive, MaskInv, IrqStateRestored
      <3> QED
        BY <3>2, <3>3, <3>4 DEF IInv
    <2> QED
      BY <2>1, <2>2
  <1>5. CASE Format(f)
    <2>1. Types'
      BY <1>5, FrameFacts, TailType DEF Format, IInv, Types, lockVars
    <2>2. LockInv'
      BY <1>5, <2>1, FrameFacts DEF Format, IInv, Types, LockInv, LockExclusive, lockVars
    <2>3. MaskInv'
      BY <1>5, <2>1, FrameFacts DEF Format, IInv, Types, LockInv, LockExclusive, MaskInv, IrqStateRestored, lockVars
    <2> QED
      BY <2>1, <2>2, <2>3 DEF IInv
  <1>6. CASE Record(f)
    <2>1. Types'
      BY <1>6, FrameFacts, TailType DEF Record, IInv, Types, lockVars
    <2>2. LockInv'
      BY <1>6, <2>1, FrameFacts DEF Record, IInv, Types, LockInv, LockExclusive, lockVars
    <2>3. MaskInv'
      BY <1>6, <2>1, FrameFacts DEF Record, IInv, Types, LockInv, LockExclusive, MaskInv, IrqStateRestored, lockVars
    <2> QED
      BY <2>1, <2>2, <2>3 DEF IInv
  <1>7. CASE Unlock(f)
    <2>e. /\ pc[f] \in {"unlock", "poll"}
          /\ pc' = [pc EXCEPT ![f] = "restore"]
          /\ lock' = 0 /\ reserved' = {}
          /\ UNCHANGED <<script, irqon, masked, flags>>
      BY <1>7 DEF Unlock, IInv, Types
    <2>1. Types'
      BY <2>e, FrameFacts DEF IInv, Types
    <2>2. LockInv'
      BY <1>7, <2>1, FrameFacts DEF Unlock, IInv, Types, LockInv, LockExclusive, lockVars
    <2>3. MaskInv'
      BY <1>7, <2>1, FrameFacts DEF Unlock, IInv, Types, LockInv, LockExclusive, MaskInv, IrqStateRestored, lockVars
    <2> QED
      BY <2>1, <2>2, <2>3 DEF IInv
  <1>8. CASE Restore(f)
    <2>1. CASE f[2] = "task"
      <3>1. /\ pc[f] = "restore"
            /\ f[2] = "task" => pc[Irq(f[1])] = "off"
            /\ pc' = [pc EXCEPT ![f] = "out"]
            /\ script' = [script EXCEPT ![f] = Tail(@)]
            /\ masked' = [masked EXCEPT ![f[1]] = flags[f]]
            /\ UNCHANGED <<flags, irqon, lock, reserved>>
        BY <1>8, <2>1 DEF Restore, Called, lockVars
      <3>2. Types'
        <4>1. script[f] # <<>>
          BY <3>1 DEF IInv, Types
        <4>2. /\ script' \in [Frames -> Seq(CallNames)]
              /\ \A c \in Cpus : script'[Irq(c)] \in Seq({"print"})
          BY <3>1, <4>1, FrameFacts, TailType DEF IInv, Types
        <4>3. masked' \in [Cpus -> BOOLEAN]
          BY <3>1, FrameFacts DEF IInv, Types
        <4> QED
          BY <2>1, <3>1, <4>2, <4>3, FrameFacts DEF IInv, Types
      <3>3. LockInv'
        BY <2>1, <3>1, <3>2, FrameFacts DEF IInv, Types, LockInv, LockExclusive
      <3>4. MaskInv'
        BY <2>1, <3>1, <3>2, FrameFacts DEF IInv, Types, LockInv, LockExclusive, MaskInv, IrqStateRestored
      <3> QED
        BY <3>2, <3>3, <3>4 DEF IInv
    <2>2. CASE f[2] = "irq"
      <3>1. /\ pc[f] = "restore"
            /\ f[2] = "task" => pc[Irq(f[1])] = "off"
            /\ pc' = [pc EXCEPT ![f] = "ret"]
            /\ script' = [script EXCEPT ![f] = Tail(@)]
            /\ masked' = [masked EXCEPT ![f[1]] = flags[f]]
            /\ UNCHANGED <<flags, irqon, lock, reserved>>
        BY <1>8, <2>2 DEF Restore, Called, lockVars
      <3>2. Types'
        <4>1. script[f] # <<>>
          BY <3>1 DEF IInv, Types
        <4>2. /\ script' \in [Frames -> Seq(CallNames)]
              /\ \A c \in Cpus : script'[Irq(c)] \in Seq({"print"})
          BY <3>1, <4>1, FrameFacts, TailType DEF IInv, Types
        <4>3. masked' \in [Cpus -> BOOLEAN]
          BY <3>1, FrameFacts DEF IInv, Types
        <4> QED
          BY <2>2, <3>1, <4>2, <4>3, FrameFacts DEF IInv, Types
      <3>3. LockInv'
        <4>1. \A c \in Cpus : pc[Task(c)] \in Inside => c # f[1]
          BY <2>2, <3>1, FrameFacts DEF IInv, LockInv, LockExclusive
        <4>2. \A c \in Cpus : pc'[Task(c)] = pc[Task(c)]
          BY <2>2, <3>1, FrameFacts DEF IInv, Types
        <4>3. \A g \in Frames : pc'[g] \in Holding <=> pc[g] \in Holding
          BY <3>1 DEF IInv, Types
        <4>4. \A c \in Cpus : c # f[1] => masked'[c] = masked[c] /\ pc'[Irq(c)] = pc[Irq(c)]
          BY <3>1, FrameFacts DEF IInv, Types
        <4> QED
          BY <3>1, <4>1, <4>2, <4>3, <4>4 DEF IInv, LockInv, LockExclusive
      <3>4. MaskInv'
        BY SMTT(90), <2>2, <3>1, <3>2, FrameFacts DEF IInv, Types, LockInv, LockExclusive, MaskInv, IrqStateRestored
      <3> QED
        BY <3>2, <3>3, <3>4 DEF IInv
    <2> QED
      BY <2>1, <2>2, FrameFacts
  <1>9. CASE uart_poll(f)
    <2>1. Types'
      BY <1>9, FrameFacts, TailType DEF uart_poll, IInv, Types, lockVars
    <2>2. LockInv'
      BY <1>9, <2>1, FrameFacts DEF uart_poll, IInv, Types, LockInv, LockExclusive, lockVars
    <2>3. MaskInv'
      BY <1>9, <2>1, FrameFacts DEF uart_poll, IInv, Types, LockInv, LockExclusive, MaskInv, IrqStateRestored, lockVars
    <2> QED
      BY <2>1, <2>2, <2>3 DEF IInv
  <1>10. CASE uart_write(f)
    <2>1. Types'
      BY <1>10, FrameFacts, TailType DEF uart_write, IInv, Types, lockVars
    <2>2. LockInv'
      BY <1>10, <2>1, FrameFacts DEF uart_write, IInv, Types, LockInv, LockExclusive, lockVars
    <2>3. MaskInv'
      BY <1>10, <2>1, FrameFacts DEF uart_write, IInv, Types, LockInv, LockExclusive, MaskInv, IrqStateRestored, lockVars
    <2> QED
      BY <2>1, <2>2, <2>3 DEF IInv
  <1>11. CASE init_printf_done(f)
    <2>1. Types'
      BY <1>11, FrameFacts, TailType DEF init_printf_done, Calls, IInv, Types, lockVars
    <2>2. LockInv'
      BY <1>11, <2>1, FrameFacts DEF init_printf_done, Calls, IInv, Types, LockInv, LockExclusive, lockVars
    <2>3. MaskInv'
      BY <1>11, <2>1, FrameFacts DEF init_printf_done, Calls, IInv, Types, LockInv, LockExclusive, MaskInv, IrqStateRestored, lockVars
    <2> QED
      BY <2>1, <2>2, <2>3 DEF IInv
  <1>12. CASE DrainEnd(f)
    <2>1. Types'
      BY <1>12, FrameFacts, TailType DEF DrainEnd, Called, IInv, Types, lockVars
    <2>2. LockInv'
      BY <1>12, <2>1, FrameFacts DEF DrainEnd, Called, IInv, Types, LockInv, LockExclusive, lockVars
    <2>3. MaskInv'
      BY SMTT(90), <1>12, <2>1, FrameFacts DEF DrainEnd, Called, IInv, Types, LockInv, LockExclusive, MaskInv, IrqStateRestored, lockVars
    <2> QED
      BY <2>1, <2>2, <2>3 DEF IInv
  <1>13. ASSUME NEW call \in {"forbid", "ready"}, SetStatus(f, call)
         PROVE  IInv'
    <2>1. Types'
      BY <1>13, FrameFacts, TailType DEF SetStatus, Calls, Called, IInv, Types, lockVars
    <2>2. LockInv'
      BY <1>13, <2>1, FrameFacts DEF SetStatus, Calls, Called, IInv, Types, LockInv, LockExclusive, lockVars
    <2>3. MaskInv'
      BY <1>13, <2>1, FrameFacts DEF SetStatus, Calls, Called, IInv, Types, LockInv, LockExclusive, MaskInv, IrqStateRestored, lockVars
    <2> QED
      BY <2>1, <2>2, <2>3 DEF IInv
  <1>14. CASE local_interrupt_enable(f)
    <2>1. Types'
      BY <1>14, FrameFacts, TailType DEF local_interrupt_enable, Calls, Called, IInv, Types, lockVars
    <2>2. LockInv'
      BY <1>14, <2>1, FrameFacts DEF local_interrupt_enable, Calls, Called, IInv, Types, LockInv, LockExclusive, lockVars
    <2>3. MaskInv'
      BY <1>14, <2>1, FrameFacts DEF local_interrupt_enable, Calls, Called, IInv, Types, LockInv, LockExclusive, MaskInv, IrqStateRestored, lockVars
    <2> QED
      BY <2>1, <2>2, <2>3 DEF IInv
  <1>15. CASE smp_init(f)
    <2>1. Types'
      BY <1>15, FrameFacts, TailType DEF smp_init, Calls, Called, IInv, Types, lockVars
    <2>2. LockInv'
      BY <1>15, <2>1, FrameFacts DEF smp_init, Calls, Called, IInv, Types, LockInv, LockExclusive, lockVars
    <2>3. MaskInv'
      BY <1>15, <2>1, FrameFacts DEF smp_init, Calls, Called, IInv, Types, LockInv, LockExclusive, MaskInv, IrqStateRestored, lockVars
    <2> QED
      BY <2>1, <2>2, <2>3 DEF IInv
  <1> QED
    BY <1>1, <1>2, <1>3, <1>4, <1>5, <1>6, <1>7, <1>8, <1>9, <1>10, <1>11, <1>12, <1>13, <1>14, <1>15 DEF Step

\* So do interrupts, returns from them and the UART.
LEMMA OtherIInv ==
    ASSUME IInv, (\E c \in Cpus : TakeIrq(c) \/ IrqReturn(c)) \/ Transmit \/ UNCHANGED vars
    PROVE  IInv'
  <1> USE DEF At, Runs, GoTo, Labels, Inside, Holding
  <1>1. ASSUME NEW c \in Cpus, TakeIrq(c)
        PROVE  IInv'
    <2>1. Types'
      BY <1>1, FrameFacts DEF TakeIrq, IInv, Types, lockVars
    <2>2. LockInv'
      BY <1>1, <2>1, FrameFacts DEF TakeIrq, IInv, Types, LockInv, LockExclusive, lockVars
    <2>3. MaskInv'
      BY SMTT(90), <1>1, <2>1, FrameFacts DEF TakeIrq, IInv, Types, LockInv, LockExclusive, MaskInv, IrqStateRestored, lockVars
    <2> QED
      BY <2>1, <2>2, <2>3 DEF IInv
  <1>2. ASSUME NEW c \in Cpus, IrqReturn(c)
        PROVE  IInv'
    <2>1. Types'
      BY <1>2, FrameFacts DEF IrqReturn, IInv, Types, lockVars
    <2>2. LockInv'
      BY <1>2, <2>1, FrameFacts DEF IrqReturn, IInv, Types, LockInv, LockExclusive, lockVars
    <2>3. MaskInv'
      BY SMTT(90), <1>2, <2>1, FrameFacts DEF IrqReturn, IInv, Types, LockInv, LockExclusive, MaskInv, IrqStateRestored, lockVars
    <2> QED
      BY <2>1, <2>2, <2>3 DEF IInv
  <1>3. CASE Transmit \/ UNCHANGED vars
    BY SMTT(90), <1>3 DEF Transmit, vars, lockVars, IInv, Types, LockInv, LockExclusive, MaskInv, IrqStateRestored
  <1> QED
    BY <1>1, <1>2, <1>3

-----------------------------------------------------------------------------
(* The theorems *)

\* The inductive invariant holds of every behaviour of the console.
THEOREM ConsoleInvariant == Spec => []IInv
  <1>1. IInv /\ [Next]_vars => IInv'
    BY StepIInv, OtherIInv DEF Next
  <1> QED
    BY InitIInv, <1>1, PTL DEF Spec

\* printk's buffer is used by one frame at a time, on any number of CPUs and with
\* interrupt handlers that print: raw_arch_spin_lock excludes, and masking
\* interrupts keeps a handler from spinning on the lock of the task it interrupted.
THEOREM LockIsExclusive == Spec => []LockExclusive
  <1>1. IInv => LockExclusive
    BY DEF IInv, LockInv
  <1> QED
    BY ConsoleInvariant, <1>1, PTL

\* printk restores the interrupt mask it found, at both levels, whatever order
\* of calls, interrupts and CPUs led there.
THEOREM IrqStateIsRestored == Spec => []IrqStateRestored
  <1>1. IInv => IrqStateRestored
    BY DEF IInv, MaskInv
  <1> QED
    BY ConsoleInvariant, <1>1, PTL
=============================================================================
