------------------------------- MODULE Console -------------------------------
(***************************************************************************)
(* printk (kernel/printk.c) with the spin lock it takes (spinlock.S), the  *)
(* early log that init_printf_done drains, and the PL011 FIFO it writes    *)
(* to (driver/pl-uart.c), on several CPUs whose interrupt handlers print   *)
(* too.                                                                    *)
(*                                                                         *)
(* A frame is a CPU's task level or its interrupt level; each has a script *)
(* of the console calls it makes.  A message is a text of at least one     *)
(* character; what formatting does to it is left out.                      *)
(***************************************************************************)
EXTENDS Integers, Sequences, FiniteSets

CONSTANTS
    Cpus, Boot,     \* the CPUs and the one that boots
    Text,           \* the characters of a message; "nl" is '\n'
    Scripts,        \* the assignments of scripts to frames considered
    FifoDepth,      \* characters the transmit FIFO holds
    LogBufLen       \* LOG_BUF_LEN

Frames == Cpus \X {"task", "irq"}
Task(c) == <<c, "task">>
Irq(c) == <<c, "irq">>

ASSUME ConsoleAssumption ==
    /\ Boot \in Cpus
    /\ Text \in Seq(STRING) /\ Text # <<>>
    /\ FifoDepth \in Nat \ {0} /\ LogBufLen \in Nat

\* A script is made of printk calls ("print") and, at task level, of
\* init_printf_done ("done"), printf_set_forbid, printf_set_ready,
\* local_interrupt_enable ("irqon") and smp_init ("start").
CallNames == {"print", "done", "forbid", "ready", "irqon", "start"}

ASSUME ScriptAssumption == \A s \in Scripts :
    /\ s \in [Frames -> Seq(CallNames)]
    /\ \A c \in Cpus : s[Irq(c)] \in Seq({"print"})

\* The boot CPU only prints before it calls init_printf_done (main.c:27-36 and
\* bootloader_main.c:73-77), and what it prints then fits log_buf: printk does not
\* compare.
ASSUME EarlyLogAssumption == \A s \in Scripts :
    \A n \in DOMAIN s[Task(Boot)] :
        (\A k \in 1 .. n - 1 : s[Task(Boot)][k] = "print") =>
            \/ s[Task(Boot)][n] = "done"
            \/ s[Task(Boot)][n] = "print" /\ n * Len(Text) <= LogBufLen

VARIABLES
    script,         \* what each frame has still to do
    pc,             \* where each frame is
    online,         \* the CPUs that run
    irqon,          \* those that have called local_interrupt_enable
    masked,         \* PSTATE.I
    flags,          \* the local variable of spin_lock_irqsave's caller
    lock,           \* the static lock's state
    reserved,       \* the CPUs whose exclusive monitor is set
    status,         \* g_printk_status
    buf,            \* g_print_buf
    log,            \* log_buf up to g_record_len
    pos,            \* the loop over the text: index, '\r' sent, length
    fifo, line,     \* the transmit FIFO and what has left it
    order           \* history: the messages in the order they were formatted

lockVars == <<lock, reserved>>
uart == <<fifo, line>>
vars == <<script, pc, online, irqon, masked, flags, lock, reserved, status, buf,
          log, pos, fifo, line, order>>

Init ==
    /\ script \in Scripts
    /\ pc = [f \in Frames |-> IF f[2] = "task" THEN "out" ELSE "off"]
    /\ online = {Boot} /\ irqon = {}
    /\ masked = [c \in Cpus |-> TRUE]
    /\ flags = [f \in Frames |-> TRUE]
    /\ lock = 0 /\ reserved = {}
    /\ status = "down"
    /\ buf = <<>> /\ log = <<>>
    /\ pos = [f \in Frames |-> [i |-> 1, cr |-> FALSE, len |-> 0]]
    /\ fifo = <<>> /\ line = <<>> /\ order = <<>>

\* A CPU runs its interrupt level if there is one.
Runs(f) == f[1] \in online /\ (f[2] = "task" => pc[Irq(f[1])] = "off")

At(f, label) == Runs(f) /\ pc[f] = label
GoTo(f, label) == pc' = [pc EXCEPT ![f] = label]
Calls(f, call) == At(f, "out") /\ script[f] # <<>> /\ Head(script[f]) = call
Called(f) == script' = [script EXCEPT ![f] = Tail(@)]

-----------------------------------------------------------------------------
(* Interrupts *)

TakeIrq(c) ==
    /\ c \in online /\ ~masked[c]
    /\ pc[Irq(c)] = "off" /\ script[Irq(c)] # <<>>
    /\ GoTo(Irq(c), "out")
    /\ masked' = [masked EXCEPT ![c] = TRUE]
    /\ UNCHANGED <<script, online, irqon, flags, lockVars, status, buf, log, pos, uart, order>>

\* A handler prints once and returns to the interrupted task.
IrqReturn(c) ==
    /\ At(Irq(c), "ret")
    /\ GoTo(Irq(c), "off")
    /\ masked' = [masked EXCEPT ![c] = FALSE]
    /\ UNCHANGED <<script, online, irqon, flags, lockVars, status, buf, log, pos, uart, order>>

-----------------------------------------------------------------------------
(* printk and raw_arch_spin_lock *)

\* The check of the status and local_irq_save.
printk(f) ==
    /\ Calls(f, "print")
    /\ IF status = "forbid"
       THEN /\ Called(f)
            /\ GoTo(f, IF f[2] = "irq" THEN "ret" ELSE "out")
            /\ UNCHANGED <<masked, flags>>
       ELSE /\ flags' = [flags EXCEPT ![f] = masked[f[1]]]
            /\ masked' = [masked EXCEPT ![f[1]] = TRUE]
            /\ GoTo(f, "ldr")
            /\ UNCHANGED script
    /\ UNCHANGED <<online, irqon, lockVars, status, buf, log, pos, uart, order>>

\* The plain load that the lock is polled with.
Ldr(f) ==
    /\ At(f, "ldr") /\ lock = 0
    /\ GoTo(f, "ldaxr")
    /\ UNCHANGED <<script, online, irqon, masked, flags, lockVars, status, buf, log, pos, uart, order>>

\* The exclusive load; clrex if the lock has been taken in between.
Ldaxr(f) ==
    /\ At(f, "ldaxr")
    /\ GoTo(f, IF lock = 0 THEN "stxr" ELSE "ldr")
    /\ reserved' = IF lock = 0 THEN reserved \cup {f[1]} ELSE reserved \ {f[1]}
    /\ UNCHANGED <<script, online, irqon, masked, flags, lock, status, buf, log, pos, uart, order>>

\* Mutant: the result of the exclusive store is not looked at.
StxrUnchecked(f) ==
    /\ At(f, "stxr")
    /\ lock' = 1 /\ reserved' = {} /\ GoTo(f, "format")
    /\ UNCHANGED <<script, online, irqon, masked, flags, status, buf, log, pos, uart, order>>

\* The exclusive store fails when someone has stored since the load.
Stxr(f) ==
    /\ At(f, "stxr")
    /\ IF f[1] \in reserved
       THEN lock' = 1 /\ reserved' = {} /\ GoTo(f, "format")
       ELSE UNCHANGED lockVars /\ GoTo(f, "ldr")
    /\ UNCHANGED <<script, online, irqon, masked, flags, status, buf, log, pos, uart, order>>

Message(f) == <<f, Len(script[f])>>
TextOf(m) == [k \in DOMAIN Text |-> <<m, Text[k]>>]

\* myprintf into the shared buffer, then the status decides where it goes.
Format(f) ==
    /\ At(f, "format")
    /\ buf' = TextOf(Message(f))
    /\ pos' = [pos EXCEPT ![f] = [i |-> 1, cr |-> FALSE, len |-> Len(Text)]]
    /\ order' = Append(order, Message(f))
    /\ GoTo(f, IF status = "down" THEN "record" ELSE "poll")
    /\ UNCHANGED <<script, online, irqon, masked, flags, lockVars, status, log, uart>>

\* Mutant: the whole buffer is copied, not the text.
RecordBuffer(f) ==
    /\ At(f, "record")
    /\ log' = log \o buf \o buf
    /\ GoTo(f, "unlock")
    /\ UNCHANGED <<script, online, irqon, masked, flags, lockVars, status, buf, pos, uart, order>>

\* Mutant: g_record does not advance.
RecordOver(f) ==
    /\ At(f, "record")
    /\ log' = SubSeq(buf, 1, pos[f].len)
    /\ GoTo(f, "unlock")
    /\ UNCHANGED <<script, online, irqon, masked, flags, lockVars, status, buf, pos, uart, order>>

\* Mutant: the early return forgets the lock.
RecordKeepsLock(f) ==
    /\ At(f, "record")
    /\ log' = log \o SubSeq(buf, 1, pos[f].len)
    /\ GoTo(f, "restore")
    /\ UNCHANGED <<script, online, irqon, masked, flags, lockVars, status, buf, pos, uart, order>>

Record(f) ==
    /\ At(f, "record")
    /\ log' = log \o SubSeq(buf, 1, pos[f].len)
    /\ GoTo(f, "unlock")
    /\ UNCHANGED <<script, online, irqon, masked, flags, lockVars, status, buf, pos, uart, order>>

\* raw_arch_spin_unlock; the store clears the other CPUs' monitors.
Unlock(f) ==
    /\ At(f, "unlock") \/ (At(f, "poll") /\ pos[f].i > pos[f].len)
    /\ lock' = 0 /\ reserved' = {}
    /\ GoTo(f, "restore")
    /\ UNCHANGED <<script, online, irqon, masked, flags, status, buf, log, pos, uart, order>>

\* Mutant: interrupts are enabled, whatever they were.
RestoreEnable(f) ==
    /\ At(f, "restore")
    /\ masked' = [masked EXCEPT ![f[1]] = FALSE]
    /\ Called(f)
    /\ GoTo(f, IF f[2] = "irq" THEN "ret" ELSE "out")
    /\ UNCHANGED <<online, irqon, flags, lockVars, status, buf, log, pos, uart, order>>

\* local_irq_restore, and printk returns.
Restore(f) ==
    /\ At(f, "restore")
    /\ masked' = [masked EXCEPT ![f[1]] = flags[f]]
    /\ Called(f)
    /\ GoTo(f, IF f[2] = "irq" THEN "ret" ELSE "out")
    /\ UNCHANGED <<online, irqon, flags, lockVars, status, buf, log, pos, uart, order>>

-----------------------------------------------------------------------------
(* putchar and uart_send, from printk's loop or from init_printf_done's *)

Source(f) == IF pc[f] \in {"poll", "write"} THEN buf ELSE log
Limit(f) == IF pc[f] \in {"poll", "write"} THEN pos[f].len ELSE Len(log)

\* The wait for the FIFO to have room ...
uart_poll(f) ==
    /\ At(f, "poll") \/ At(f, "drainpoll")
    /\ pos[f].i <= Limit(f)
    /\ Len(fifo) < FifoDepth
    /\ GoTo(f, IF pc[f] = "poll" THEN "write" ELSE "drainwrite")
    /\ UNCHANGED <<script, online, irqon, masked, flags, lockVars, status, buf, log, pos, uart, order>>

\* ... and the write, which a full FIFO would drop.  '\n' is sent as '\r', '\n'.
uart_write(f) ==
    /\ At(f, "write") \/ At(f, "drainwrite")
    /\ LET char == Source(f)[pos[f].i]
           cr == char[2] = "nl" /\ ~pos[f].cr
           sent == IF cr THEN <<char[1], "cr">> ELSE char
       IN /\ fifo' = IF Len(fifo) < FifoDepth THEN Append(fifo, sent) ELSE fifo
          /\ pos' = [pos EXCEPT ![f] = [i |-> IF cr THEN @.i ELSE @.i + 1, cr |-> cr, len |-> @.len]]
    /\ GoTo(f, IF pc[f] = "write" THEN "poll" ELSE "drainpoll")
    /\ UNCHANGED <<script, online, irqon, masked, flags, lockVars, status, buf, log, line, order>>

\* The UART sends.
Transmit ==
    /\ fifo # <<>>
    /\ line' = Append(line, Head(fifo))
    /\ fifo' = Tail(fifo)
    /\ UNCHANGED <<script, pc, online, irqon, masked, flags, lockVars, status, buf, log, pos, order>>

-----------------------------------------------------------------------------
(* The other calls *)

\* The status is switched first; the log is drained without the lock ...
init_printf_done(f) ==
    /\ Calls(f, "done")
    /\ status' = "ready"
    /\ pos' = [pos EXCEPT ![f] = [i |-> 1, cr |-> FALSE, len |-> 0]]
    /\ GoTo(f, "drainpoll")
    /\ UNCHANGED <<script, online, irqon, masked, flags, lockVars, buf, log, uart, order>>

\* ... and then emptied.
DrainEnd(f) ==
    /\ At(f, "drainpoll") /\ pos[f].i > Len(log)
    /\ log' = <<>>
    /\ GoTo(f, "out") /\ Called(f)
    /\ UNCHANGED <<online, irqon, masked, flags, lockVars, status, buf, pos, uart, order>>

\* printf_set_forbid and printf_set_ready
SetStatus(f, call) ==
    /\ Calls(f, call) /\ Called(f)
    /\ status' = call
    /\ UNCHANGED <<pc, online, irqon, masked, flags, lockVars, buf, log, pos, uart, order>>

local_interrupt_enable(f) ==
    /\ Calls(f, "irqon") /\ Called(f)
    /\ irqon' = irqon \cup {f[1]}
    /\ masked' = [masked EXCEPT ![f[1]] = FALSE]
    /\ UNCHANGED <<pc, online, flags, lockVars, status, buf, log, pos, uart, order>>

smp_init(f) ==
    /\ Calls(f, "start") /\ Called(f)
    /\ online' = Cpus
    /\ UNCHANGED <<pc, irqon, masked, flags, lockVars, status, buf, log, pos, uart, order>>

Step(f) ==
    \/ printk(f) \/ Ldr(f) \/ Ldaxr(f) \/ Stxr(f)
    \/ Format(f) \/ Record(f) \/ Unlock(f) \/ Restore(f)
    \/ uart_poll(f) \/ uart_write(f)
    \/ init_printf_done(f) \/ DrainEnd(f)
    \/ \E call \in {"forbid", "ready"} : SetStatus(f, call)
    \/ local_interrupt_enable(f) \/ smp_init(f)

Next ==
    \/ \E f \in Frames : Step(f)
    \/ \E c \in Cpus : TakeIrq(c) \/ IrqReturn(c)
    \/ Transmit

\* CPUs keep executing, a pending interrupt that stays unmasked is taken, the
\* UART keeps sending.
Fairness ==
    /\ \A f \in Frames : WF_vars(Step(f))
    /\ \A c \in Cpus : WF_vars(TakeIrq(c)) /\ WF_vars(IrqReturn(c))
    /\ WF_vars(Transmit)

Spec == Init /\ [][Next]_vars /\ Fairness

-----------------------------------------------------------------------------
(* Properties *)

\* Where a frame holds the lock, and where it is inside spin_lock_irqsave's pair.
Holding == {"format", "record", "poll", "write", "unlock"}
Inside == Holding \cup {"ldr", "ldaxr", "stxr", "restore"}
Labels == Inside \cup {"off", "out", "ret", "drainpoll", "drainwrite"}

\* The variables keep their types.  That the early log fits is EarlyLogAssumption
\* (printk.c:380 does not compare), that the FIFO does is uart_write's own test.
TypeOK ==
    /\ pc \in [Frames -> Labels]
    /\ masked \in [Cpus -> BOOLEAN] /\ flags \in [Frames -> BOOLEAN]
    /\ online \subseteq Cpus /\ irqon \subseteq Cpus /\ reserved \subseteq Cpus
    /\ lock \in {0, 1} /\ status \in {"down", "ready", "forbid"}
    /\ Len(log) <= LogBufLen /\ Len(fifo) <= FifoDepth

\* "printk serialises the shared output buffer with an IRQ-safe spin lock"
\* (docs/linux-mechanisms.md:247): at most one frame of all CPUs and both levels
\* uses g_print_buf at a time, the lock's word says so, and no CPU runs its
\* interrupt level while its task holds the lock or spins for it, where a
\* printk of the handler could never get the lock.
LockExclusive ==
    /\ \A f, g \in Frames : pc[f] \in Holding /\ pc[g] \in Holding => f = g
    /\ lock = 1 <=> \E f \in Frames : pc[f] \in Holding
    /\ \A c \in Cpus : pc[Task(c)] \in Inside => pc[Irq(c)] = "off"

\* The place of the k-th character of a message on the line, where every '\n' has
\* got a '\r' in front of it, and the places that a whole message takes.
Breaks(k) == {j \in 1 .. k : Text[j] = "nl"}
Column(k) == k + Cardinality(Breaks(k))
Width == Column(Len(Text))

\* out shows these messages one after the other, as far as it goes.
Shows(out, messages) ==
    \A n \in DOMAIN messages, k \in DOMAIN Text :
        LET at == (n - 1) * Width + Column(k)
        IN /\ at <= Len(out) => out[at] = <<messages[n], Text[k]>>
           /\ Text[k] = "nl" /\ at - 1 <= Len(out) => out[at - 1] = <<messages[n], "cr">>

\* The line shows whole messages, never interleaved, none lost or doubled: first
\* the early log in the order it was written, then the others in the order in
\* which their printk calls got the lock.  In particular draining the log without
\* the lock does no harm, and no character meets a full FIFO.
OutputWhole ==
    /\ Len(line \o fifo) <= Len(order) * Width
    /\ Shows(line \o fifo, order)

\* printk leaves the interrupt mask as it found it, at task level and inside a
\* handler: unmasked if and only if the CPU has enabled interrupts and is not in
\* a handler.
IrqStateRestored ==
    \A c \in Cpus :
        /\ pc[Irq(c)] = "off" /\ pc[Task(c)] = "out" => (masked[c] <=> c \notin irqon)
        /\ pc[Irq(c)] # "off" => masked[c]

\* Every printk returns and every message leaves the UART, however the CPUs
\* compete for the lock: nobody waits for a lock that is never released.
PrintsComplete ==
    <>(/\ \A f \in Frames : script[f] = <<>> /\ pc[f] \in {"out", "off"}
       /\ Len(line) = Len(order) * Width /\ Shows(line, order))
=============================================================================
