--------------------------- MODULE SchedRefinement ---------------------------
(***************************************************************************)
(* Sched implements RoundRobin, for any number of CPUs and processes and   *)
(* under the assumptions of SchedProofs: the slots a CPU has taken into    *)
(* account, read from g_next_process on and around, are the cyclic order;  *)
(* the store to g_num_processes is the arrival of a process, and the scan  *)
(* of round_robin_pick_next the choice.                                    *)
(***************************************************************************)
EXTENDS SchedProofs, RingOrder

\* A CPU has at most the published processes in turn, and g_next_process is not
\* beyond them.
PositionInv ==
    \A c \in Cpu :
      /\ rqNext[c] <= rqSeen[c] /\ rqSeen[c] <= rqNum[c]
      /\ pc[c] # "scan" => rqHad[c] = 0
      /\ pc[c] = "scan" => rqNext[c] < rqHad[c] /\ rqHad[c] <= rqSeen[c]

\* A published slot holds a process that has been registered, and the slot next
\* to be published holds the next one.
PublishedInv ==
    /\ \A c \in Cpu : \A i \in 0 .. rqNum[c] - 1 :
         \E j \in 1 .. regIdx : rqSlot[c][i] = Processes[j]
    /\ \A j \in 1 .. regIdx : state[Processes[j]] # "NEW"
    /\ landed = {"slot"} =>
         /\ rqSlot[CpuOf(regIdx)][rqNum[CpuOf(regIdx)]] = Processes[regIdx + 1]
         /\ state[Processes[regIdx + 1]] # "NEW"

Gone(c, x) == state[rqSlot[c][x]] = "ZOMBIE"

\* Every slot from g_next_process round to where the scan is holds a process
\* that has exited, and the iterations count these slots until the scan has
\* been round all the processes there were when it began.
Passed(c) ==
    /\ IF rqNext[c] <= scan[c].i
         THEN \A x \in Nat : rqNext[c] <= x /\ x < scan[c].i => Gone(c, x)
         ELSE \A x \in Nat : \/ x < scan[c].i
                             \/ rqNext[c] <= x /\ x < rqSeen[c]
                             => Gone(c, x)
    /\ \/ scan[c].j = IF rqNext[c] <= scan[c].i
                        THEN scan[c].i - rqNext[c]
                        ELSE scan[c].i + (rqSeen[c] - rqNext[c])
       \/ \A x \in Nat : x < rqHad[c] => Gone(c, x)

PassedInv == \A c \in Cpu : pc[c] = "scan" => Passed(c)

OrderInv == PositionInv /\ PublishedInv /\ PassedInv

-----------------------------------------------------------------------------
(* The order invariant                                                     *)

LEMMA OrderInit == Init => OrderInv
BY HomeOf, SchedAssumption
   DEF Init, OrderInv, PositionInv, PublishedInv, PassedInv

\* The steps that change a run queue or take a CPU into or out of a scan.
QueueStep ==
    \/ \E s \in {"slot", "num"} : StoreLands(s)
    \/ \E c \in Cpu : \/ PickBegin(c) \/ ReloadCount(c) \/ ScanSkip(c)
                      \/ PickNone(c) \/ PickNext(c)

\* An exception from a process brings its CPU back to the idle context.
LEMMA LeaveUser ==
  ASSUME IInv, NEW c \in Cpu, NEW kind, El0Irq(c) \/ El0Sync(c, kind)
  PROVE  /\ pc[c] = "user" /\ pc' = [pc EXCEPT ![c] = "back"]
         /\ proc[c] # NoTask /\ entryTask[c] = proc[c]
         /\ UNCHANGED <<proc, rqVars>>
<1> USE DEF IInv
<1>1. /\ pc[c] = "user" /\ preemptCount[c] = 0 /\ needResched[c] = TRUE
      /\ UNCHANGED <<proc, rqVars>>
  BY DEF El0Irq, El0Sync, CpuInv
<1>2. /\ proc[c] \in Proc /\ entryTask[c] = proc[c] /\ sp[proc[c]] = IdleFrame(c)
  BY <1>1 DEF CtxInv
<1>3. needResched'[c] = TRUE /\ CheckResched(c, entryTask[c], needResched'[c])
  <2>1. needResched \in [Cpu -> BOOLEAN]
    BY DEF TypeOK
  <2>2. CASE El0Irq(c)
    BY <1>1, <2>2, TimerIrqEffect DEF El0Irq
  <2>3. CASE El0Sync(c, kind)
    BY <1>1, <2>1, <2>3 DEF El0Sync, SetResched
  <2> QED
    BY <2>2, <2>3
<1>4. pc' = [pc EXCEPT ![c] = "back"]
  BY <1>1, <1>2, <1>3 DEF CheckResched, ProcessResched
<1>5. proc[c] # NoTask
  BY <1>2, SchedAssumption DEF Task
<1> QED
  BY <1>1, <1>2, <1>4, <1>5

\* What the other steps do not touch: the run queues, and which CPUs are in a
\* scan; and without an exception from a process, what a CPU executes.
LEMMA OtherStep ==
  ASSUME QuietBoot, IInv, Next, ~QueueStep
  PROVE  /\ UNCHANGED <<rqVars, regVars>>
         /\ \A d \in Cpu : pc'[d] = "scan" <=> pc[d] = "scan"
         /\ \/ UNCHANGED Executing
            \/ \E c \in Cpu, kind \in {"write", "exit", "fault"} :
                 El0Irq(c) \/ El0Sync(c, kind)
<1> USE DEF IInv
<1>1. UNCHANGED <<rqVars, regVars>>
  BY DEF QueueStep, Next, BootStep, IdleStep, RegisterDone,
         LocalSchedTimerStart, PreemptDisable, LocalIrqEnable, NeedResched,
         Schdule, RunProcess, RunProcessReturn, El1Irq, El0Irq, El0Sync,
         TimerExpires
<1>2. pc \in [Cpu -> PC]
  BY DEF TypeOK
<1> DEFINE Moves == /\ proc' = proc
                    /\ \A d \in Cpu :
                         \/ pc'[d] = pc[d]
                         \/ {pc[d], pc'[d]} \cap {"scan", "run", "user"} = {}
                         \/ pc[d] = "run" /\ pc'[d] = "user"
           Leaves == \E c \in Cpu, kind \in {"write", "exit", "fault"} :
                       El0Irq(c) \/ El0Sync(c, kind)
<1>3. ASSUME NEW c \in Cpu, RunProcess(c) PROVE Moves
  <2>1. pc[c] = "run" /\ proc[c] \in Proc /\ Home(proc[c]) = c
    BY <1>3 DEF RunProcess, CtxInv
  <2>2. sp[proc[c]] = Regs(proc[c])
    BY <2>1 DEF SpInv
  <2> QED
    BY <1>2, <1>3, <2>1, <2>2 DEF RunProcess, ContextSwitch
<1>4. ASSUME NEW c \in Cpu, El1Irq(c) PROVE Moves
  <2>1. preemptCount[c] = 1
    BY <1>4 DEF El1Irq, TimerIrqHandler, CpuInv, InBootWindow, PC, TypeOK
  <2> QED
    BY <1>4, <2>1 DEF El1Irq, CheckResched
<1>5. ASSUME RegisterDone \/ LocalSchedTimerStart PROVE Moves
  BY <1>2, <1>5, HomeOf DEF RegisterDone, LocalSchedTimerStart, ctxVars
<1>6. ASSUME NEW c \in Cpu,
             \/ PreemptDisable(c) \/ LocalIrqEnable(c) \/ NeedResched(c)
             \/ Schdule(c) \/ RunProcessReturn(c)
      PROVE  Moves
  <2>1. /\ proc' = proc /\ pc[c] \notin {"scan", "run", "user"}
        /\ \E x \in {"irq_enable", "check", "sched", "pre", "pick"} :
             pc' = [pc EXCEPT ![c] = x]
    BY <1>6 DEF PreemptDisable, LocalIrqEnable, NeedResched, Schdule,
                RunProcessReturn, ctxVars
  <2> QED
    BY <1>2, <2>1
<1>7. ASSUME NEW c \in Cpu, TimerExpires(c) PROVE Moves
  BY <1>7 DEF TimerExpires, ctxVars
<1>8. Moves \/ Leaves
  <2> HIDE DEF Moves, Leaves
  <2>1. CASE BootStep
    BY <1>5, <2>1 DEF BootStep, QueueStep
  <2>2. ASSUME NEW c \in Cpu, IdleStep(c) PROVE Moves
    BY <1>3, <1>6, <2>2 DEF IdleStep, QueueStep
  <2>3. ASSUME NEW c \in Cpu,
               El0Irq(c) \/ \E kind \in {"write", "exit", "fault"} : El0Sync(c, kind)
        PROVE  Leaves
    BY <2>3 DEF Leaves
  <2> QED
    BY <1>4, <1>7, <2>1, <2>2, <2>3 DEF Next, QueueStep
<1>9. CASE Moves
  BY <1>1, <1>9 DEF Executing
<1>10. CASE Leaves
  <2>1. PICK c \in Cpu : pc[c] = "user" /\ pc' = [pc EXCEPT ![c] = "back"]
    BY <1>10, LeaveUser
  <2> QED
    BY <1>1, <1>2, <1>10, <2>1
<1> QED
  BY <1>8, <1>9, <1>10

LEMMA QueueFacts ==
  ASSUME IInv, NEW c \in Cpu
  PROVE  /\ rqNum[c] \in Nat /\ rqNext[c] \in Nat /\ rqSeen[c] \in Nat
         /\ rqHad[c] \in Nat
         /\ scan[c].i \in Nat /\ scan[c].j \in Nat /\ scan[c].n \in Nat
         /\ regIdx \in Nat /\ regIdx <= Len(Processes) /\ Len(Processes) \in Nat
<1>1. scan[c] \in [i : Nat, j : Nat, n : Nat]
  BY DEF IInv, TypeOK
<1> QED
  BY <1>1, ProcIndex DEF IInv, TypeOK

LEMMA PositionNext ==
  ASSUME QuietBoot, IInv, PositionInv, [Next]_vars
  PROVE  PositionInv'
<1> DEFINE Pos(c) ==
      /\ rqNext[c] <= rqSeen[c] /\ rqSeen[c] <= rqNum[c]
      /\ pc[c] # "scan" => rqHad[c] = 0
      /\ pc[c] = "scan" => rqNext[c] < rqHad[c] /\ rqHad[c] <= rqSeen[c]
<1> SUFFICES ASSUME NEW d \in Cpu PROVE Pos(d)'
  BY DEF PositionInv
<1>1. /\ Pos(d) /\ rqNum[d] \in Nat /\ rqNext[d] \in Nat /\ rqSeen[d] \in Nat
      /\ rqHad[d] \in Nat
  BY QueueFacts DEF PositionInv
<1>2. /\ pc \in [Cpu -> PC] /\ rqNum \in [Cpu -> 0 .. Len(Processes)]
      /\ rqNext \in [Cpu -> Nat] /\ rqSeen \in [Cpu -> Nat]
      /\ rqHad \in [Cpu -> Nat]
  BY DEF IInv, TypeOK
<1>3. ASSUME NEW s \in {"slot", "num"}, StoreLands(s) PROVE Pos(d)'
  <2>1. /\ UNCHANGED <<pc, rqNext, rqSeen, rqHad>>
        /\ rqNum' = rqNum \/ rqNum' = [rqNum EXCEPT ![CpuOf(regIdx)] = @ + 1]
    BY <1>3, StoreEffect DEF cpuVars
  <2>2. rqNum'[d] \in {rqNum[d], rqNum[d] + 1}
    BY <1>2, <2>1
  <2> QED
    BY <1>1, <2>1, <2>2
<1>4. ASSUME NEW c \in Cpu, PickBegin(c) PROVE Pos(d)'
  <2>1. /\ rqSeen' = [rqSeen EXCEPT ![c] = rqNum[c]]
        /\ rqHad' = [rqHad EXCEPT ![c] = rqNum[c]]
        /\ pc' = [pc EXCEPT ![c] = "scan"] /\ rqNum[c] # 0
        /\ UNCHANGED <<rqNum, rqNext>>
    BY <1>4 DEF PickBegin
  <2>2. rqNext[c] < rqNum[c]
    BY <2>1 DEF IInv, ScanInv
  <2> QED
    BY <1>1, <1>2, <2>1, <2>2
<1>5. ASSUME NEW c \in Cpu, ScanSkip(c) PROVE Pos(d)'
  <2>1. /\ pc[c] = "scan" /\ UNCHANGED <<pc, rqNum, rqNext, rqHad>>
        /\ rqSeen' = [rqSeen EXCEPT
                        ![c] = IF scan[c].i + 1 < @ THEN @ ELSE scan[c].n]
    BY <1>5 DEF ScanSkip, cpuVars
  <2>2. /\ rqSeen[c] \in Nat /\ rqSeen[c] <= scan[c].n /\ scan[c].n <= rqNum[c]
        /\ scan[c].n \in Nat
    BY <2>1, ScanFacts
  <2>3. CASE d = c
    BY <1>1, <1>2, <2>1, <2>2, <2>3
  <2>4. CASE d # c
    BY <1>1, <1>2, <2>1, <2>4
  <2> QED
    BY <2>3, <2>4
<1>6. ASSUME NEW c \in Cpu, PickNone(c) PROVE Pos(d)'
  <2>1. /\ pc' = [pc EXCEPT ![c] = "pre"] /\ rqHad' = [rqHad EXCEPT ![c] = 0]
        /\ UNCHANGED <<rqNum, rqNext, rqSeen>>
    BY <1>6 DEF PickNone
  <2> QED
    BY <1>1, <1>2, <2>1
<1>7. ASSUME NEW c \in Cpu, PickNext(c) PROVE Pos(d)'
  <2>1. /\ pc[c] = "scan" /\ pc' = [pc EXCEPT ![c] = "run"]
        /\ rqHad' = [rqHad EXCEPT ![c] = 0]
        /\ rqNext' = [rqNext EXCEPT ![c] = NextSlot(c)]
        /\ UNCHANGED <<rqNum, rqSeen>>
    BY <1>7, PickNextEffect
  <2>2. NextSlot(c) \in Nat /\ NextSlot(c) <= rqSeen[c]
    BY <2>1, ScanFacts
  <2> QED
    BY <1>1, <1>2, <2>1, <2>2
<1>8. CASE /\ UNCHANGED <<rqNum, rqNext, rqSeen, rqHad>>
           /\ \A c \in Cpu : pc'[c] = "scan" <=> pc[c] = "scan"
  BY <1>1, <1>8
<1>9. CASE Next /\ ~QueueStep
  BY <1>8, <1>9, OtherStep DEF rqVars
<1>10. CASE UNCHANGED vars
  BY <1>8, <1>10 DEF vars, cpuVars, rqVars
<1>11. ASSUME NEW c \in Cpu, ReloadCount(c) PROVE Pos(d)'
  BY <1>8, <1>11 DEF ReloadCount, cpuVars
<1> QED
  BY <1>3, <1>4, <1>5, <1>6, <1>7, <1>9, <1>10, <1>11 DEF QueueStep

\* A process published to a CPU stays where it is, and gone once it has exited.
LEMMA PublishedFacts ==
  ASSUME IInv, PublishedInv, NEW c \in Cpu, NEW x \in 0 .. rqNum[c] - 1
  PROVE  /\ rqSlot[c][x] \in Proc /\ rqSlot[c][x] \in Task
         /\ state[rqSlot[c][x]] \in {"READY", "RUNNING", "ZOMBIE"}
<1>1. PICK j \in 1 .. regIdx : rqSlot[c][x] = Processes[j]
  BY DEF PublishedInv
<1>2. regIdx \in Nat /\ regIdx <= Len(Processes) /\ Len(Processes) \in Nat
  BY QueueFacts
<1>3. Processes[j] \in Proc /\ Processes[j] \in Task
  BY <1>2, ProcIndex DEF Task
<1>4. state \in [Task -> State] /\ state[Processes[j]] # "NEW"
  BY DEF IInv, TypeOK, PublishedInv
<1> QED
  BY <1>1, <1>3, <1>4 DEF State

LEMMA SlotKept ==
  ASSUME QuietBoot, IInv, [Next]_vars, NEW c \in Cpu, NEW x \in 0 .. rqNum[c] - 1
  PROVE  rqSlot'[c][x] = rqSlot[c][x]
<1>1. CASE UNCHANGED rqSlot
  BY <1>1
<1>2. ASSUME NEW s \in {"slot", "num"}, StoreLands(s)
      PROVE  rqSlot'[c][x] = rqSlot[c][x]
  <2>1. CASE s = "num"
    BY <1>2, <2>1, <1>1, StoreEffect
  <2>2. CASE s = "slot"
    <3>1. PICK cpu \in Cpu, p \in Proc :
            rqSlot' = [rqSlot EXCEPT ![cpu][rqNum[cpu]] = p]
      BY <1>2, <2>2, StoreEffect
    <3>2. rqSlot \in [Cpu -> [0 .. Len(Processes) - 1 -> Proc \cup {NoTask}]]
      BY DEF IInv, TypeOK
    <3>3. ~(c = cpu /\ x = rqNum[cpu])
      BY QueueFacts
    <3> QED
      BY <3>1, <3>2, <3>3
  <2> QED
    BY <2>1, <2>2
<1>3. CASE Next /\ ~QueueStep
  BY <1>1, <1>3, OtherStep DEF rqVars
<1>4. CASE \E d \in Cpu : \/ PickBegin(d) \/ ReloadCount(d) \/ ScanSkip(d)
                          \/ PickNone(d) \/ PickNext(d)
  BY <1>1, <1>4 DEF PickBegin, ReloadCount, ScanSkip, PickNone, PickNext
<1>5. CASE UNCHANGED vars
  BY <1>1, <1>5 DEF vars, rqVars
<1> QED
  BY <1>2, <1>3, <1>4, <1>5 DEF QueueStep

LEMMA StateKept ==
  ASSUME QuietBoot, IInv, [Next]_vars, NEW q \in Proc
  PROVE  /\ state[q] = "ZOMBIE" => state'[q] = "ZOMBIE"
         /\ state[q] # "NEW" => state'[q] # "NEW"
<1>1. CASE UNCHANGED vars
  BY <1>1 DEF vars
<1>2. CASE Next
  BY <1>2, StateMoves
<1> QED
  BY <1>1, <1>2

LEMMA GoneKept ==
  ASSUME QuietBoot, IInv, PublishedInv, [Next]_vars, NEW c \in Cpu,
         NEW x \in 0 .. rqNum[c] - 1, Gone(c, x)
  PROVE  Gone(c, x)'
<1>1. PICK q \in Proc : q = rqSlot[c][x]
  BY PublishedFacts
<1>2. rqSlot'[c][x] = q
  BY <1>1, SlotKept
<1>3. state'[q] = "ZOMBIE"
  BY <1>1, StateKept DEF Gone
<1> QED
  BY <1>2, <1>3 DEF Gone

LEMMA PublishedNext ==
  ASSUME QuietBoot, IInv, PublishedInv, [Next]_vars
  PROVE  PublishedInv'
<1>1. /\ rqNum \in [Cpu -> 0 .. Len(Processes)]
      /\ rqSlot \in [Cpu -> [0 .. Len(Processes) - 1 -> Proc \cup {NoTask}]]
      /\ regIdx \in 0 .. Len(Processes) /\ Len(Processes) \in Nat
      /\ state \in [Task -> State]
  BY ProcIndex DEF IInv, TypeOK
<1>2. \A q \in Proc : state[q] # "NEW" => state'[q] # "NEW"
  BY StateKept
<1>3. \A j \in 1 .. regIdx : state'[Processes[j]] # "NEW"
  BY <1>1, <1>2, ProcIndex DEF PublishedInv
<1>4. ASSUME NEW s \in {"slot", "num"}, StoreLands(s) PROVE PublishedInv'
  <2> DEFINE cpu == CpuOf(regIdx)
             p == Processes[regIdx + 1]
  <2>1. /\ Len(Processes) \in Nat /\ regIdx \in Nat /\ regIdx < Len(Processes)
        /\ cpu \in Cpu /\ p \in Proc /\ p \in Task
        /\ rqNum[cpu] \in 0 .. Len(Processes) - 1
    BY <1>4, StoreEffect
  <2>2. CASE s = "slot"
    <3>1. /\ state' = [state EXCEPT ![p] = "READY"]
          /\ rqSlot' = [rqSlot EXCEPT ![cpu][rqNum[cpu]] = p]
          /\ rqNum' = rqNum /\ regIdx' = regIdx
      BY <1>4, <2>2, StoreEffect
    <3>2. rqSlot'[cpu][rqNum[cpu]] = p /\ state'[p] # "NEW"
      BY <1>1, <2>1, <3>1
    <3>3. \A c \in Cpu : \A i \in 0 .. rqNum[c] - 1 :
            rqSlot'[c][i] = rqSlot[c][i]
      BY SlotKept
    <3> HIDE DEF p
    <3> QED
      BY <1>3, <2>1, <3>1, <3>2, <3>3 DEF PublishedInv, p
  <2>3. CASE s = "num"
    <3>1. /\ rqNum' = [rqNum EXCEPT ![cpu] = @ + 1]
          /\ landed = {"slot"} /\ landed' = {} /\ regIdx' = regIdx + 1
          /\ state' = state /\ rqSlot' = rqSlot
      BY <1>4, <2>3, StoreEffect
    <3>2. rqSlot[cpu][rqNum[cpu]] = p /\ state[p] # "NEW"
      BY <3>1 DEF PublishedInv
    <3>3. \A j \in 1 .. regIdx + 1 : state[Processes[j]] # "NEW"
      BY <1>3, <2>1, <3>1, <3>2
    <3>4. ASSUME NEW c \in Cpu, NEW i \in 0 .. rqNum'[c] - 1
          PROVE  \E j \in 1 .. regIdx + 1 : rqSlot[c][i] = Processes[j]
      <4>1. CASE c = cpu /\ i = rqNum[cpu]
        BY <2>1, <3>2, <4>1
      <4>2. CASE ~(c = cpu /\ i = rqNum[cpu])
        <5>1. i \in 0 .. rqNum[c] - 1
          BY <1>1, <2>1, <3>1, <4>2
        <5>2. PICK j \in 1 .. regIdx : rqSlot[c][i] = Processes[j]
          BY <5>1 DEF PublishedInv
        <5> QED
          BY <2>1, <5>2
      <4> QED
        BY <4>1, <4>2
    <3> QED
      BY <2>1, <3>1, <3>3, <3>4 DEF PublishedInv
  <2> QED
    BY <2>2, <2>3
<1>5. CASE UNCHANGED <<rqNum, rqSlot, regIdx, landed>>
  <2>1. landed = {"slot"} => state'[Processes[regIdx + 1]] # "NEW"
    BY <1>1, <1>2, ProcIndex DEF PublishedInv, IInv, RqInv
  <2> QED
    BY <1>3, <1>5, <2>1 DEF PublishedInv
<1>6. CASE Next /\ ~QueueStep
  BY <1>5, <1>6, OtherStep DEF rqVars, regVars
<1>7. CASE \E d \in Cpu : \/ PickBegin(d) \/ ReloadCount(d) \/ ScanSkip(d)
                          \/ PickNone(d) \/ PickNext(d)
  BY <1>5, <1>7 DEF PickBegin, ReloadCount, ScanSkip, PickNone, PickNext, regVars
<1>8. CASE UNCHANGED vars
  BY <1>5, <1>8 DEF vars, rqVars, regVars
<1> QED
  BY <1>4, <1>6, <1>7, <1>8 DEF QueueStep

\* A slot below the count a scan saw is a slot of the queue.
LEMMA SlotBelow ==
  ASSUME NEW x \in Nat, NEW k \in Nat, NEW n \in Nat, x < k, k <= n
  PROVE  x \in 0 .. n - 1
OBVIOUS

\* What a scan has passed it stays past.
LEMMA PassedKept ==
  ASSUME QuietBoot, IInv, PositionInv, PublishedInv, [Next]_vars, NEW d \in Cpu,
         pc[d] = "scan", Passed(d), scan'[d].i = scan[d].i,
         scan'[d].j = scan[d].j, rqNext'[d] = rqNext[d],
         rqSeen'[d] = rqSeen[d], rqHad'[d] = rqHad[d]
  PROVE  Passed(d)'
<1>1. /\ rqSeen[d] \in Nat /\ rqNum[d] \in Nat /\ rqHad[d] \in Nat
      /\ scan[d].i \in Nat /\ scan[d].i < rqSeen[d] /\ rqSeen[d] <= rqNum[d]
      /\ rqHad[d] <= rqSeen[d]
  BY QueueFacts DEF IInv, ScanInv, PositionInv
<1>2. ASSUME NEW x \in Nat, x < rqSeen[d], Gone(d, x) PROVE Gone(d, x)'
  <2>1. x \in 0 .. rqNum[d] - 1
    BY <1>1, <1>2, SlotBelow, Zenon
  <2> QED
    BY <1>2, <2>1, GoneKept
<1>3. \A x \in Nat : x < scan[d].i \/ x < rqHad[d] => x < rqSeen[d]
  BY <1>1
<1> DEFINE G(x) == Gone(d, x)
           H(x) == Gone(d, x)'
<1>4. \A x \in Nat : x < rqSeen[d] /\ G(x) => H(x)
  BY <1>2
<1>5. Passed(d)
  OBVIOUS
<1> QED
  BY <1>3, <1>4, <1>5 DEF Passed

LEMMA PassedSkip ==
  ASSUME QuietBoot, IInv, PositionInv, PublishedInv, [Next]_vars, NEW c \in Cpu,
         Passed(c), ScanSkip(c)
  PROVE  Passed(c)'
<1>1. /\ pc[c] = "scan" /\ UNCHANGED <<rqNum, rqSlot, rqNext, rqHad, state>>
      /\ scan' = [scan EXCEPT ![c].i = NextSlot(c), ![c].j = @ + 1]
      /\ rqSeen' = [rqSeen EXCEPT
                      ![c] = IF scan[c].i + 1 < @ THEN @ ELSE scan[c].n]
      /\ ~Runnable(Candidate(c))
  BY DEF ScanSkip
<1>2. /\ scan \in [Cpu -> [i : Nat, j : Nat, n : Nat]] /\ rqSeen \in [Cpu -> Nat]
  BY DEF IInv, TypeOK
<1>3. PICK i \in Nat, j \in Nat, n \in Nat, k \in Nat, s \in Nat, h \in Nat :
        /\ i = scan[c].i /\ j = scan[c].j /\ n = scan[c].n
        /\ k = rqSeen[c] /\ s = rqNext[c] /\ h = rqHad[c]
  BY QueueFacts
<1>4. PICK i2 \in Nat, k2 \in Nat :
        /\ i2 = IF i + 1 < n THEN i + 1 ELSE 0
        /\ k2 = IF i + 1 < k THEN k ELSE n
  OBVIOUS
<1>5. /\ i < k /\ k <= n /\ n <= rqNum[c] /\ s < h /\ h <= k
      /\ NextSlot(c) = i2
  BY <1>1, <1>3, <1>4, ScanFacts DEF PositionInv
<1>6. /\ scan'[c].i = i2 /\ scan'[c].j = j + 1 /\ rqSeen'[c] = k2
      /\ rqNext'[c] = s /\ rqHad'[c] = h
  BY <1>1, <1>2, <1>3, <1>4, <1>5
<1>7. Gone(c, i)
  <2>1. rqNum[c] \in Nat
    BY QueueFacts
  <2>2. i \in 0 .. rqNum[c] - 1
    BY <1>5, <2>1
  <2> QED
    BY <1>1, <1>3, <2>2, PublishedFacts DEF Candidate, Runnable, Gone
<1>8. \A x : Gone(c, x)' <=> Gone(c, x)
  BY <1>1 DEF Gone
<1> DEFINE G(x) == Gone(c, x)
           Arc(a, b) == IF s <= a THEN \A x \in Nat : s <= x /\ x < a => G(x)
                        ELSE \A x \in Nat : x < a \/ (s <= x /\ x < b) => G(x)
           Count(a, b, m) == \/ m = IF s <= a THEN a - s ELSE a + (b - s)
                             \/ \A x \in Nat : x < h => G(x)
<1>9. Arc(i, k) /\ Count(i, k, j)
  BY <1>3 DEF Passed
<1>10. G(i)
  BY <1>7
<1>11. Passed(c)' <=> Arc(i2, k2) /\ Count(i2, k2, j + 1)
  BY <1>6, <1>8 DEF Passed
<1> HIDE DEF G
<1>12. Arc(i2, k2)
  <2>1. CASE s <= i
    BY <1>4, <1>5, <1>9, <1>10, <2>1
  <2>2. CASE i < s
    BY <1>4, <1>5, <1>9, <1>10, <2>2
  <2> QED
    BY <2>1, <2>2
<1>13. Count(i2, k2, j + 1)
  <2>1. CASE s <= i
    BY <1>4, <1>5, <1>9, <1>10, <2>1
  <2>2. CASE i < s
    BY <1>4, <1>5, <1>9, <1>10, <2>2
  <2> QED
    BY <2>1, <2>2
<1> QED
  BY <1>11, <1>12, <1>13

LEMMA PassedNext ==
  ASSUME QuietBoot, IInv, OrderInv, [Next]_vars
  PROVE  PassedInv'
<1> USE DEF OrderInv
<1> SUFFICES ASSUME NEW d \in Cpu, pc'[d] = "scan" PROVE Passed(d)'
  BY DEF PassedInv
<1>1. /\ pc \in [Cpu -> PC] /\ scan \in [Cpu -> [i : Nat, j : Nat, n : Nat]]
      /\ rqNext \in [Cpu -> Nat] /\ rqSeen \in [Cpu -> Nat]
      /\ rqHad \in [Cpu -> Nat]
  BY DEF IInv, TypeOK
<1>2. CASE /\ pc[d] = "scan" /\ scan'[d].i = scan[d].i /\ scan'[d].j = scan[d].j
           /\ rqNext'[d] = rqNext[d] /\ rqSeen'[d] = rqSeen[d]
           /\ rqHad'[d] = rqHad[d]
  <2>1. Passed(d)
    BY <1>2 DEF PassedInv
  <2> QED
    BY <1>2, <2>1, PassedKept
<1>3. ASSUME NEW s \in {"slot", "num"}, StoreLands(s) PROVE Passed(d)'
  BY <1>2, <1>3, StoreEffect DEF cpuVars
<1>4. ASSUME NEW c \in Cpu, PickBegin(c) PROVE Passed(d)'
  <2>1. /\ scan' = [scan EXCEPT ![c] = [i |-> rqNext[c], j |-> 0, n |-> rqNum[c]]]
        /\ rqSeen' = [rqSeen EXCEPT ![c] = rqNum[c]]
        /\ rqHad' = [rqHad EXCEPT ![c] = rqNum[c]]
        /\ pc' = [pc EXCEPT ![c] = "scan"] /\ rqNext' = rqNext
    BY <1>4 DEF PickBegin
  <2>2. CASE d = c
    <3>1. /\ scan'[d].i = rqNext[d] /\ scan'[d].j = 0 /\ rqNext'[d] = rqNext[d]
          /\ rqNext[d] \in Nat
      BY <1>1, <2>1, <2>2
    <3> QED
      BY SMTT(30), <3>1 DEF Passed
  <2>3. CASE d # c
    BY <1>1, <1>2, <2>1, <2>3
  <2> QED
    BY <2>2, <2>3
<1>5. ASSUME NEW c \in Cpu, ReloadCount(c) PROVE Passed(d)'
  <2>1. /\ scan' = [scan EXCEPT ![c].n = rqNum[c]]
        /\ UNCHANGED <<pc, rqNext, rqSeen, rqHad>>
    BY <1>5 DEF ReloadCount, cpuVars
  <2>2. scan'[d].i = scan[d].i /\ scan'[d].j = scan[d].j
    BY <1>1, <2>1
  <2> QED
    BY <1>2, <2>1, <2>2
<1>6. ASSUME NEW c \in Cpu, ScanSkip(c) PROVE Passed(d)'
  <2>1. CASE d = c
    <3>1. pc[c] = "scan"
      BY <1>6 DEF ScanSkip
    <3>2. Passed(c)
      BY <3>1 DEF PassedInv
    <3> QED
      BY <1>6, <2>1, <3>2, PassedSkip
  <2>2. CASE d # c
    <3>1. /\ scan'[d] = scan[d] /\ rqSeen'[d] = rqSeen[d]
          /\ UNCHANGED <<pc, rqNext, rqHad>>
      BY <1>1, <1>6, <2>2 DEF ScanSkip, cpuVars
    <3> QED
      BY <1>2, <3>1
  <2> QED
    BY <2>1, <2>2
<1>7. ASSUME NEW c \in Cpu, PickNone(c) PROVE Passed(d)'
  <2>1. /\ pc' = [pc EXCEPT ![c] = "pre"] /\ rqHad' = [rqHad EXCEPT ![c] = 0]
        /\ scan' = [scan EXCEPT ![c] = NoScan] /\ UNCHANGED <<rqNext, rqSeen>>
    BY <1>7 DEF PickNone
  <2>2. d # c
    BY <1>1, <2>1
  <2> QED
    BY <1>1, <1>2, <2>1, <2>2
<1>8. ASSUME NEW c \in Cpu, PickNext(c) PROVE Passed(d)'
  <2>1. /\ pc' = [pc EXCEPT ![c] = "run"] /\ rqHad' = [rqHad EXCEPT ![c] = 0]
        /\ scan' = [scan EXCEPT ![c] = NoScan] /\ rqSeen' = rqSeen
        /\ rqNext' = [rqNext EXCEPT ![c] = NextSlot(c)]
    BY <1>8, PickNextEffect
  <2>2. d # c
    BY <1>1, <2>1
  <2> QED
    BY <1>1, <1>2, <2>1, <2>2
<1>9. CASE Next /\ ~QueueStep
  BY <1>2, <1>9, OtherStep DEF rqVars
<1>10. CASE UNCHANGED vars
  BY <1>2, <1>10 DEF vars, cpuVars, rqVars
<1> QED
  BY <1>3, <1>4, <1>5, <1>6, <1>7, <1>8, <1>9, <1>10 DEF QueueStep

LEMMA OrderNext ==
  ASSUME QuietBoot, IInv, OrderInv, [Next]_vars
  PROVE  OrderInv'
BY PositionNext, PublishedNext, PassedNext DEF OrderInv

-----------------------------------------------------------------------------
(* The steps                                                               *)

LEMMA TurnFacts ==
  ASSUME IInv, OrderInv, NEW c \in Cpu
  PROVE  /\ Turn[c] = Ring(rqSlot[c], rqNext[c], rqSeen[c])
         /\ Arrived[c] = Front(rqSlot[c], rqNum[c])
         /\ Turn[c] \in Seq(Proc) /\ Len(Turn[c]) = rqSeen[c]
         /\ Arrived[c] \in Seq(Proc) /\ Len(Arrived[c]) = rqNum[c]
         /\ rqNext[c] <= rqSeen[c] /\ rqSeen[c] <= rqNum[c]
<1>1. /\ rqNum[c] \in Nat /\ rqNext[c] \in Nat /\ rqSeen[c] \in Nat
      /\ rqNext[c] <= rqSeen[c] /\ rqSeen[c] <= rqNum[c]
  BY QueueFacts DEF OrderInv, PositionInv
<1>2. \A x \in 0 .. rqNum[c] - 1 : rqSlot[c][x] \in Proc
  BY PublishedFacts DEF OrderInv
<1>3. /\ Turn[c] = Ring(rqSlot[c], rqNext[c], rqSeen[c])
      /\ Arrived[c] = Front(rqSlot[c], rqNum[c])
  BY DEF Turn, Arrived, Ring, Front
<1>4. /\ Ring(rqSlot[c], rqNext[c], rqSeen[c]) \in Seq(Proc)
      /\ Len(Ring(rqSlot[c], rqNext[c], rqSeen[c])) = rqSeen[c]
  <2>1. PICK n \in Nat, next \in Nat : n = rqSeen[c] /\ next = rqNext[c]
    BY <1>1
  <2>2. \A x \in 0 .. n - 1 : rqSlot[c][x] \in Proc
    BY <1>1, <1>2, <2>1
  <2>3. ASSUME NEW k \in 1 .. n PROVE rqSlot[c][(next + (k - 1)) % n] \in Proc
    <3>1. next + (k - 1) \in Nat /\ n > 0
      OBVIOUS
    <3>2. (next + (k - 1)) % n \in 0 .. n - 1
      BY <3>1, ModRange
    <3> QED
      BY <2>2, <3>2
  <2>4. /\ Ring(rqSlot[c], next, n) \in Seq(Proc)
        /\ Len(Ring(rqSlot[c], next, n)) = n
    BY <2>3 DEF Ring
  <2> QED
    BY <2>1, <2>4
<1>5. /\ Front(rqSlot[c], rqNum[c]) \in Seq(Proc)
      /\ Len(Front(rqSlot[c], rqNum[c])) = rqNum[c]
  BY <1>1, <1>2 DEF Front
<1> QED
  BY <1>1, <1>3, <1>4, <1>5

LEMMA TurnMap ==
  /\ Turn = [c \in Cpu |-> Turn[c]] /\ Turn' = [c \in Cpu |-> Turn'[c]]
  /\ Arrived = [c \in Cpu |-> Arrived[c]] /\ Arrived' = [c \in Cpu |-> Arrived'[c]]
BY DEF Turn, Arrived

\* The published slots are left as they are, so an arrival stays where it is.
LEMMA ArrivedKept ==
  ASSUME rqNum' = rqNum, rqSlot' = rqSlot
  PROVE  Arrived' = Arrived
BY DEF Arrived

LEMMA TurnKept ==
  ASSUME NEW d \in Cpu, rqSlot'[d] = rqSlot[d], rqNext'[d] = rqNext[d],
         rqSeen'[d] = rqSeen[d]
  PROVE  Turn'[d] = Turn[d]
BY DEF Turn

\* The store to g_num_processes is the arrival of the process.
LEMMA ArriveStep ==
  ASSUME QuietBoot, IInv, OrderInv, StoreLands("num")
  PROVE  RR!Arrive(CpuOf(regIdx), Processes[regIdx + 1])
<1> DEFINE cpu == CpuOf(regIdx)
           p == Processes[regIdx + 1]
           n == rqNum[cpu]
<1>1. /\ Len(Processes) \in Nat /\ regIdx \in Nat /\ regIdx < Len(Processes)
      /\ cpu \in Cpu /\ p \in Proc /\ n \in Nat
      /\ UNCHANGED <<cpuVars, ctxVars, rqNext, rqSeen, rqHad, state, rqSlot>>
      /\ rqNum' = [rqNum EXCEPT ![cpu] = @ + 1] /\ landed = {"slot"}
      /\ rqNum \in [Cpu -> 0 .. Len(Processes)]
  <2>1. rqNum \in [Cpu -> 0 .. Len(Processes)]
    BY DEF IInv, TypeOK
  <2> QED
    BY <2>1, StoreEffect
<1>2. rqSlot[cpu][n] = p
  BY <1>1 DEF OrderInv, PublishedInv
<1>3. ASSUME NEW d \in Cpu, NEW k \in 1 .. Len(Arrived[d]) PROVE Arrived[d][k] # p
  <2>1. k \in 1 .. rqNum[d] /\ rqNum[d] \in Nat
    BY TurnFacts, QueueFacts
  <2>2. k - 1 \in 0 .. rqNum[d] - 1 /\ Arrived[d][k] = rqSlot[d][k - 1]
    BY <2>1 DEF Arrived
  <2>3. PICK j \in 1 .. regIdx : Arrived[d][k] = Processes[j]
    BY <2>2 DEF OrderInv, PublishedInv
  <2>4. j \in DOMAIN Processes /\ regIdx + 1 \in DOMAIN Processes /\ j # regIdx + 1
    BY <1>1, ProcIndex
  <2> QED
    BY <2>3, <2>4, ProcDistinct
<1> HIDE DEF cpu, p
<1>4. Arrived'[cpu] = Append(Arrived[cpu], p)
  <2>1. Arrived'[cpu] = [k \in 1 .. n + 1 |-> rqSlot[cpu][k - 1]]
    BY <1>1 DEF Arrived
  <2>2. Len(Arrived[cpu]) = n /\ Arrived[cpu] = [k \in 1 .. n |-> rqSlot[cpu][k - 1]]
    BY <1>1, TurnFacts DEF Front
  <2>3. Append(Arrived[cpu], p) =
          [k \in 1 .. n + 1 |-> IF k = n + 1 THEN p ELSE Arrived[cpu][k]]
    BY <1>1, <2>2, TurnFacts
  <2>4. \A k \in 1 .. n + 1 : rqSlot[cpu][k - 1] =
          IF k = n + 1 THEN p ELSE Arrived[cpu][k]
    <3> TAKE k \in 1 .. n + 1
    <3>1. CASE k = n + 1
      BY <1>1, <1>2, <3>1
    <3>2. CASE k # n + 1
      BY <1>1, <2>2, <3>2
    <3> QED
      BY <3>1, <3>2
  <2> HIDE DEF n
  <2> QED
    BY <2>1, <2>3, <2>4
<1>5. ASSUME NEW d \in Cpu, d # cpu PROVE Arrived'[d] = Arrived[d]
  BY <1>1, <1>5 DEF Arrived
<1>6. Arrived' = [Arrived EXCEPT ![cpu] = Append(@, p)]
  BY Zenon, <1>4, <1>5, TurnMap
<1>7. UNCHANGED <<Turn, Executing, Exited, rqHad>>
  BY <1>1 DEF Turn, Executing, Exited, cpuVars, ctxVars
<1>8. RR!Arrive(cpu, p)
  BY <1>3, <1>6, <1>7 DEF RR!Arrive
<1> QED
  BY <1>8 DEF cpu, p

\* The store to the slot is not seen.
LEMMA SlotStep ==
  ASSUME QuietBoot, IInv, OrderInv, StoreLands("slot"), [Next]_vars
  PROVE  UNCHANGED <<Arrived, Turn, rqHad, Executing>>
<1>1. UNCHANGED <<cpuVars, ctxVars, rqNext, rqNum, rqSeen, rqHad>>
  BY StoreEffect
<1>2. ASSUME NEW c \in Cpu PROVE Arrived'[c] = Arrived[c] /\ Turn'[c] = Turn[c]
  <2>1. /\ rqNum[c] \in Nat /\ rqNext[c] \in Nat /\ rqSeen[c] \in Nat
        /\ rqSeen[c] <= rqNum[c]
    BY QueueFacts, TurnFacts
  <2>2. \A x \in 0 .. rqNum[c] - 1 : rqSlot'[c][x] = rqSlot[c][x]
    BY SlotKept
  <2>3. \A k \in 1 .. rqNum[c] : rqSlot'[c][k - 1] = rqSlot[c][k - 1]
    BY <2>1, <2>2
  <2>4. ASSUME NEW k \in 1 .. rqSeen[c]
        PROVE  rqSlot'[c][(rqNext[c] + (k - 1)) % rqSeen[c]] =
                 rqSlot[c][(rqNext[c] + (k - 1)) % rqSeen[c]]
    <3>1. PICK a \in Nat, b \in Nat : /\ a = rqNext[c] + (k - 1) /\ b = rqSeen[c]
                                      /\ b > 0 /\ b <= rqNum[c]
      BY <2>1
    <3>2. PICK x : x = a % b
      OBVIOUS
    <3>3. x \in 0 .. b - 1
      BY <3>1, <3>2, ModRange
    <3>4. x \in 0 .. rqNum[c] - 1
      BY <2>1, <3>1, <3>3
    <3> QED
      BY <2>2, <3>1, <3>2, <3>4
  <2>5. /\ Arrived'[c] = [k \in 1 .. rqNum[c] |-> rqSlot'[c][k - 1]]
        /\ Turn'[c] = [k \in 1 .. rqSeen[c] |->
                         rqSlot'[c][(rqNext[c] + (k - 1)) % rqSeen[c]]]
    BY <1>1 DEF Arrived, Turn
  <2>6. Arrived'[c] = Arrived[c]
    BY <2>3, <2>5 DEF Arrived
  <2>7. Turn'[c] = Turn[c]
    BY <2>4, <2>5 DEF Turn
  <2> QED
    BY <2>6, <2>7
<1>3. Arrived' = Arrived /\ Turn' = Turn
  BY Zenon, <1>2, TurnMap
<1> QED
  BY <1>1, <1>3 DEF Executing, cpuVars, ctxVars

\* Taking published processes into account inserts them at one place.
LEMMA JoinStep ==
  ASSUME IInv, OrderInv, NEW c \in Cpu, NEW l \in Nat, rqSeen[c] <= l,
         l <= rqNum[c], rqNext[c] < l, UNCHANGED <<rqNum, rqSlot, rqNext>>,
         rqSeen' = [rqSeen EXCEPT ![c] = l]
  PROVE  RR!Join(c, l)
<1>0. PICK slot : slot = rqSlot[c]
  OBVIOUS
<1>1. PICK n \in Nat, r \in Nat, next \in Nat :
        /\ n = rqSeen[c] /\ r = rqNum[c] /\ next = rqNext[c] /\ slot = rqSlot[c]
  BY <1>0, QueueFacts
<1>2. /\ Turn[c] = Ring(slot, next, n) /\ Len(Turn[c]) = n
      /\ Arrived[c] = Front(slot, r) /\ next <= n /\ n <= l /\ l <= r
  BY <1>1, TurnFacts
<1>3. Ring(slot, next, l) = Joined(slot, next, n, l, r)
  <2>1. n <= l /\ l <= r /\ next <= n /\ (next < l \/ l = 0)
    BY <1>1, <1>2
  <2> QED
    BY <2>1, RingJoin
<1>4. rqSeen \in [Cpu -> Nat]
  BY DEF IInv, TypeOK
<1>5. Turn'[c] = Ring(slot, next, l)
  BY <1>1, <1>4 DEF Turn, Ring
<1>6. PICK i \in 0 .. Len(Turn[c]) : i = n - next
  BY <1>2
<1> DEFINE joined == (SubSeq(Turn[c], 1, i)
                        \o SubSeq(Arrived[c], Len(Turn[c]) + 1, l))
                        \o SubSeq(Turn[c], i + 1, Len(Turn[c]))
<1>7. Turn'[c] = joined
  BY <1>2, <1>3, <1>5, <1>6 DEF Inserted, Joined
<1>8. ASSUME NEW d \in Cpu, d # c PROVE Turn'[d] = Turn[d]
  BY <1>4, <1>8, TurnKept
<1> HIDE DEF joined
<1>9. Turn' = [Turn EXCEPT ![c] = joined]
  BY Zenon, <1>7, <1>8, TurnMap
<1> QED
  BY <1>9 DEF RR!Join, joined

LEMMA ChooseStep ==
  ASSUME IInv, OrderInv, NEW c \in Cpu, PickBegin(c)
  PROVE  RR!Choose(c)
<1>1. /\ pc[c] = "pick" /\ rqNum[c] # 0 /\ pc' = [pc EXCEPT ![c] = "scan"]
      /\ rqSeen' = [rqSeen EXCEPT ![c] = rqNum[c]]
      /\ rqHad' = [rqHad EXCEPT ![c] = rqNum[c]]
      /\ UNCHANGED <<rqNum, rqSlot, rqNext, state, proc>>
  BY DEF PickBegin, ctxVars
<1>2. /\ rqHad[c] = 0 /\ rqNum[c] \in Nat /\ rqSeen[c] <= rqNum[c]
      /\ rqNext[c] < rqNum[c] /\ Len(Arrived[c]) = rqNum[c]
  BY <1>1, QueueFacts, TurnFacts DEF OrderInv, PositionInv, IInv, ScanInv
<1>3. RR!Join(c, rqNum[c])
  <2>1. PICK l \in Nat : l = rqNum[c]
    BY <1>2
  <2>2. /\ rqSeen[c] <= l /\ l <= rqNum[c] /\ rqNext[c] < l
        /\ rqSeen' = [rqSeen EXCEPT ![c] = l] /\ UNCHANGED <<rqNum, rqSlot, rqNext>>
    BY SMTT(30), <1>1, <1>2, <2>1
  <2>3. RR!Join(c, l)
    BY <2>2, JoinStep
  <2> QED
    BY <2>1, <2>3
<1>4. pc \in [Cpu -> PC]
  BY DEF IInv, TypeOK
<1>5. Executing[c] = NoTask /\ Executing' = Executing /\ Exited' = Exited
  BY <1>1, <1>4 DEF Executing, Exited
<1>6. Arrived' = Arrived
  BY <1>1, ArrivedKept
<1> QED
  BY <1>1, <1>2, <1>3, <1>5, <1>6 DEF RR!Choose

LEMMA NoticeStep ==
  ASSUME IInv, OrderInv, NEW c \in Cpu, ScanSkip(c)
  PROVE  RR!Notice(c)
<1>1. /\ pc[c] = "scan"
      /\ rqSeen' = [rqSeen EXCEPT
                      ![c] = IF scan[c].i + 1 < @ THEN @ ELSE scan[c].n]
      /\ UNCHANGED <<rqNum, rqSlot, rqNext, rqHad, state, proc, pc>>
  BY DEF ScanSkip, ctxVars, cpuVars
<1>2. PICK l \in Nat : l = IF scan[c].i + 1 < rqSeen[c] THEN rqSeen[c] ELSE scan[c].n
  BY QueueFacts
<1>3. /\ rqSeen[c] <= l /\ l <= rqNum[c] /\ rqNext[c] < l /\ rqHad[c] # 0
      /\ Len(Turn[c]) = rqSeen[c] /\ Len(Arrived[c]) = rqNum[c]
      /\ rqSeen[c] \in Nat /\ rqNum[c] \in Nat
  <2>1. /\ scan[c].i \in Nat /\ scan[c].n \in Nat /\ rqSeen[c] \in Nat
        /\ rqNum[c] \in Nat /\ rqNext[c] \in Nat /\ rqHad[c] \in Nat
    BY QueueFacts
  <2>2. /\ rqSeen[c] <= scan[c].n /\ scan[c].n <= rqNum[c]
        /\ rqNext[c] < rqHad[c] /\ rqHad[c] <= rqSeen[c]
    BY <1>1, ScanFacts DEF OrderInv, PositionInv
  <2>3. Len(Turn[c]) = rqSeen[c] /\ Len(Arrived[c]) = rqNum[c]
    BY TurnFacts
  <2> QED
    BY <1>2, <2>1, <2>2, <2>3
<1>4. rqSeen' = [rqSeen EXCEPT ![c] = l]
  BY <1>1, <1>2 DEF IInv, TypeOK
<1>5. RR!Join(c, l)
  <2>1. /\ rqSeen[c] <= l /\ l <= rqNum[c] /\ rqNext[c] < l
        /\ UNCHANGED <<rqNum, rqSlot, rqNext>>
    BY <1>1, <1>3
  <2> QED
    BY <1>4, <2>1, JoinStep
<1>6. UNCHANGED <<Arrived, rqHad, Executing, Exited>>
  BY <1>1, ArrivedKept DEF Executing, Exited
<1>7. l \in Len(Turn[c]) .. Len(Arrived[c])
  BY <1>3
<1> QED
  BY <1>3, <1>5, <1>6, <1>7 DEF RR!Notice

\* A scan gives up only when it has been round all it began with.
LEMMA GiveUpStep ==
  ASSUME IInv, OrderInv, NEW c \in Cpu, PickNone(c), pc[c] = "scan"
  PROVE  RR!GiveUp(c)
<1>1. /\ scan[c].j >= scan[c].n /\ pc' = [pc EXCEPT ![c] = "pre"]
      /\ rqHad' = [rqHad EXCEPT ![c] = 0]
      /\ UNCHANGED <<rqNum, rqSlot, rqNext, rqSeen, state, proc>>
  BY DEF PickNone, ctxVars
<1>2. PICK i \in Nat, j \in Nat, n \in Nat, k \in Nat, s \in Nat, h \in Nat, r \in Nat :
        /\ i = scan[c].i /\ j = scan[c].j /\ n = scan[c].n
        /\ k = rqSeen[c] /\ s = rqNext[c] /\ h = rqHad[c] /\ r = rqNum[c]
  BY QueueFacts
<1>3. j >= n /\ i < k /\ k <= n /\ s < h /\ h <= k /\ k <= r
  BY <1>1, <1>2, ScanFacts, TurnFacts DEF OrderInv, PositionInv
<1>4. \A x \in Nat : x < h => Gone(c, x)
  <2>1. \/ j = IF s <= i THEN i - s ELSE i + (k - s)
        \/ \A x \in Nat : x < h => Gone(c, x)
    BY <1>2 DEF OrderInv, PassedInv, Passed
  <2>2. j # IF s <= i THEN i - s ELSE i + (k - s)
    BY <1>3
  <2> QED
    BY <2>1, <2>2
<1>5. ASSUME NEW x \in 1 .. h PROVE Arrived[c][x] \in Exited
  <2>1. x - 1 \in Nat /\ x - 1 < h /\ x - 1 \in 0 .. r - 1 /\ x \in 1 .. r
    BY <1>3
  <2>2. Arrived[c][x] = rqSlot[c][x - 1]
    BY <1>2, <2>1 DEF Arrived
  <2>3. rqSlot[c][x - 1] \in Proc
    BY <1>2, <2>1, PublishedFacts DEF OrderInv
  <2>4. state[rqSlot[c][x - 1]] = "ZOMBIE"
    BY <1>4, <2>1 DEF Gone
  <2> QED
    BY <2>2, <2>3, <2>4 DEF Exited
<1>6. pc \in [Cpu -> PC]
  BY DEF IInv, TypeOK
<1>7. UNCHANGED <<Turn, Arrived, Executing, Exited>>
  BY <1>1, <1>6 DEF Turn, Arrived, Executing, Exited
<1>8. h # 0
  BY <1>3
<1> QED
  BY <1>1, <1>2, <1>5, <1>7, <1>8 DEF RR!GiveUp

\* The scan returns the first process of the order that has not exited.
LEMMA DispatchStep ==
  ASSUME IInv, OrderInv, NEW c \in Cpu, PickNext(c)
  PROVE  RR!Dispatch(c)
<1>1. /\ pc[c] = "scan" /\ pc' = [pc EXCEPT ![c] = "run"]
      /\ rqHad' = [rqHad EXCEPT ![c] = 0]
      /\ rqNext' = [rqNext EXCEPT ![c] = NextSlot(c)]
      /\ proc' = [proc EXCEPT ![c] = Candidate(c)]
      /\ UNCHANGED <<state, rqNum, rqSlot, rqSeen>>
      /\ state[Candidate(c)] \in {"READY", "RUNNING"}
  BY PickNextEffect
<1>2. /\ pc \in [Cpu -> PC] /\ proc \in [Cpu -> Proc \cup {NoTask}]
      /\ rqNext \in [Cpu -> Nat]
  BY DEF IInv, TypeOK
<1>0. PICK slot : slot = rqSlot[c]
  OBVIOUS
<1>3. PICK i \in Nat, n \in Nat, l \in Nat, s \in Nat, h \in Nat, r \in Nat :
        /\ i = scan[c].i /\ n = scan[c].n /\ l = rqSeen[c] /\ s = rqNext[c]
        /\ h = rqHad[c] /\ r = rqNum[c] /\ slot = rqSlot[c]
  BY <1>0, QueueFacts
<1>4. /\ i < l /\ l <= n /\ s < h /\ h <= l /\ l <= r
      /\ NextSlot(c) = IF i + 1 < n THEN i + 1 ELSE 0
  BY <1>1, <1>3, ScanFacts, TurnFacts DEF OrderInv, PositionInv
<1>5. Turn[c] = Ring(slot, s, l) /\ Len(Turn[c]) = l /\ slot[i] = Candidate(c)
  BY <1>3, TurnFacts DEF Candidate
<1>6. IF s <= i
        THEN \A x \in Nat : s <= x /\ x < i => Gone(c, x)
        ELSE \A x \in Nat : x < i \/ (s <= x /\ x < l) => Gone(c, x)
  BY <1>1, <1>3 DEF OrderInv, PassedInv, Passed
<1>7. PICK k \in 1 .. l : k = IF s <= i THEN i - s + 1 ELSE i + (l - s) + 1
  <2>1. i < l /\ s < l
    BY <1>4
  <2>2. CASE s <= i
    <3>1. i - s + 1 \in 1 .. l
      BY <2>1, <2>2
    <3> QED
      BY <2>2, <3>1
  <2>3. CASE ~(s <= i)
    <3>1. i + (l - s) + 1 \in 1 .. l
      BY <2>1, <2>3
    <3> QED
      BY <2>3, <3>1
  <2> QED
    BY <2>2, <2>3
<1>8. \A j \in 1 .. l : Turn[c][j] =
        IF s + j <= l THEN slot[s + j - 1] ELSE slot[s + j - 1 - l]
  <2> TAKE j \in 1 .. l
  <2>1. s <= l
    BY <1>4
  <2>2. Ring(slot, s, l)[j] = RingSlot(slot, s, l, j)
    BY <2>1, RingAt
  <2> QED
    BY <1>5, <2>2 DEF RingSlot
<1>9. Turn[c][k] = Candidate(c)
  <2>1. CASE s <= i
    <3>1. s + k <= l /\ s + k - 1 = i
      BY <1>4, <1>7, <2>1
    <3> QED
      BY <1>5, <1>8, <3>1
  <2>2. CASE i < s
    <3>1. ~(s + k <= l) /\ s + k - 1 - l = i
      BY <1>4, <1>7, <2>2
    <3> QED
      BY <1>5, <1>8, <3>1
  <2> QED
    BY <2>1, <2>2
<1>10. Candidate(c) \notin Exited
  BY <1>1 DEF Exited
<1>11. ASSUME NEW j \in 1 .. k - 1 PROVE Turn[c][j] \in Exited
  <2>1. j \in 1 .. l
    OBVIOUS
  <2>2. PICK x \in Nat : x = IF s + j <= l THEN s + j - 1 ELSE s + j - 1 - l
    <3>1. CASE s + j <= l
      <4>1. s + j - 1 \in Nat
        OBVIOUS
      <4> QED
        BY <3>1, <4>1
    <3>2. CASE ~(s + j <= l)
      <4>1. s + j - 1 - l \in Nat
        BY <3>2
      <4> QED
        BY <3>2, <4>1
    <3> QED
      BY <3>1, <3>2
  <2>3. Turn[c][j] = slot[x]
    BY <1>8, <2>1, <2>2
  <2>4. IF s <= i THEN s <= x /\ x < i ELSE x < i \/ (s <= x /\ x < l)
    BY <1>4, <1>7, <2>1, <2>2
  <2>5. Gone(c, x)
    BY <1>6, <2>4
  <2>6. x \in 0 .. rqNum[c] - 1
    BY <1>3, <1>4, <2>4
  <2>7. rqSlot[c][x] \in Proc
    BY <2>6, PublishedFacts DEF OrderInv
  <2> QED
    BY <1>3, <2>3, <2>5, <2>7 DEF Exited, Gone
<1> DEFINE rot == SubSeq(Turn[c], k + 1, Len(Turn[c])) \o SubSeq(Turn[c], 1, k)
<1>12. Turn'[c] = rot
  <2>1. Ring(slot, Behind(s, k, l), l) = Rotated(Ring(slot, s, l), k, l)
    <3>1. s < l
      BY <1>4
    <3> QED
      BY <3>1, RingRotate
  <2>2. PICK m \in Nat : m = NextSlot(c)
    BY <1>4
  <2>3. m = Behind(s, k, l) \/ (m = l /\ Behind(s, k, l) = 0)
    BY <1>4, <1>7, <2>2 DEF Behind
  <2>4. Ring(slot, m, l) = Ring(slot, Behind(s, k, l), l)
    <3>1. Ring(slot, l, l) = Ring(slot, 0, l)
      BY RingAround
    <3> QED
      BY <2>3, <3>1
  <2>5. Turn'[c] = Ring(slot, m, l)
    BY <1>1, <1>2, <1>3, <2>2 DEF Turn, Ring
  <2>6. Turn'[c] = Rotated(Turn[c], k, Len(Turn[c]))
    BY <1>5, <2>1, <2>4, <2>5
  <2> QED
    BY <2>6 DEF Rotated
<1>13. ASSUME NEW d \in Cpu, d # c PROVE Turn'[d] = Turn[d]
  BY <1>1, <1>2, <1>13, TurnKept
<1> HIDE DEF rot
<1>14. Turn' = [Turn EXCEPT ![c] = rot]
  BY Zenon, <1>12, <1>13, TurnMap
<1>15. /\ Executing' = [Executing EXCEPT ![c] = Candidate(c)] /\ Exited' = Exited
       /\ Arrived' = Arrived
  BY <1>1, <1>2, ArrivedKept DEF Executing, Exited
<1>16. rqHad[c] # 0 /\ k \in 1 .. Len(Turn[c])
  BY SMTT(30), <1>3, <1>4, <1>5
<1> QED
  BY <1>1, <1>9, <1>10, <1>11, <1>14, <1>15, <1>16 DEF RR!Dispatch, rot

\* An exception from a process is its exit, or it yields the CPU.
LEMMA LeaveStep ==
  ASSUME QuietBoot, IInv, Next, NEW c \in Cpu,
         NEW kind \in {"write", "exit", "fault"}, El0Irq(c) \/ El0Sync(c, kind)
  PROVE  RR!Exit(c) \/ RR!Yield(c)
<1>1. /\ pc[c] = "user" /\ pc' = [pc EXCEPT ![c] = "back"]
      /\ proc[c] # NoTask /\ entryTask[c] = proc[c]
      /\ UNCHANGED <<proc, rqNum, rqSlot, rqNext, rqSeen, rqHad>>
  BY LeaveUser DEF rqVars
<1>2. pc \in [Cpu -> PC] /\ state \in [Task -> State] /\ proc[c] \in Proc
  BY <1>1 DEF IInv, TypeOK, CtxInv
<1>3. Executing[c] = proc[c] /\ Executing' = [Executing EXCEPT ![c] = NoTask]
  BY <1>1, <1>2 DEF Executing
<1>4. UNCHANGED <<Arrived, Turn, rqHad>>
  BY <1>1 DEF Turn, Arrived
<1>5. CASE El0Sync(c, "exit")
  <2>1. state' = [state EXCEPT ![proc[c]] = "ZOMBIE"]
    BY <1>1, <1>5 DEF El0Sync
  <2>2. Exited' = Exited \cup {proc[c]}
    BY <1>2, <2>1 DEF Exited, Task
  <2> QED
    BY <1>1, <1>3, <1>4, <2>2 DEF RR!Exit
<1>6. CASE El0Irq(c) \/ (El0Sync(c, kind) /\ kind # "exit")
  <2>1. state' = state
    BY <1>6 DEF El0Irq, El0Sync
  <2> QED
    BY <1>1, <1>3, <1>4, <2>1 DEF RR!Yield, Exited
<1> QED
  BY <1>5, <1>6

LEMMA RefinesNext ==
  ASSUME QuietBoot, IInv, OrderInv, [Next]_vars
  PROVE  [RR!Next]_(RR!vars)
<1>1. CASE UNCHANGED vars
  <2>1. UNCHANGED <<pc, proc, state, rqNum, rqSlot, rqNext, rqSeen, rqHad>>
    BY <1>1 DEF vars, cpuVars, ctxVars, rqVars
  <2> QED
    BY <2>1 DEF RR!vars, Turn, Arrived, Executing, Exited
<1>2. CASE \E c \in Cpu, kind \in {"write", "exit", "fault"} :
             Next /\ (El0Irq(c) \/ El0Sync(c, kind))
  BY <1>2, LeaveStep DEF RR!Next
<1>3. CASE /\ Next
           /\ \A c \in Cpu, kind \in {"write", "exit", "fault"} :
                ~El0Irq(c) /\ ~El0Sync(c, kind)
  <2>1. Exited' = Exited
    BY <1>3, StateMoves DEF Exited
  <2>2. CASE StoreLands("num")
    <3>1. CpuOf(regIdx) \in Cpu /\ Processes[regIdx + 1] \in Proc
      BY <2>2, StoreEffect
    <3> QED
      BY <2>2, <3>1, ArriveStep DEF RR!Next
  <2>3. CASE StoreLands("slot")
    BY <2>1, <2>3, SlotStep DEF RR!vars
  <2>4. ASSUME NEW c \in Cpu, PickBegin(c) \/ ScanSkip(c) \/ PickNext(c)
        PROVE  RR!Next
    <3>1. RR!Choose(c) \/ RR!Notice(c) \/ RR!Dispatch(c)
      BY <2>4, ChooseStep, NoticeStep, DispatchStep
    <3> QED
      BY <3>1 DEF RR!Next
  <2>5. ASSUME NEW c \in Cpu, PickNone(c) PROVE [RR!Next]_(RR!vars)
    <3>1. CASE pc[c] = "scan"
      BY <2>5, <3>1, GiveUpStep DEF RR!Next
    <3>2. CASE pc[c] # "scan"
      <4>1. /\ pc[c] = "pick" /\ pc' = [pc EXCEPT ![c] = "pre"]
            /\ rqHad' = [rqHad EXCEPT ![c] = 0]
            /\ UNCHANGED <<rqNum, rqSlot, rqNext, rqSeen, proc>>
        BY <2>5, <3>2 DEF PickNone, ctxVars
      <4>2. rqHad \in [Cpu -> Nat] /\ rqHad[c] = 0 /\ pc \in [Cpu -> PC]
        BY <3>2 DEF IInv, TypeOK, OrderInv, PositionInv
      <4>3. UNCHANGED <<Turn, Arrived, rqHad, Executing>>
        BY <4>1, <4>2 DEF Turn, Arrived, Executing
      <4> QED
        BY <2>1, <4>3 DEF RR!vars
    <3> QED
      BY <3>1, <3>2
  <2>6. CASE UNCHANGED <<rqNum, rqSlot, rqNext, rqSeen, rqHad, Executing>>
    BY <2>1, <2>6 DEF RR!vars, Turn, Arrived
  <2>7. ASSUME NEW c \in Cpu, ReloadCount(c) PROVE [RR!Next]_(RR!vars)
    <3>1. UNCHANGED <<rqNum, rqSlot, rqNext, rqSeen, rqHad, pc, proc>>
      BY <2>7 DEF ReloadCount, cpuVars, ctxVars
    <3> QED
      BY <2>6, <3>1 DEF Executing
  <2>8. CASE ~QueueStep
    BY <1>3, <2>6, <2>8, OtherStep DEF rqVars
  <2> QED
    BY <2>2, <2>3, <2>4, <2>5, <2>7, <2>8 DEF QueueStep
<1> QED
  BY <1>1, <1>2, <1>3

\* Every CPU runs its live processes strictly in turn, and no scan overlooks one
\* that was published before it began, for any number of CPUs and processes and
\* wherever in the scan of round_robin_pick_next the boot CPU's stores of slots
\* and counts become visible.
THEOREM RunsInTurn == ASSUME QuietBoot PROVE Spec => ImplementsRoundRobin
<1>1. ASSUME Init PROVE RR!Init
  <2>1. /\ Turn = [c \in Cpu |-> <<>>] /\ Arrived = [c \in Cpu |-> <<>>]
        /\ rqHad = [c \in Cpu |-> 0]
    BY <1>1 DEF Init, Turn, Arrived
  <2>2. Executing = [c \in Cpu |-> NoTask]
    BY <1>1 DEF Init, Executing
  <2>3. Exited = {}
    BY <1>1 DEF Init, Exited, Task
  <2> QED
    BY <2>1, <2>2, <2>3 DEF RR!Init
<1>2. Init => OrderInv
  BY OrderInit
<1>3. IInv /\ OrderInv /\ [Next]_vars => OrderInv'
  BY OrderNext
<1>4. IInv /\ OrderInv /\ [Next]_vars => [RR!Next]_(RR!vars)
  BY RefinesNext
<1>5. Spec => []IInv
  BY Invariance
<1> QED
  BY <1>1, <1>2, <1>3, <1>4, <1>5, PTL DEF Spec, ImplementsRoundRobin, RR!Spec
==============================================================================
