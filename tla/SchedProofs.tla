---------------------------- MODULE SchedProofs -----------------------------
(***************************************************************************)
(* Proofs about Sched for any number of CPUs and processes, under the two  *)
(* assumptions the boot sequence relies on: the boot CPU's first tick does *)
(* not arrive between local_sched_timer_start and preempt_disable, and the *)
(* registration stores are seen in program order.                          *)
(***************************************************************************)
EXTENDS SchedInvariant

-----------------------------------------------------------------------------
(* Picking the next process, and the registration stores                   *)

\* The state of a scan, and the slot it looks at: a stored one, of this CPU.
LEMMA ScanFacts ==
  ASSUME IInv, NEW c \in Cpu, pc[c] = "scan"
  PROVE  /\ scan \in [Cpu -> [i : Nat, j : Nat, n : Nat]]
         /\ scan[c] \in [i : Nat, j : Nat, n : Nat]
         /\ scan[c].i \in Nat /\ scan[c].j \in Nat /\ scan[c].n \in Nat
         /\ rqSeen[c] \in Nat /\ rqNum[c] \in Nat
         /\ scan[c].i < rqSeen[c] /\ rqSeen[c] <= scan[c].n
         /\ scan[c].n <= rqNum[c] /\ scan[c].i < scan[c].n
         /\ Candidate(c) \in Proc /\ Candidate(c) # NoTask
         /\ Home(Candidate(c)) = c
         /\ NextSlot(c) = IF scan[c].i + 1 < scan[c].n THEN scan[c].i + 1 ELSE 0
<1>1. /\ rqNum \in [Cpu -> 0 .. Len(Processes)] /\ Len(Processes) \in Nat
      /\ rqSlot \in [Cpu -> [0 .. Len(Processes) - 1 -> Proc \cup {NoTask}]]
      /\ scan \in [Cpu -> [i : Nat, j : Nat, n : Nat]]
      /\ rqSeen \in [Cpu -> Nat]
  BY ProcIndex DEF IInv, TypeOK
<1>2. scan[c] \in [i : Nat, j : Nat, n : Nat]
  BY <1>1
<1>3. /\ scan[c].i \in Nat /\ scan[c].j \in Nat /\ scan[c].n \in Nat
      /\ rqSeen[c] \in Nat /\ rqNum[c] \in Nat /\ rqNum[c] <= Len(Processes)
  BY <1>1, <1>2
<1>4. /\ scan[c].i < rqSeen[c] /\ rqSeen[c] <= scan[c].n
      /\ scan[c].n <= rqNum[c]
  BY DEF IInv, ScanInv
<1>5. PICK i \in Nat, n \in Nat : i = scan[c].i /\ n = scan[c].n
  BY <1>3
<1>6. i < n /\ i < rqNum[c] /\ i \in 0 .. Len(Processes) - 1
  BY <1>1, <1>3, <1>4, <1>5
<1>7. rqSlot[c][i] # NoTask /\ Home(rqSlot[c][i]) = c
  BY <1>6 DEF IInv, RqInv
<1>8. rqSlot[c][i] \in Proc
  BY <1>1, <1>6, <1>7
<1>9. (i + 1) % n = IF i + 1 < n THEN i + 1 ELSE 0
  BY <1>6, ModStep
<1> QED
  BY <1>1, <1>2, <1>3, <1>4, <1>5, <1>6, <1>7, <1>8, <1>9
     DEF Candidate, NextSlot

LEMMA PickBeginInv ==
  ASSUME IInv, NEW c \in Cpu, PickBegin(c)
  PROVE  IInv'
<1> USE DEF IInv
<1>1. /\ pc \in [Cpu -> PC] /\ rqNum \in [Cpu -> 0 .. Len(Processes)]
      /\ rqNext \in [Cpu -> Nat] /\ rqSeen \in [Cpu -> Nat]
      /\ rqHad \in [Cpu -> Nat]
      /\ scan \in [Cpu -> [i : Nat, j : Nat, n : Nat]]
      /\ Len(Processes) \in Nat
  BY ProcIndex DEF TypeOK
<1>2. /\ scan' = [scan EXCEPT ![c] = [i |-> rqNext[c], j |-> 0, n |-> rqNum[c]]]
      /\ rqSeen' = [rqSeen EXCEPT ![c] = rqNum[c]]
      /\ rqHad' = [rqHad EXCEPT ![c] = rqNum[c]]
      /\ pc[c] = "pick" /\ pc' = [pc EXCEPT ![c] = "scan"] /\ rqNum[c] # 0
      /\ UNCHANGED <<irqOn, preemptCount, needResched, timer, ctxVars, state,
                     rqNum, rqSlot, rqNext, regVars>>
  BY DEF PickBegin
<1>3. TypeOK'
  <2>1. (pc \in [Cpu -> PC])'
    BY <1>1, <1>2 DEF PC
  <2>2. (scan \in [Cpu -> [i : Nat, j : Nat, n : Nat]])'
    BY <1>1, <1>2
  <2>3. (rqSeen \in [Cpu -> Nat])' /\ (rqHad \in [Cpu -> Nat])'
    BY <1>1, <1>2
  <2> QED
    BY <1>2, <2>1, <2>2, <2>3 DEF TypeOK, ctxVars, regVars
<1>4. CpuInv'
  BY <1>1, <1>2 DEF CpuInv, InBootWindow
<1>5. ScanInv'
  <2> SUFFICES ASSUME NEW d \in Cpu PROVE ScanInv!(d)'
    BY DEF ScanInv
  <2>1. CASE d = c
    <3>1. rqNext[c] < rqNum[c]
      BY <1>2 DEF ScanInv
    <3>2. scan'[c].i = rqNext[c] /\ scan'[c].n = rqNum[c] /\ rqSeen'[c] = rqNum[c]
      BY <1>1, <1>2
    <3> QED
      BY <1>1, <1>2, <2>1, <3>1, <3>2
  <2>2. CASE d # c
    BY <1>1, <1>2, <2>2 DEF ScanInv
  <2> QED
    BY <2>1, <2>2
<1> QED
  BY <1>1, <1>2, <1>3, <1>4, <1>5, LoopStepInv

LEMMA ReloadCountInv ==
  ASSUME IInv, NEW c \in Cpu, ReloadCount(c)
  PROVE  IInv'
<1> USE DEF IInv
<1>1. /\ scan' = [scan EXCEPT ![c].n = rqNum[c]] /\ pc[c] = "scan"
      /\ UNCHANGED <<cpuVars, ctxVars, state, rqNum, rqSlot, rqNext, rqSeen,
                     rqHad, regVars>>
  BY DEF ReloadCount
<1>2. /\ scan \in [Cpu -> [i : Nat, j : Nat, n : Nat]]
      /\ scan[c] \in [i : Nat, j : Nat, n : Nat]
      /\ scan[c].i < rqSeen[c] /\ rqSeen[c] <= rqNum[c]
      /\ rqNum[c] \in Nat /\ rqSeen[c] \in Nat
  BY <1>1, ScanFacts
<1>3. TypeOK'
  <2>1. (scan \in [Cpu -> [i : Nat, j : Nat, n : Nat]])'
    BY <1>1, <1>2
  <2> QED
    BY <1>1, <2>1 DEF TypeOK, cpuVars, ctxVars, regVars
<1>4. CpuInv'
  BY <1>1 DEF CpuInv, InBootWindow, cpuVars
<1>5. ScanInv'
  <2> SUFFICES ASSUME NEW d \in Cpu PROVE ScanInv!(d)'
    BY DEF ScanInv
  <2>1. CASE d = c
    <3>1. scan'[c].i = scan[c].i /\ scan'[c].n = rqNum[c]
      BY <1>1, <1>2
    <3> QED
      BY <1>1, <1>2, <2>1, <3>1 DEF ScanInv, cpuVars
  <2>2. CASE d # c
    BY <1>1, <1>2, <2>2 DEF ScanInv, cpuVars
  <2> QED
    BY <2>1, <2>2
<1> QED
  BY <1>1, <1>3, <1>4, <1>5, LoopStepInv DEF cpuVars

LEMMA PickNoneInv ==
  ASSUME IInv, NEW c \in Cpu, PickNone(c)
  PROVE  IInv'
<1> USE DEF IInv
<1>1. /\ pc \in [Cpu -> PC] /\ rqHad \in [Cpu -> Nat]
      /\ scan \in [Cpu -> [i : Nat, j : Nat, n : Nat]]
  BY DEF TypeOK
<1>2. /\ pc[c] \in {"pick", "scan"} /\ pc' = [pc EXCEPT ![c] = "pre"]
      /\ scan' = [scan EXCEPT ![c] = NoScan] /\ rqHad' = [rqHad EXCEPT ![c] = 0]
      /\ UNCHANGED <<irqOn, preemptCount, needResched, timer, ctxVars, state,
                     rqNum, rqSlot, rqNext, rqSeen, regVars>>
  BY DEF PickNone
<1>3. TypeOK'
  <2>1. (pc \in [Cpu -> PC])' /\ (rqHad \in [Cpu -> Nat])'
    BY <1>1, <1>2 DEF PC
  <2>2. (scan \in [Cpu -> [i : Nat, j : Nat, n : Nat]])'
    BY <1>1, <1>2 DEF NoScan
  <2> QED
    BY <1>2, <2>1, <2>2 DEF TypeOK, ctxVars, regVars
<1>4. CpuInv'
  BY <1>1, <1>2 DEF CpuInv, InBootWindow
<1>5. ScanInv'
  BY <1>1, <1>2 DEF ScanInv
<1> QED
  BY <1>1, <1>2, <1>3, <1>4, <1>5, LoopStepInv

LEMMA ScanSkipInv ==
  ASSUME IInv, NEW c \in Cpu, ScanSkip(c)
  PROVE  IInv'
<1> USE DEF IInv
<1>1. /\ pc[c] = "scan"
      /\ scan' = [scan EXCEPT ![c].i = NextSlot(c), ![c].j = @ + 1]
      /\ rqSeen' = [rqSeen EXCEPT
                      ![c] = IF scan[c].i + 1 < @ THEN @ ELSE scan[c].n]
      /\ UNCHANGED <<cpuVars, ctxVars, state, rqNum, rqSlot, rqNext, rqHad,
                     regVars>>
  BY DEF ScanSkip
<1>2. /\ scan \in [Cpu -> [i : Nat, j : Nat, n : Nat]]
      /\ scan[c].i \in Nat /\ scan[c].j \in Nat /\ scan[c].n \in Nat
      /\ rqSeen[c] \in Nat /\ rqNum[c] \in Nat
      /\ scan[c].i < rqSeen[c] /\ rqSeen[c] <= scan[c].n
      /\ scan[c].n <= rqNum[c] /\ scan[c].i < scan[c].n
      /\ NextSlot(c) = IF scan[c].i + 1 < scan[c].n THEN scan[c].i + 1 ELSE 0
  BY <1>1, ScanFacts
<1>3. rqSeen \in [Cpu -> Nat]
  BY DEF TypeOK
<1>4. NextSlot(c) \in Nat /\ NextSlot(c) < rqSeen'[c]
      /\ rqSeen'[c] <= scan[c].n /\ rqSeen'[c] \in Nat
  BY <1>1, <1>2, <1>3
<1>5. /\ scan' \in [Cpu -> [i : Nat, j : Nat, n : Nat]]
      /\ scan'[c].i = NextSlot(c) /\ scan'[c].n = scan[c].n
      /\ \A d \in Cpu : d # c => scan'[d] = scan[d]
  BY <1>1, <1>2, <1>4
<1>6. TypeOK'
  <2>1. (rqSeen \in [Cpu -> Nat])'
    BY <1>1, <1>2, <1>3
  <2> QED
    BY <1>1, <1>5, <2>1 DEF TypeOK, cpuVars, ctxVars, regVars
<1>7. CpuInv'
  BY <1>1 DEF CpuInv, InBootWindow, cpuVars
<1>8. ScanInv'
  <2> SUFFICES ASSUME NEW d \in Cpu PROVE ScanInv!(d)'
    BY DEF ScanInv
  <2>1. CASE d = c
    BY <1>1, <1>2, <1>4, <1>5, <2>1 DEF ScanInv, cpuVars
  <2>2. CASE d # c
    BY <1>1, <1>3, <1>5, <2>2 DEF ScanInv, cpuVars
  <2> QED
    BY <2>1, <2>2
<1> QED
  BY <1>1, <1>6, <1>7, <1>8, LoopStepInv DEF cpuVars

\* pick_next returns a runnable process of this CPU and moves next behind it.
LEMMA PickNextEffect ==
  ASSUME IInv, NEW c \in Cpu, PickNext(c)
  PROVE  /\ pc[c] = "scan" /\ scan[c].j < scan[c].n
         /\ UNCHANGED <<irqOn, current, stack, sp, ttbr0>>
         /\ UNCHANGED <<preemptCount, timer, entryTask, cachedCurrent, state,
                        rqNum, rqSlot, rqSeen, regVars>>
         /\ needResched' = [needResched EXCEPT ![c] = TRUE]
         /\ pc' = [pc EXCEPT ![c] = "run"]
         /\ scan' = [scan EXCEPT ![c] = NoScan]
         /\ rqHad' = [rqHad EXCEPT ![c] = 0]
         /\ state[Candidate(c)] \in {"READY", "RUNNING"}
         /\ rqNext' = [rqNext EXCEPT ![c] = NextSlot(c)]
         /\ proc' = [proc EXCEPT ![c] = Candidate(c)]
<1>1. pc[c] = "scan" /\ Candidate(c) # NoTask
  BY ScanFacts DEF PickNext
<1> QED
  BY <1>1 DEF PickNext, SetResched, Runnable

LEMMA PickNextInv ==
  ASSUME IInv, NEW c \in Cpu, PickNext(c)
  PROVE  IInv'
<1> USE DEF IInv
<1>1. /\ pc \in [Cpu -> PC]
      /\ proc \in [Cpu -> Proc \cup {NoTask}]
      /\ needResched \in [Cpu -> BOOLEAN]
      /\ rqNext \in [Cpu -> Nat] /\ rqHad \in [Cpu -> Nat]
      /\ scan \in [Cpu -> [i : Nat, j : Nat, n : Nat]]
  BY DEF TypeOK
<1>2. PICK p \in Proc, m \in Nat :
        /\ Home(p) = c /\ state[p] \in {"READY", "RUNNING"}
        /\ m < rqNum[c]
        /\ rqNext' = [rqNext EXCEPT ![c] = m]
        /\ proc' = [proc EXCEPT ![c] = p]
  <2>1. pc[c] = "scan"
    BY PickNextEffect
  <2>2. /\ Candidate(c) \in Proc /\ Home(Candidate(c)) = c
        /\ NextSlot(c) \in Nat /\ NextSlot(c) < rqNum[c]
    BY <2>1, ScanFacts
  <2> QED
    BY <2>2, PickNextEffect
<1>3. /\ pc[c] = "scan"
      /\ UNCHANGED <<irqOn, current, stack, sp, ttbr0>>
      /\ UNCHANGED <<preemptCount, timer, entryTask, cachedCurrent, state,
                     rqNum, rqSlot, rqSeen, regVars>>
      /\ needResched' = [needResched EXCEPT ![c] = TRUE]
      /\ pc' = [pc EXCEPT ![c] = "run"]
      /\ scan' = [scan EXCEPT ![c] = NoScan]
      /\ rqHad' = [rqHad EXCEPT ![c] = 0]
  BY PickNextEffect
<1>4. TypeOK'
  <2>1. (pc \in [Cpu -> PC])' /\ (needResched \in [Cpu -> BOOLEAN])'
    BY <1>1, <1>3 DEF PC
  <2>2. (proc \in [Cpu -> Proc \cup {NoTask}])' /\ (rqNext \in [Cpu -> Nat])'
    BY <1>1, <1>2
  <2>3. /\ (scan \in [Cpu -> [i : Nat, j : Nat, n : Nat]])'
        /\ (rqHad \in [Cpu -> Nat])'
    BY <1>1, <1>3 DEF NoScan
  <2> QED
    BY <1>3, <2>1, <2>2, <2>3 DEF TypeOK, regVars
<1>5. CpuInv'
  BY <1>1, <1>3 DEF CpuInv, InBootWindow
<1>6. CtxInv'
  BY <1>1, <1>2, <1>3 DEF CtxInv
<1>7. SpInv'
  BY <1>1, <1>2, <1>3, HomeOf DEF SpInv
<1>8. RqInv' /\ NewInv' /\ RunningIsEntryTask'
  BY <1>3 DEF RqInv, NewInv, RunningIsEntryTask, regVars
<1>9. ScanInv'
  BY <1>1, <1>2, <1>3 DEF ScanInv
<1> QED
  BY <1>4, <1>5, <1>6, <1>7, <1>8, <1>9

\* What a registration store does: the slot lands before the count.
LEMMA StoreEffect ==
  ASSUME QuietBoot, IInv, NEW s \in {"slot", "num"}, StoreLands(s),
         NEW cpu, cpu = CpuOf(regIdx), NEW p, p = Processes[regIdx + 1]
  PROVE  /\ Len(Processes) \in Nat /\ regIdx \in Nat /\ regIdx < Len(Processes)
         /\ regIdx + 1 \in DOMAIN Processes
         /\ cpu \in Cpu /\ p \in Proc /\ p \in Task /\ p # NoTask /\ Home(p) = cpu
         /\ rqNum[cpu] \in 0 .. regIdx /\ rqNum[cpu] \in 0 .. Len(Processes) - 1
         /\ UNCHANGED <<cpuVars, ctxVars, rqNext, scan, rqSeen, rqHad>>
         /\ \/ /\ state' = [state EXCEPT ![p] = "READY"]
               /\ rqSlot' = [rqSlot EXCEPT ![cpu][rqNum[cpu]] = p]
               /\ s = "slot" /\ landed = {} /\ landed' = {"slot"}
               /\ state[p] = "NEW"
               /\ UNCHANGED <<rqNum, regIdx>>
            \/ /\ rqNum' = [rqNum EXCEPT ![cpu] = @ + 1]
               /\ s = "num" /\ landed = {"slot"} /\ landed' = {}
               /\ regIdx' = regIdx + 1
               /\ rqSlot[cpu][rqNum[cpu]] # NoTask
               /\ UNCHANGED <<state, rqSlot>>
<1> USE DEF IInv
<1>1. rqNum \in [Cpu -> 0 .. Len(Processes)] /\ regIdx \in 0 .. Len(Processes)
  BY DEF TypeOK
<1>2. Len(Processes) \in Nat /\ regIdx \in Nat /\ regIdx < Len(Processes)
  BY <1>1, ProcIndex DEF StoreLands
<1>3. regIdx + 1 \in DOMAIN Processes /\ p \in Proc
  BY <1>2, ProcIndex
<1>4. cpu \in Cpu /\ Home(p) = cpu
  BY <1>2, <1>3, HomeOf
<1>5. p \in Task /\ p # NoTask
  BY <1>3, SchedAssumption DEF Task
<1>6. rqNum[cpu] \in 0 .. regIdx /\ rqNum[cpu] \in 0 .. Len(Processes) - 1
  BY <1>1, <1>2, <1>4 DEF RqInv
<1>7. /\ "num" \notin landed
      /\ s = "num" => landed = {"slot"}
      /\ s = "slot" => landed = {}
      /\ UNCHANGED <<cpuVars, ctxVars, rqNext, scan, rqSeen, rqHad>>
  BY DEF StoreLands, QuietBoot, RqInv
<1>8. CASE s = "slot"
  <2>1. /\ state' = [state EXCEPT ![p] = "READY"]
        /\ rqSlot' = [rqSlot EXCEPT ![cpu][rqNum[cpu]] = p]
        /\ landed = {} /\ landed' = {"slot"}
        /\ UNCHANGED <<rqNum, regIdx>>
    BY <1>7, <1>8 DEF StoreLands
  <2>2. state[p] = "NEW"
    BY <1>2, <1>3, <2>1 DEF NewInv
  <2> QED
    BY <1>2, <1>3, <1>4, <1>5, <1>6, <1>7, <1>8, <2>1, <2>2
<1>9. CASE s = "num"
  <2>1. /\ rqNum' = [rqNum EXCEPT ![cpu] = @ + 1]
        /\ landed = {"slot"} /\ landed' = {} /\ regIdx' = regIdx + 1
        /\ UNCHANGED <<state, rqSlot>>
    BY <1>7, <1>9 DEF StoreLands
  <2>2. rqSlot[cpu][rqNum[cpu]] # NoTask
    BY <2>1 DEF RqInv
  <2> QED
    BY <1>2, <1>3, <1>4, <1>5, <1>6, <1>7, <1>9, <2>1, <2>2
<1> QED
  BY <1>8, <1>9

LEMMA StoreLandsInv ==
  ASSUME QuietBoot, IInv, NEW s \in {"slot", "num"}, StoreLands(s)
  PROVE  IInv'
<1> USE DEF IInv
<1> DEFINE cpu == CpuOf(regIdx)
           p == Processes[regIdx + 1]
<1>1. /\ rqNum \in [Cpu -> 0 .. Len(Processes)]
      /\ rqSlot \in [Cpu -> [0 .. Len(Processes) - 1 -> Proc \cup {NoTask}]]
      /\ regIdx \in 0 .. Len(Processes)
      /\ state \in [Task -> State]
  BY DEF TypeOK
<1>2. /\ Len(Processes) \in Nat /\ regIdx \in Nat /\ regIdx < Len(Processes)
      /\ regIdx + 1 \in DOMAIN Processes
      /\ cpu \in Cpu /\ p \in Proc /\ p \in Task /\ p # NoTask /\ Home(p) = cpu
      /\ rqNum[cpu] \in 0 .. regIdx /\ rqNum[cpu] \in 0 .. Len(Processes) - 1
  BY StoreEffect
<1>4. UNCHANGED <<cpuVars, ctxVars, rqNext, scan, rqSeen, rqHad>>
  BY StoreEffect
<1>5. CASE s = "slot"
  <2>1. /\ state' = [state EXCEPT ![p] = "READY"]
        /\ rqSlot' = [rqSlot EXCEPT ![cpu][rqNum[cpu]] = p]
        /\ landed = {} /\ landed' = {"slot"}
        /\ UNCHANGED <<rqNum, regIdx>>
    BY <1>5, StoreEffect
  <2>2. state[p] = "NEW"
    BY <1>5, StoreEffect
  <2> HIDE DEF cpu, p
  <2>3. \A q \in Task : q # p => state'[q] = state[q]
    BY <1>1, <2>1
  <2>4. TypeOK'
    <3>1. (state \in [Task -> State])'
      BY <1>1, <1>2, <2>1 DEF State
    <3>2. rqSlot' \in [Cpu -> [0 .. Len(Processes) - 1 -> Proc \cup {NoTask}]]
      BY <1>1, <1>2, <2>1
    <3> QED
      BY <1>4, <2>1, <3>1, <3>2 DEF TypeOK, cpuVars, ctxVars
  <2>5. CpuInv'
    BY <1>4 DEF CpuInv, InBootWindow, cpuVars
  <2>6. CtxInv'
    <3>1. \A d \in Cpu : pc[d] \in {"run", "user"} =>
            proc[d] \in Task /\ proc[d] # p
      BY <2>2 DEF CtxInv, Task
    <3> QED
      BY <1>4, <2>3, <3>1 DEF CtxInv, cpuVars, ctxVars
  <2>7. SpInv'
    BY <1>4 DEF SpInv, cpuVars, ctxVars
  <2>8. RqInv'
    <3>1. \A d \in Cpu : \A i \in 0 .. Len(Processes) - 1 :
            rqSlot'[d][i] = IF d = cpu /\ i = rqNum[cpu] THEN p ELSE rqSlot[d][i]
      BY <1>1, <1>2, <2>1
    <3>2. landed' = {"slot"} /\ regIdx' = regIdx /\ rqNum' = rqNum
      BY <2>1
    <3>3. rqSlot'[cpu][rqNum[cpu]] # NoTask
      BY <1>2, <3>1
    <3>4. \A d \in Cpu :
            /\ rqNum[d] <= regIdx
            /\ \A i \in 0 .. Len(Processes) - 1 :
                 /\ i < rqNum[d] => rqSlot'[d][i] # NoTask
                 /\ rqSlot'[d][i] # NoTask => Home(rqSlot'[d][i]) = d
      BY <1>2, <3>1 DEF RqInv
    <3> QED
      BY <1>2, <3>2, <3>3, <3>4 DEF RqInv, cpu
  <2>9. NewInv'
    <3> SUFFICES ASSUME NEW i \in DOMAIN Processes, i > regIdx + 1
                 PROVE  state'[Processes[i]] = "NEW"
      BY <2>1 DEF NewInv
    <3>1. Processes[i] \in Task /\ state[Processes[i]] = "NEW"
      BY ProcIndex DEF NewInv, Task
    <3>2. i # regIdx + 1 /\ p = Processes[regIdx + 1]
      BY <1>2, ProcIndex DEF p
    <3>3. Processes[i] # p
      BY <1>2, <3>2, ProcDistinct
    <3> QED
      BY <2>3, <3>1, <3>3
  <2>10. RunningIsEntryTask'
    BY <1>1, <1>2, <1>4, <2>1, <2>3 DEF RunningIsEntryTask, ctxVars, Task
  <2>11. ScanInv'
    BY <1>4, <2>1 DEF ScanInv, cpuVars
  <2> QED
    BY <2>4, <2>5, <2>6, <2>7, <2>8, <2>9, <2>10, <2>11
<1>6. CASE s = "num"
  <2>1. /\ rqNum' = [rqNum EXCEPT ![cpu] = @ + 1]
        /\ landed = {"slot"} /\ landed' = {} /\ regIdx' = regIdx + 1
        /\ UNCHANGED <<state, rqSlot>>
    BY <1>6, StoreEffect
  <2>2. rqSlot[cpu][rqNum[cpu]] # NoTask
    BY <1>6, StoreEffect
  <2> HIDE DEF cpu, p
  <2>3. TypeOK'
    <3>1. rqNum' \in [Cpu -> 0 .. Len(Processes)]
      BY <1>1, <1>2, <2>1
    <3>2. regIdx' \in 0 .. Len(Processes)
      BY <1>2, <2>1
    <3> QED
      BY <1>4, <2>1, <3>1, <3>2 DEF TypeOK, cpuVars, ctxVars
  <2>4. CpuInv'
    BY <1>4 DEF CpuInv, InBootWindow, cpuVars
  <2>5. CtxInv' /\ SpInv'
    BY <1>4, <2>1 DEF CtxInv, SpInv, cpuVars, ctxVars
  <2>6. RqInv'
    <3>1. \A d \in Cpu : rqNum'[d] = IF d = cpu THEN rqNum[d] + 1 ELSE rqNum[d]
      BY <1>1, <1>2, <2>1
    <3>2. \A d \in Cpu : rqNum[d] \in Nat /\ rqNum[d] <= regIdx
      BY <1>1, <1>2 DEF RqInv
    <3>3. \A d \in Cpu : rqNum'[d] <= regIdx'
      BY <1>2, <2>1, <3>1, <3>2
    <3>4. \A d \in Cpu : \A i \in 0 .. Len(Processes) - 1 :
            /\ i < rqNum'[d] => rqSlot'[d][i] # NoTask
            /\ rqSlot'[d][i] # NoTask => Home(rqSlot'[d][i]) = d
      BY SMTT(90), <1>2, <2>1, <2>2, <3>1, <3>2 DEF RqInv
    <3> QED
      BY <2>1, <3>3, <3>4 DEF RqInv
  <2>7. NewInv'
    <3> SUFFICES ASSUME NEW i \in DOMAIN Processes, i > regIdx + 1
                 PROVE  state[Processes[i]] = "NEW"
      BY SMTT(90), <1>2, <2>1, ProcIndex DEF NewInv
    <3> QED
      BY DEF NewInv
  <2>8. RunningIsEntryTask'
    BY <1>4, <2>1 DEF RunningIsEntryTask, ctxVars
  <2>9. ScanInv'
    <3> SUFFICES ASSUME NEW d \in Cpu PROVE ScanInv!(d)'
      BY DEF ScanInv
    <3>1. rqNum'[d] \in {rqNum[d], rqNum[d] + 1} /\ rqNum[d] \in Nat
      BY <1>1, <1>2, <2>1
    <3>0. rqNext[d] \in Nat /\ scan[d] \in [i : Nat, j : Nat, n : Nat]
      BY DEF TypeOK
    <3>2. ScanInv!(d)
      BY DEF ScanInv
    <3> QED
      BY <1>4, <3>0, <3>1, <3>2 DEF cpuVars
  <2> QED
    BY <2>3, <2>4, <2>5, <2>6, <2>7, <2>8, <2>9
<1> QED
  BY <1>5, <1>6

-----------------------------------------------------------------------------
(* The theorems                                                            *)

LEMMA NextInv ==
  ASSUME QuietBoot, IInv, [Next]_vars
  PROVE  IInv'
<1>1. CASE UNCHANGED vars
  <2>1. UNCHANGED <<ctxVars, state, rqVars, regVars, cpuVars>>
    BY <1>1 DEF vars
  <2>2. TypeOK'
    BY <2>1 DEF IInv, TypeOK, cpuVars, ctxVars, rqVars, regVars
  <2>3. CpuInv'
    BY <2>1 DEF IInv, CpuInv, InBootWindow, cpuVars
  <2> QED
    BY <2>1, <2>2, <2>3, KernelStepInv DEF cpuVars
<1>2. CASE BootStep
  BY <1>2, StoreLandsInv, RegisterDoneInv, LocalSchedTimerStartInv DEF BootStep
<1>3. ASSUME NEW c \in Cpu, IdleStep(c) PROVE IInv'
  BY <1>3, PreemptDisableInv, LocalIrqEnableInv, NeedReschedInv, SchduleInv,
     PickBeginInv, ScanSkipInv, PickNoneInv, PickNextInv, RunProcessInv,
     RunProcessReturnInv DEF IdleStep
<1>4. ASSUME NEW c \in Cpu,
             \/ ReloadCount(c) \/ El1Irq(c) \/ El0Irq(c) \/ TimerExpires(c)
             \/ \E kind \in {"write", "exit", "fault"} : El0Sync(c, kind)
      PROVE  IInv'
  BY <1>4, ReloadCountInv, El1IrqInv, El0IrqInv, TimerExpiresInv, El0SyncInv
<1> QED
  BY <1>1, <1>2, <1>3, <1>4 DEF Next

\* The inductive invariant holds in every reachable state.
THEOREM Invariance == ASSUME QuietBoot PROVE Spec => []IInv
<1>1. Init => IInv
  BY InitInv
<1>2. IInv /\ [Next]_vars => IInv'
  BY NextInv
<1> QED
  BY <1>1, <1>2, PTL DEF Spec

\* The types hold in every reachable state (TypeOK).
THEOREM TypeCorrect == ASSUME QuietBoot PROVE Spec => []TypeOK
<1>1. IInv => TypeOK
  BY DEF IInv
<1> QED
  BY <1>1, Invariance, PTL

\* No CPU ever returns through a stack frame that is not there: the swap of
\* sp between process_cpu_context_switch and process_resched is always paired.
THEOREM NoWildReturn == ASSUME QuietBoot PROVE Spec => []NeverWild
<1>1. IInv => NeverWild
  BY DEF IInv, CpuInv, NeverWild
<1> QED
  BY <1>1, Invariance, PTL

\* A CPU owns the context it executes and every other process can be switched
\* to; no process executes on two CPUs.
THEOREM ContextsOwned == ASSUME QuietBoot PROVE Spec => []ContextOwned
<1>1. ASSUME IInv PROVE ContextOwned
  <2>1. \A c \in Cpu : pc[c] = "user" =>
          /\ entryTask[c] = proc[c] /\ stack[c] = proc[c] /\ ttbr0[c] = proc[c]
          /\ sp[proc[c]] = IdleFrame(c) /\ state[proc[c]] = "RUNNING"
    BY <1>1 DEF IInv, CtxInv
  <2>2. \A c, d \in Cpu : pc[c] = "user" /\ pc[d] = "user" /\ c # d =>
          proc[c] # proc[d]
    BY SMTT(90), <1>1 DEF IInv, CtxInv
  <2>3. \A p \in Proc : (\A c \in Cpu : pc[c] = "user" => proc[c] # p) =>
          sp[p] = Regs(p)
    BY <1>1, HomeOf DEF IInv, SpInv
  <2> QED
    BY <2>1, <2>2, <2>3 DEF ContextOwned
<1> QED
  BY <1>1, Invariance, PTL

\* The idle loop is never preempted by an interrupt, and a running process
\* always can be.
THEOREM IdleProtected == ASSUME QuietBoot PROVE Spec => []IdleNotPreempted
<1>1. IInv => IdleNotPreempted
  BY DEF IInv, CpuInv, IdleNotPreempted
<1> QED
  BY <1>1, Invariance, PTL

\* A process marked RUNNING is the entry_task of its home CPU.
THEOREM RunningEntry == ASSUME QuietBoot PROVE Spec => []RunningIsEntryTask
<1>1. IInv => RunningIsEntryTask
  BY DEF IInv
<1> QED
  BY <1>1, Invariance, PTL

\* What a step does to the state of a process: a zombie stays one, no
\* process becomes new again, and only exit makes a zombie.
LEMMA StateMoves ==
  ASSUME QuietBoot, IInv, Next, NEW p \in Proc
  PROVE  /\ state[p] = "ZOMBIE" => state'[p] = "ZOMBIE"
         /\ state'[p] = "NEW" => state[p] = "NEW"
         /\ state'[p] = "ZOMBIE" =>
              \/ state[p] = "ZOMBIE"
              \/ \E c \in Cpu : El0Sync(c, "exit") /\ p = entryTask[c]
<1> DEFINE Goal ==
      /\ state[p] = "ZOMBIE" => state'[p] = "ZOMBIE"
      /\ state'[p] = "NEW" => state[p] = "NEW"
      /\ state'[p] = "ZOMBIE" =>
           \/ state[p] = "ZOMBIE"
           \/ \E c \in Cpu : El0Sync(c, "exit") /\ p = entryTask[c]
<1> USE DEF IInv
<1>0. state \in [Task -> State] /\ p \in Task
  BY DEF TypeOK, Task
<1>1. CASE UNCHANGED state
  BY <1>1
<1>2. ASSUME NEW s \in {"slot", "num"}, StoreLands(s) PROVE Goal
  <2>1. \/ UNCHANGED state
        \/ /\ state' = [state EXCEPT ![Processes[regIdx + 1]] = "READY"]
           /\ landed = {}
           /\ regIdx \in 0 .. Len(Processes) /\ regIdx < Len(Processes)
    BY <1>2 DEF StoreLands, RqInv, TypeOK, QuietBoot
  <2>2. CASE /\ state' = [state EXCEPT ![Processes[regIdx + 1]] = "READY"]
             /\ landed = {}
             /\ regIdx \in 0 .. Len(Processes) /\ regIdx < Len(Processes)
    <3>1. state[Processes[regIdx + 1]] = "NEW"
      BY <2>2, ProcIndex DEF NewInv
    <3> QED
      BY <1>0, <2>2, <3>1
  <2> QED
    BY <1>1, <2>1, <2>2
<1>3. ASSUME NEW c \in Cpu, RunProcess(c) PROVE Goal
  <2> DEFINE s1 == [state EXCEPT ![current[c]] = "READY"]
             s2 == IF entryTask[c] # NoTask /\ s1[entryTask[c]] = "RUNNING"
                     THEN [s1 EXCEPT ![entryTask[c]] = "READY"] ELSE s1
  <2>1. /\ current[c] \in IdleTask
        /\ proc[c] \in Proc /\ state[proc[c]] \in {"READY", "RUNNING"}
    BY <1>3 DEF RunProcess, CtxInv
  <2>2. s1 \in [Task -> State] /\ s1[p] = state[p]
    BY <1>0, <2>1, SchedAssumption DEF State, Task
  <2> HIDE DEF s1
  <2>3. /\ s2 \in [Task -> State]
        /\ s2[p] = s1[p] \/ (s1[p] = "RUNNING" /\ s2[p] = "READY")
    BY <1>0, <2>2 DEF State
  <2>4. state' = [s2 EXCEPT ![proc[c]] = "RUNNING"]
    BY <1>3 DEF RunProcess, Dispatched, s1
  <2> HIDE DEF s2
  <2> QED
    BY <1>0, <2>1, <2>2, <2>3, <2>4
<1>4. ASSUME NEW c \in Cpu, RunProcessReturn(c) PROVE Goal
  <2>1. PICK cur \in IdleTask : state' = [state EXCEPT ![cur] = "RUNNING"]
    BY <1>4 DEF RunProcessReturn, CtxInv
  <2> QED
    BY <1>0, <2>1, SchedAssumption
<1>5. ASSUME NEW c \in Cpu, NEW kind, El0Sync(c, kind) PROVE Goal
  <2>1. CASE kind # "exit"
    BY <1>1, <1>5, <2>1 DEF El0Sync
  <2>2. CASE kind = "exit"
    <3>1. state' = [state EXCEPT ![entryTask[c]] = "ZOMBIE"]
      BY <1>5, <2>2 DEF El0Sync
    <3> QED
      BY <1>0, <1>5, <2>2, <3>1
  <2> QED
    BY <2>1, <2>2
<1> QED
  BY <1>1, <1>2, <1>3, <1>4, <1>5
     DEF Next, BootStep, IdleStep, RegisterDone, LocalSchedTimerStart,
         PreemptDisable, LocalIrqEnable, NeedResched, Schdule, PickBegin,
         ReloadCount, ScanSkip, PickNone, PickNext, El1Irq, El0Irq, TimerExpires

\* No step brings a zombie back.
THEOREM ZombiesStay == ASSUME QuietBoot PROVE Spec => ZombieIsFinal
<1>1. IInv /\ [Next]_vars =>
        [\A p \in Proc : state[p] = "ZOMBIE" => state'[p] = "ZOMBIE"]_vars
  BY StateMoves
<1> QED
  BY <1>1, Invariance, PTL DEF Spec, ZombieIsFinal
=============================================================================
