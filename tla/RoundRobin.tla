----------------------------- MODULE RoundRobin -----------------------------
(***************************************************************************)
(* What the per-CPU round-robin scheduling class promises, without stacks, *)
(* interrupts or run-queue arrays.  Processes arrive at a CPU one by one,  *)
(* and every CPU keeps a cyclic order of those it has taken into account.  *)
(* When a CPU begins to choose, all that have arrived enter the order,     *)
(* somewhere, together; others may enter while it chooses.  It runs the    *)
(* first in the order that has not exited, and that one and the exited     *)
(* ones before it go to the end; it gives up only if all that had arrived  *)
(* when it began have exited.  A process that exits never runs again.      *)
(***************************************************************************)
EXTENDS Naturals, Sequences

CONSTANTS Cpu, Proc, NoProc

VARIABLES
    arrived,    \* for each CPU, its processes in the order they came
    turn,       \* for each CPU, its processes in the order they will run
    had,        \* for each CPU that is choosing, how many had arrived when
                \* it began, and 0 for the others
    running,    \* for each CPU, the process it executes, or NoProc
    exited      \* the processes that have exited

vars == <<arrived, turn, had, running, exited>>

Init ==
    /\ arrived = [c \in Cpu |-> <<>>]
    /\ turn = [c \in Cpu |-> <<>>]
    /\ had = [c \in Cpu |-> 0]
    /\ running = [c \in Cpu |-> NoProc]
    /\ exited = {}

Arrive(c, p) ==
    /\ \A d \in Cpu : \A i \in 1 .. Len(arrived[d]) : arrived[d][i] # p
    /\ arrived' = [arrived EXCEPT ![c] = Append(@, p)]
    /\ UNCHANGED <<turn, had, running, exited>>

\* The first n to arrive that are not yet in the order enter it at one place.
Join(c, n) ==
    \E i \in 0 .. Len(turn[c]) :
      turn' = [turn EXCEPT ![c] = (SubSeq(@, 1, i)
                                     \o SubSeq(arrived[c], Len(@) + 1, n))
                                     \o SubSeq(@, i + 1, Len(@))]

Choose(c) ==
    /\ running[c] = NoProc
    /\ had[c] = 0
    /\ had' = [had EXCEPT ![c] = Len(arrived[c])]
    /\ Join(c, Len(arrived[c]))
    /\ UNCHANGED <<arrived, running, exited>>

Notice(c) ==
    /\ had[c] # 0
    /\ \E n \in Len(turn[c]) .. Len(arrived[c]) : Join(c, n)
    /\ UNCHANGED <<arrived, had, running, exited>>

Dispatch(c) ==
    /\ had[c] # 0
    /\ had' = [had EXCEPT ![c] = 0]
    /\ \E k \in 1 .. Len(turn[c]) :
         /\ turn[c][k] \notin exited
         /\ \A j \in 1 .. k - 1 : turn[c][j] \in exited
         /\ running' = [running EXCEPT ![c] = turn[c][k]]
         /\ turn' = [turn EXCEPT ![c] = SubSeq(@, k + 1, Len(@)) \o SubSeq(@, 1, k)]
    /\ UNCHANGED <<arrived, exited>>

GiveUp(c) ==
    /\ had[c] # 0
    /\ \A i \in 1 .. had[c] : arrived[c][i] \in exited
    /\ had' = [had EXCEPT ![c] = 0]
    /\ UNCHANGED <<arrived, turn, running, exited>>

Yield(c) ==
    /\ running[c] # NoProc
    /\ running' = [running EXCEPT ![c] = NoProc]
    /\ UNCHANGED <<arrived, turn, had, exited>>

Exit(c) ==
    /\ running[c] # NoProc
    /\ exited' = exited \cup {running[c]}
    /\ running' = [running EXCEPT ![c] = NoProc]
    /\ UNCHANGED <<arrived, turn, had>>

Next ==
    \E c \in Cpu :
      \/ \E p \in Proc : Arrive(c, p)
      \/ Choose(c)
      \/ Notice(c)
      \/ Dispatch(c)
      \/ GiveUp(c)
      \/ Yield(c)
      \/ Exit(c)

Spec == Init /\ [][Next]_vars
=============================================================================
