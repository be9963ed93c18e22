------------------------------ MODULE MCConsole ------------------------------
(***************************************************************************)
(* Three CPUs of the kernel: two messages before the UART is up, then one  *)
(* of each CPU's task and of two interrupt handlers.  And the bootloader,  *)
(* which runs the same printk on one CPU and silences it for a while.      *)
(***************************************************************************)
EXTENDS Console, TLC

KernelScript ==
    [f \in Frames |->
        CASE f = Task(0) -> <<"print", "print", "done", "irqon", "start", "print">>
          [] f \in {Task(1), Task(2)} -> <<"irqon", "print">>
          [] f \in {Irq(0), Irq(1)} -> <<"print">>
          [] OTHER -> <<>>]

BootloaderScript ==
    [f \in Frames |->
        IF f = Task(0) THEN <<"done", "forbid", "print", "ready", "print">> ELSE <<>>]

MCScripts == {KernelScript, BootloaderScript}
MCText == <<"x", "nl">>
=============================================================================
