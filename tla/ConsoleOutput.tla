---------------------------- MODULE ConsoleOutput ----------------------------
(***************************************************************************)
(* What the console shows, proved for any number of CPUs, any message      *)
(* text, any scripts and any FIFO depth: whole messages in the order in    *)
(* which they were formatted.                                              *)
(***************************************************************************)
EXTENDS ConsoleProofs, FiniteSetTheorems

Messages == Frames \X Nat
Letters == {Text[k] : k \in DOMAIN Text} \cup {"cr"}
Chars == Messages \X Letters

Cursor == [i : Nat \ {0}, cr : BOOLEAN, len : Nat]

\* Beside the types: a frame at "record", "poll" or "write" has its own message
\* in the shared buffer, the last one that was formatted, and one about to write
\* finds room in the FIFO.
OutputTypes ==
    /\ online \subseteq Cpus /\ status \in {"down", "ready", "forbid"}
    /\ order \in Seq(Messages) /\ log \in Seq(Chars) /\ Len(log) <= LogBufLen
    /\ fifo \in Seq(Chars) /\ line \in Seq(Chars) /\ Len(fifo) <= FifoDepth
    /\ pos \in [Frames -> Cursor]
    /\ \A f \in Frames : pc[f] \in {"record", "poll", "write"} =>
        /\ pos[f].len = Len(Text) /\ order # <<>>
        /\ buf = TextOf(order[Len(order)])
    /\ \A f \in Frames : pc[f] \in {"write", "drainwrite"} =>
        Len(fifo) < FifoDepth /\ pos[f].i <= Limit(f)

\* Only the boot CPU's task has run so far.
Alone ==
    /\ online = {Boot} /\ irqon = {}
    /\ \A c \in Cpus : pc[Irq(c)] = "off" /\ (c # Boot => pc[Task(c)] = "out")

\* The early log holds the first count messages, one after the other.
Logged(count) ==
    /\ count <= Len(order) /\ Len(log) = count * Len(Text)
    /\ \A n \in 1 .. count, k \in DOMAIN Text :
        log[(n - 1) * Len(Text) + k] = <<order[n], Text[k]>>

\* The boot CPU has done n calls of s, all of them printk.
Printed(s, n) ==
    /\ n <= Len(s) /\ \A k \in 1 .. n : s[k] = "print"
    /\ Len(script[Task(Boot)]) = Len(s) - n
    /\ \A k \in 1 .. Len(s) - n : script[Task(Boot)][k] = s[n + k]

\* Before init_printf_done: what has been printed is in the log and fits it.
EarlyInv ==
    LET b == Task(Boot) IN
    status = "down" =>
        /\ Alone /\ line = <<>> /\ fifo = <<>>
        /\ pc[b] \notin {"poll", "write", "drainpoll", "drainwrite"}
        /\ Logged(Len(order) - IF pc[b] = "record" THEN 1 ELSE 0)
        /\ \E s \in Scripts : \E n \in Nat :
            /\ Printed(s[b], n)
            /\ Len(order) = n + IF pc[b] \in {"record", "unlock", "restore"} THEN 1 ELSE 0
            /\ pc[b] \in Inside => script[b][1] = "print"

\* n whole messages are on their way, and one more up to the loop's index k,
\* with its '\r' sent or not.
Sent(n, k, cr) ==
    Len(line \o fifo) = n * Width + Column(k - 1) + IF cr THEN 1 ELSE 0

\* While init_printf_done drains the log, nobody else runs, and the line has
\* what the loop has passed.
DrainInv ==
    LET b == Task(Boot) IN
    status # "down" /\ log # <<>> =>
        /\ Alone /\ status = "ready" /\ pc[b] \in {"drainpoll", "drainwrite"}
        /\ Logged(Len(order))
        /\ \E n \in 0 .. Len(order), k \in DOMAIN Text :
            /\ pos[b].i = n * Len(Text) + k
            /\ Sent(n, k, pos[b].cr)
            /\ pos[b].cr => Text[k] = "nl"
            /\ n = Len(order) => k = 1 /\ ~pos[b].cr

\* Afterwards every message but the one a frame is writing is complete.
LateInv ==
    status # "down" /\ log = <<>> =>
        /\ \A f \in Frames :
            /\ pc[f] \notin {"record", "drainwrite"}
            /\ pc[f] \in {"poll", "write"} =>
                /\ pos[f].i <= Len(Text) + 1
                /\ Sent(Len(order) - 1, pos[f].i, pos[f].cr)
                /\ pos[f].cr => pos[f].i <= Len(Text) /\ Text[pos[f].i] = "nl"
        /\ (\A f \in Frames : pc[f] \notin {"poll", "write"}) =>
                Len(line \o fifo) = Len(order) * Width

OutputInv ==
    /\ OutputTypes /\ EarlyInv /\ DrainInv /\ LateInv
    /\ Shows(line \o fifo, order)

-----------------------------------------------------------------------------
(* Places on the line *)

\* Every character takes one place, a '\n' two.
LEMMA ColumnFacts ==
    /\ Len(Text) \in Nat \ {0} /\ DOMAIN Text = 1 .. Len(Text)
    /\ Column(0) = 0 /\ Width = Column(Len(Text))
    /\ \A k \in 0 .. Len(Text) : Column(k) \in Nat
    /\ \A k \in 1 .. Len(Text) : Column(k) = Column(k - 1) + IF Text[k] = "nl" THEN 2 ELSE 1
    /\ \A j, k \in 0 .. Len(Text) : j <= k => Column(j) <= Column(k)
  <1>1. Len(Text) \in Nat \ {0} /\ DOMAIN Text = 1 .. Len(Text)
    BY ConsoleAssumption
  <1>2. \A k \in 0 .. Len(Text) : IsFiniteSet(Breaks(k)) /\ Cardinality(Breaks(k)) \in Nat
    <2> TAKE k \in 0 .. Len(Text)
    <2>1. IsFiniteSet(1 .. k)
      BY <1>1, FS_Interval
    <2>2. Breaks(k) \subseteq 1 .. k
      BY DEF Breaks
    <2> QED
      BY <2>1, <2>2, FS_Subset, FS_CardinalityType
  <1>3. Column(0) = 0
    <2>1. Breaks(0) = {}
      BY DEF Breaks
    <2> QED
      BY <2>1, FS_EmptySet DEF Column
  <1>4. ASSUME NEW k \in 1 .. Len(Text)
        PROVE  Column(k) = Column(k - 1) + IF Text[k] = "nl" THEN 2 ELSE 1
    <2>1. k - 1 \in 0 .. Len(Text) /\ k \in 0 .. Len(Text)
      BY <1>1
    <2>2. CASE Text[k] = "nl"
      <3>1. Breaks(k) = Breaks(k - 1) \cup {k} /\ k \notin Breaks(k - 1)
        BY <1>1, <2>2 DEF Breaks
      <3>2. Cardinality(Breaks(k)) = Cardinality(Breaks(k - 1)) + 1
        BY Zenon, <1>2, <2>1, <3>1, FS_AddElement
      <3> QED
        BY <1>1, <1>2, <2>1, <2>2, <3>2 DEF Column
    <2>3. CASE Text[k] # "nl"
      <3>1. Breaks(k) = Breaks(k - 1)
        BY <1>1, <2>3 DEF Breaks
      <3> QED
        BY <1>1, <1>2, <2>1, <2>3, <3>1 DEF Column
    <2> QED
      BY <2>2, <2>3
  <1>5. ASSUME NEW j \in 0 .. Len(Text), NEW k \in 0 .. Len(Text), j <= k
        PROVE  Column(j) <= Column(k)
    <2>1. Breaks(j) \subseteq Breaks(k)
      BY <1>5, <1>1 DEF Breaks
    <2>2. Cardinality(Breaks(j)) <= Cardinality(Breaks(k))
      BY <1>2, <2>1, FS_Subset
    <2> QED
      BY <1>1, <1>2, <1>5, <2>2 DEF Column
  <1> QED
    BY <1>1, <1>2, <1>3, <1>4, <1>5 DEF Width, Column

\* Where the k-th character of the n-th message goes.
Place(n, k) == (n - 1) * Width + Column(k)

\* A later character of the same or of a later message goes to a later place,
\* with room for its '\r'.
LEMMA PlaceOrder ==
    ASSUME NEW m \in Nat, NEW n \in Nat, NEW j \in DOMAIN Text, NEW k \in DOMAIN Text,
           m < n \/ (m = n /\ j < k)
    PROVE  Place(m, j) + (IF Text[k] = "nl" THEN 2 ELSE 1) <= Place(n, k)
  <1>1. /\ Column(k) = Column(k - 1) + IF Text[k] = "nl" THEN 2 ELSE 1
        /\ Column(j) \in Nat /\ Column(k) \in Nat /\ Column(k - 1) \in Nat /\ Width \in Nat
        /\ Column(j) <= Width
    BY ColumnFacts
  <1>2. CASE m = n /\ j < k
    <2>1. Column(j) <= Column(k - 1)
      BY <1>2, ColumnFacts
    <2>2. (n - 1) * Width \in Int
      BY <1>1
    <2> QED
      BY <1>1, <1>2, <2>1, <2>2 DEF Place
  <1>3. CASE m < n
    <2>1. PICK d \in Nat : n = m + 1 + d
      <3>1. n - m - 1 \in Nat /\ n = m + 1 + (n - m - 1)
        BY <1>3
      <3> QED
        BY <3>1
    <2>2. /\ (n - 1) * Width = (m - 1) * Width + Width + d * Width
          /\ (m - 1) * Width \in Int /\ d * Width \in Nat
      BY <1>1, <2>1
    <2> QED
      BY <1>1, <2>2 DEF Place
  <1> QED
    BY <1>2, <1>3

\* Part of one more message ends before the next one begins.
LEMMA WidthBound ==
    ASSUME NEW m \in Nat, NEW n \in Nat, m < n, NEW x \in Nat, x <= Width
    PROVE  m * Width + x <= n * Width
  <1>1. Width \in Nat
    BY ColumnFacts
  <1>2. PICK d \in Nat : n = m + 1 + d
    <2>1. n - m - 1 \in Nat /\ n = m + 1 + (n - m - 1)
      OBVIOUS
    <2> QED
      BY <2>1
  <1>3. n * Width = m * Width + Width + d * Width /\ m * Width \in Nat /\ d * Width \in Nat
    BY <1>1, <1>2
  <1> QED
    BY <1>1, <1>3

LEMMA SentBound ==
    ASSUME NEW m \in Nat, NEW n \in Nat, m < n, NEW k \in 1 .. Len(Text) + 1, NEW cr,
           cr => k <= Len(Text) /\ Text[k] = "nl"
    PROVE  m * Width + Column(k - 1) + (IF cr THEN 1 ELSE 0) <= n * Width
  <1>1. Width = Column(Len(Text)) /\ Width \in Nat /\ Len(Text) \in Nat
    BY ColumnFacts
  <1>2. k - 1 \in 0 .. Len(Text) /\ Len(Text) \in 0 .. Len(Text) /\ k - 1 <= Len(Text)
    BY <1>1
  <1>3. Column(k - 1) \in Nat /\ Column(k - 1) <= Width
    BY <1>1, <1>2, ColumnFacts
  <1>4. CASE cr
    <2>1. k \in 1 .. Len(Text) /\ k \in 0 .. Len(Text) /\ k <= Len(Text) /\ Text[k] = "nl"
      BY <1>1, <1>4
    <2>2. Column(k) = Column(k - 1) + 2 /\ Column(k) <= Width
      BY <1>1, <1>2, <2>1, ColumnFacts
    <2>3. Column(k - 1) + 1 \in Nat /\ Column(k - 1) + 1 <= Width
      BY <1>1, <1>3, <2>2
    <2>4. m * Width + (Column(k - 1) + 1) <= n * Width
      BY <2>3, WidthBound
    <2>5. m * Width \in Nat
      BY <1>1
    <2> QED
      BY <1>3, <1>4, <2>4, <2>5
  <1>5. CASE ~cr
    <2>1. m * Width + Column(k - 1) <= n * Width /\ m * Width \in Nat
      BY <1>1, <1>3, WidthBound
    <2> QED
      BY <1>3, <1>5, <2>1
  <1> QED
    BY <1>4, <1>5

\* What Shows says of one character.
ShowsAt(out, messages, n, k) ==
    /\ Place(n, k) <= Len(out) => out[Place(n, k)] = <<messages[n], Text[k]>>
    /\ Text[k] = "nl" /\ Place(n, k) - 1 <= Len(out) =>
            out[Place(n, k) - 1] = <<messages[n], "cr">>

LEMMA ShowsPlaces ==
    ASSUME NEW out, NEW ms
    PROVE  Shows(out, ms) <=> \A n \in DOMAIN ms, k \in DOMAIN Text : ShowsAt(out, ms, n, k)
  BY DEF Shows, ShowsAt, Place

\* A place is a positive number, and so is that of the '\r' in front.
LEMMA PlaceType ==
    ASSUME NEW n \in Nat \ {0}, NEW k \in DOMAIN Text
    PROVE  Place(n, k) \in Nat /\ Place(n, k) >= IF Text[k] = "nl" THEN 2 ELSE 1
  <1>1. /\ Column(k) = Column(k - 1) + IF Text[k] = "nl" THEN 2 ELSE 1
        /\ Column(k) \in Nat /\ Column(k - 1) \in Nat /\ Width \in Nat
    BY ColumnFacts
  <1>2. (n - 1) * Width \in Nat
    BY <1>1
  <1> QED
    BY <1>1, <1>2 DEF Place

\* putchar's next character, or the '\r' it sends before a '\n', continues what
\* the line shows.
LEMMA PutChar ==
    ASSUME NEW out \in Seq(Chars), NEW ms \in Seq(Messages), NEW n \in 1 .. Len(ms),
           NEW k \in DOMAIN Text, NEW e \in Chars, Shows(out, ms),
           \/ Len(out) + 1 = Place(n, k) /\ e = <<ms[n], Text[k]>>
           \/ Text[k] = "nl" /\ Len(out) + 1 = Place(n, k) - 1 /\ e = <<ms[n], "cr">>
    PROVE  Shows(Append(out, e), ms)
  <1>1. SUFFICES ASSUME NEW m \in DOMAIN ms, NEW j \in DOMAIN Text
                 PROVE  ShowsAt(Append(out, e), ms, m, j)
    BY ShowsPlaces
  <1>2. ShowsAt(out, ms, m, j)
    BY ShowsPlaces
  <1>n. m \in Nat \ {0} /\ n \in Nat \ {0} /\ Len(out) \in Nat
    OBVIOUS
  <1>3. /\ Place(m, j) \in Nat /\ Place(m, j) >= IF Text[j] = "nl" THEN 2 ELSE 1
        /\ Place(n, k) \in Nat /\ Place(n, k) >= IF Text[k] = "nl" THEN 2 ELSE 1
    BY Zenon, <1>n, PlaceType
  <1>4. /\ Len(Append(out, e)) = Len(out) + 1 /\ Append(out, e)[Len(out) + 1] = e
        /\ \A x \in 1 .. Len(out) : Append(out, e)[x] = out[x]
    OBVIOUS
  <1>5. CASE m = n /\ j = k
    BY <1>2, <1>n, <1>3, <1>4, <1>5 DEF ShowsAt
  <1>6. CASE m < n \/ (m = n /\ j < k)
    <2>1. Place(m, j) + (IF Text[k] = "nl" THEN 2 ELSE 1) <= Place(n, k)
      BY <1>n, <1>6, PlaceOrder
    <2>2. /\ Place(m, j) \in 1 .. Len(out)
          /\ Text[j] = "nl" => Place(m, j) - 1 \in 1 .. Len(out)
      BY <1>n, <1>3, <2>1
    <2>3. /\ Append(out, e)[Place(m, j)] = out[Place(m, j)]
          /\ Text[j] = "nl" => Append(out, e)[Place(m, j) - 1] = out[Place(m, j) - 1]
      BY Zenon, <1>4, <2>2
    <2> QED
      BY <1>2, <1>n, <2>2, <2>3 DEF ShowsAt
  <1>7. CASE n < m \/ (m = n /\ k < j)
    <2>1. Place(n, k) + (IF Text[j] = "nl" THEN 2 ELSE 1) <= Place(m, j)
      BY <1>n, <1>7, PlaceOrder
    <2> QED
      BY <1>2, <1>n, <1>3, <1>4, <2>1 DEF ShowsAt
  <1> QED
    BY <1>n, <1>5, <1>6, <1>7, ColumnFacts

\* A message that has only been formatted shows nothing yet.
LEMMA ShowsMore ==
    ASSUME NEW out \in Seq(Chars), NEW ms \in Seq(Messages), NEW m \in Messages,
           Len(out) <= Len(ms) * Width, Shows(out, ms)
    PROVE  Shows(out, Append(ms, m))
  <1>1. SUFFICES ASSUME NEW n \in DOMAIN Append(ms, m), NEW k \in DOMAIN Text
                 PROVE  ShowsAt(out, Append(ms, m), n, k)
    BY Zenon, ShowsPlaces
  <1>2. CASE n \in DOMAIN ms
    <2>1. Append(ms, m)[n] = ms[n]
      BY <1>2
    <2>2. ShowsAt(out, ms, n, k)
      BY <1>2, ShowsPlaces
    <2> QED
      BY <2>1, <2>2 DEF ShowsAt
  <1>3. CASE n = Len(ms) + 1
    <2>1. /\ Column(k) = Column(k - 1) + IF Text[k] = "nl" THEN 2 ELSE 1
          /\ Column(k) \in Nat /\ Column(k - 1) \in Nat /\ Width \in Nat
      BY ColumnFacts
    <2>2. Place(n, k) = Len(ms) * Width + Column(k) /\ Len(ms) * Width \in Nat
      BY <1>3, <2>1 DEF Place
    <2> QED
      BY <2>1, <2>2 DEF ShowsAt
  <1> QED
    BY <1>2, <1>3

\* A character is appended to the FIFO, and the UART sends the first one.
LEMMA PutOut ==
    ASSUME NEW ln \in Seq(Chars), NEW ff \in Seq(Chars), NEW e \in Chars, Len(ff) < FifoDepth
    PROVE  /\ ln \o Append(ff, e) = Append(ln \o ff, e)
           /\ Len(ln \o Append(ff, e)) = Len(ln \o ff) + 1
           /\ ln \o ff \in Seq(Chars) /\ Len(ln \o ff) \in Nat
           /\ Append(ff, e) \in Seq(Chars) /\ Len(Append(ff, e)) <= FifoDepth
  <1>1. ln \o Append(ff, e) = Append(ln \o ff, e)
    OBVIOUS
  <1>2. ln \o ff \in Seq(Chars) /\ Append(ff, e) \in Seq(Chars)
    OBVIOUS
  <1>3. Len(ln \o ff) \in Nat /\ Len(ln \o Append(ff, e)) = Len(ln \o ff) + 1
    BY <1>1, <1>2
  <1>4. Len(Append(ff, e)) <= FifoDepth
    BY ConsoleAssumption
  <1> QED
    BY Zenon, <1>1, <1>2, <1>3, <1>4

\* The loop's index moves in one frame.
LEMMA CursorStep ==
    ASSUME NEW f \in Frames, pos \in [Frames -> Cursor], NEW r \in Cursor,
           pos' = [pos EXCEPT ![f] = r]
    PROVE  pos' \in [Frames -> Cursor] /\ pos'[f] = r /\ \A g \in Frames : g # f => pos'[g] = pos[g]
  OBVIOUS

LEMMA CursorParts ==
    ASSUME NEW i \in Nat \ {0}, NEW len \in Nat
    PROVE  /\ [i |-> i, cr |-> FALSE, len |-> len] \in Cursor
           /\ [i |-> i, cr |-> TRUE, len |-> len] \in Cursor
           /\ [i |-> i, cr |-> FALSE, len |-> len].i = i
           /\ [i |-> i, cr |-> TRUE, len |-> len].i = i
           /\ [i |-> i, cr |-> FALSE, len |-> len].len = len
           /\ [i |-> i, cr |-> TRUE, len |-> len].len = len
           /\ [i |-> i, cr |-> FALSE, len |-> len].cr = FALSE
           /\ [i |-> i, cr |-> TRUE, len |-> len].cr = TRUE
  BY DEF Cursor

\* The message and the letter of a character.
LEMMA CharParts ==
    ASSUME NEW m, NEW l, NEW e, e = <<m, l>>
    PROVE  e[1] = m /\ e[2] = l
  OBVIOUS

LEMMA SendOut ==
    ASSUME NEW ln \in Seq(Chars), NEW ff \in Seq(Chars), ff # <<>>
    PROVE  /\ Append(ln, Head(ff)) \in Seq(Chars) /\ Tail(ff) \in Seq(Chars)
           /\ Len(Tail(ff)) = Len(ff) - 1
           /\ Append(ln, Head(ff)) \o Tail(ff) = ln \o ff
  OBVIOUS

-----------------------------------------------------------------------------
(* The phases: before init_printf_done, in its loop, after it *)

data == <<order, log, fifo, line, pos, buf>>

\* The invariant holds when the boot CPU enters the kernel.
LEMMA InitOutput == Init => OutputInv
  <1> SUFFICES ASSUME Init PROVE OutputInv
    OBVIOUS
  <1> DEFINE b == Task(Boot)
  <1>1. /\ status = "down" /\ log = <<>> /\ order = <<>> /\ line = <<>> /\ fifo = <<>>
        /\ online = {Boot} /\ irqon = {} /\ script \in Scripts
        /\ pc = [f \in Frames |-> IF f[2] = "task" THEN "out" ELSE "off"]
        /\ pos = [f \in Frames |-> [i |-> 1, cr |-> FALSE, len |-> 0]]
    BY DEF Init
  <1>2. OutputTypes
    BY <1>1, ConsoleAssumption, FrameFacts DEF OutputTypes, Cursor
  <1>3. Alone /\ pc[b] = "out"
    BY <1>1, ConsoleAssumption, FrameFacts DEF Alone
  <1>4. Logged(0)
    BY <1>1, ColumnFacts DEF Logged
  <1>5. Printed(script[b], 0)
    BY <1>1, ConsoleAssumption, ScriptAssumption, FrameFacts DEF Printed
  <1>6. EarlyInv
    BY <1>1, <1>3, <1>4, <1>5 DEF EarlyInv, Inside, Holding
  <1>7. DrainInv /\ LateInv
    BY <1>1 DEF DrainInv, LateInv
  <1>8. Shows(line \o fifo, order)
    BY <1>1 DEF Shows
  <1> QED
    BY <1>2, <1>6, <1>7, <1>8 DEF OutputInv

\* Every step of a frame begins somewhere in its code; while the boot CPU is
\* alone, the frame is its task.
LEMMA BootOnly ==
    ASSUME IInv, NEW f \in Frames, Step(f)
    PROVE  Runs(f) /\ pc[f] \notin {"off", "ret"} /\ (Alone => f = Task(Boot))
  <1>1. Runs(f) /\ pc[f] \notin {"off", "ret"}
    BY DEF Step, printk, Ldr, Ldaxr, Stxr, Format, Record, Unlock, Restore, uart_poll,
           uart_write, init_printf_done, DrainEnd, SetStatus, local_interrupt_enable,
           smp_init, Calls, At
  <1> QED
    BY <1>1, FrameFacts DEF Runs, Alone

\* What GoTo does to the program counters.
LEMMA Moves ==
    ASSUME IInv, NEW f \in Frames, NEW l, pc' = [pc EXCEPT ![f] = l]
    PROVE  pc'[f] = l /\ \A g \in Frames : g # f => pc'[g] = pc[g]
  BY DEF IInv, Types

LEMMA BootFrame == Task(Boot) \in Frames
  BY ConsoleAssumption, FrameFacts

\* A step of the boot CPU's task leaves it alone.
LEMMA StaysAlone ==
    ASSUME Alone, UNCHANGED <<online, irqon>>,
           \A g \in Frames : g # Task(Boot) => pc'[g] = pc[g]
    PROVE  Alone' /\ \A g \in Frames : g # Task(Boot) => pc[g] \in {"out", "off"}
  <1>1. \A c \in Cpus : Irq(c) \in Frames /\ Irq(c) # Task(Boot)
    BY DEF Frames, Irq, Task
  <1>2. \A c \in Cpus : c # Boot => Task(c) \in Frames /\ Task(c) # Task(Boot)
    BY DEF Frames, Task
  <1> QED
    BY <1>1, <1>2, FrameFacts DEF Alone

\* EarlyInv, for the script s and the n calls of it that are done.
Early(s, n) ==
    LET b == Task(Boot) IN
    /\ Alone /\ line = <<>> /\ fifo = <<>>
    /\ pc[b] \notin {"poll", "write", "drainpoll", "drainwrite"}
    /\ Logged(Len(order) - IF pc[b] = "record" THEN 1 ELSE 0)
    /\ Printed(s, n)
    /\ Len(order) = n + IF pc[b] \in {"record", "unlock", "restore"} THEN 1 ELSE 0
    /\ pc[b] \in Inside => script[b][1] = "print"

LEMMA EarlyWitness ==
    EarlyInv <=> (status = "down" => \E s \in Scripts : \E n \in Nat : Early(s[Task(Boot)], n))
  BY DEF EarlyInv, Early

\* Nothing on the line is a prefix of anything.
LEMMA ShowsNothing ==
    ASSUME NEW out, NEW ms \in Seq(Messages), out = <<>>
    PROVE  Shows(out, ms)
  <1>1. SUFFICES ASSUME NEW n \in DOMAIN ms, NEW k \in DOMAIN Text
                 PROVE  ShowsAt(out, ms, n, k)
    BY ShowsPlaces
  <1>2. n \in Nat \ {0} /\ Len(out) = 0
    OBVIOUS
  <1> QED
    BY <1>2, PlaceType DEF ShowsAt

\* The steps of a printk call that leave its data alone.
LEMMA EarlyControl ==
    ASSUME IInv, OutputInv, status = "down", UNCHANGED <<status, online, irqon, script, data>>,
           NEW l \in {"ldr", "ldaxr", "stxr", "format", "restore"},
           pc' = [pc EXCEPT ![Task(Boot)] = l],
           pc[Task(Boot)] # "record",
           pc[Task(Boot)] \in {"unlock", "restore"} <=> l = "restore",
           pc[Task(Boot)] = "out" => script[Task(Boot)][1] = "print"
    PROVE  OutputInv'
  <1> DEFINE b == Task(Boot)
  <1>1. PICK s \in Scripts, n \in Nat : Early(s[b], n)
    BY EarlyWitness DEF OutputInv
  <1>2. pc'[b] = l /\ \A g \in Frames : g # b => pc'[g] = pc[g]
    BY Zenon, BootFrame, Moves
  <1>3. Alone' /\ \A g \in Frames : g # b => pc[g] \in {"out", "off"}
    BY Zenon, <1>1, <1>2, StaysAlone DEF Early
  <1>4. Early(s[b], n)'
    <2>1. Logged(Len(order)) /\ Len(order) - 0 = Len(order)
      BY <1>1 DEF Early, OutputInv, OutputTypes
    <2>3. (Printed(s[b], n) /\ Logged(Len(order)))'
      BY Zenon, <1>1, <2>1 DEF Early, Printed, Logged, data
    <2>2. pc[b] \in Inside \cup {"out"}
      BY <1>1, ConsoleAssumption, FrameFacts DEF Early, IInv, Types, Labels
    <2> QED
      BY <1>1, <1>2, <1>3, <2>1, <2>2, <2>3 DEF Early, Inside, Holding, data
  <1>5. OutputTypes'
    BY Zenon, <1>2, <1>3 DEF OutputInv, OutputTypes, data
  <1>6. EarlyInv'
    BY <1>4 DEF EarlyInv, Early
  <1>7. (line \o fifo = <<>>)'
    BY <1>1 DEF Early, data
  <1>8. Shows(line \o fifo, order)'
    BY <1>5, <1>7, ShowsNothing DEF OutputTypes
  <1> QED
    BY <1>5, <1>6, <1>8 DEF OutputInv, DrainInv, LateInv

\* What myprintf leaves in the buffer.
LEMMA TextFacts ==
    ASSUME NEW m \in Messages
    PROVE  /\ TextOf(m) \in Seq(Chars) /\ Len(TextOf(m)) = Len(Text)
           /\ \A k \in 1 .. Len(Text) : TextOf(m)[k] = <<m, Text[k]>>
           /\ SubSeq(TextOf(m), 1, Len(Text)) = TextOf(m)
  <1>1. \A k \in 1 .. Len(Text) : <<m, Text[k]>> \in Chars
    BY ColumnFacts DEF Chars, Letters
  <1>2. /\ TextOf(m) \in Seq(Chars) /\ Len(TextOf(m)) = Len(Text)
        /\ \A k \in 1 .. Len(Text) : TextOf(m)[k] = <<m, Text[k]>>
    BY <1>1, ColumnFacts DEF TextOf
  <1> QED
    BY <1>2, ColumnFacts

\* One more message is copied behind the log.
LEMMA LogAppend ==
    ASSUME NEW lg \in Seq(Chars), NEW t \in Seq(Chars), NEW c \in Nat,
           Len(lg) = c * Len(Text), Len(t) = Len(Text)
    PROVE  /\ lg \o t \in Seq(Chars) /\ Len(lg \o t) = (c + 1) * Len(Text)
           /\ \A n \in 1 .. c, k \in DOMAIN Text :
                (lg \o t)[(n - 1) * Len(Text) + k] = lg[(n - 1) * Len(Text) + k]
           /\ \A k \in DOMAIN Text : (lg \o t)[c * Len(Text) + k] = t[k]
  <1> DEFINE L == Len(Text)
  <1>1. L \in Nat \ {0} /\ DOMAIN Text = 1 .. L /\ c * L \in Nat /\ (c + 1) * L = c * L + L
    BY ColumnFacts
  <1>2. lg \o t \in Seq(Chars) /\ Len(lg \o t) = (c + 1) * L
    BY <1>1
  <1>3. ASSUME NEW n \in 1 .. c, NEW k \in DOMAIN Text
        PROVE  (lg \o t)[(n - 1) * L + k] = lg[(n - 1) * L + k]
    <2>1. PICK d \in Nat : c = n + d
      <3>1. c - n \in Nat /\ c = n + (c - n)
        OBVIOUS
      <3> QED
        BY <3>1
    <2>2. c * L = (n - 1) * L + L + d * L /\ (n - 1) * L \in Nat /\ d * L \in Nat
      BY <1>1, <2>1
    <2>3. (n - 1) * L + k \in 1 .. Len(lg)
      BY <1>1, <2>2
    <2> QED
      BY <2>3
  <1>4. ASSUME NEW k \in DOMAIN Text
        PROVE  (lg \o t)[c * L + k] = t[k]
    BY <1>1
  <1> QED
    BY Zenon, <1>2, <1>3, <1>4

\* printk returns: one more call is done.
LEMMA EarlyRestore ==
    ASSUME IInv, OutputInv, status = "down", Restore(Task(Boot))
    PROVE  OutputInv'
  <1> DEFINE b == Task(Boot)
  <1>1. PICK s \in Scripts, n \in Nat : Early(s[b], n)
    BY EarlyWitness DEF OutputInv
  <1>2. /\ pc[b] = "restore" /\ pc' = [pc EXCEPT ![b] = "out"]
        /\ script' = [script EXCEPT ![b] = Tail(@)]
        /\ UNCHANGED <<status, online, irqon, data>>
    BY Zenon, ConsoleAssumption, FrameFacts DEF Restore, At, GoTo, Called, data, lockVars, uart
  <1>3. pc'[b] = "out" /\ \A g \in Frames : g # b => pc'[g] = pc[g]
    BY Zenon, <1>2, BootFrame, Moves
  <1>4. Alone' /\ \A g \in Frames : g # b => pc[g] \in {"out", "off"}
    BY Zenon, <1>1, <1>2, <1>3, StaysAlone DEF Early
  <1>5. Printed(s[b], n + 1)'
    <2>1. /\ script[b] \in Seq(CallNames) /\ script[b] # <<>>
          /\ script'[b] = Tail(script[b]) /\ s[b] \in Seq(CallNames)
      BY <1>2, ConsoleAssumption, ScriptAssumption, FrameFacts DEF IInv, Types
    <2>2. script[b][1] = "print" /\ Printed(s[b], n)
      BY <1>1, <1>2 DEF Early, Inside
    <2>3. /\ Len(script[b]) >= 1 /\ Len(script'[b]) = Len(script[b]) - 1
          /\ \A k \in 1 .. Len(script[b]) - 1 : script'[b][k] = script[b][k + 1]
      BY <2>1
    <2>4. Len(script[b]) = Len(s[b]) - n /\ s[b][n + 1] = "print" /\ n + 1 <= Len(s[b])
      BY <2>1, <2>2, <2>3 DEF Printed
    <2>5. \A k \in 1 .. n + 1 : s[b][k] = "print"
      BY <2>2, <2>4 DEF Printed
    <2>6. \A k \in 1 .. Len(s[b]) - (n + 1) : script'[b][k] = s[b][n + 1 + k]
      <3> TAKE k \in 1 .. Len(s[b]) - (n + 1)
      <3>1. k + 1 \in 1 .. Len(s[b]) - n /\ k \in 1 .. Len(script[b]) - 1 /\ n + (k + 1) = n + 1 + k
        BY <2>1, <2>4
      <3>2. script[b][k + 1] = s[b][n + (k + 1)]
        BY <2>2, <3>1 DEF Printed
      <3> QED
        BY <2>3, <3>1, <3>2
    <2>7. Len(script'[b]) = Len(s[b]) - (n + 1)
      BY <2>1, <2>3, <2>4
    <2> QED
      BY <2>4, <2>5, <2>6, <2>7 DEF Printed
  <1>6. Early(s[b], n + 1)'
    <2>1. Len(order) = n + 1 /\ Len(order) - 0 = Len(order) /\ Logged(Len(order))
      BY <1>1, <1>2 DEF Early, OutputInv, OutputTypes
    <2>2. Logged(Len(order))'
      BY Zenon, <1>2, <2>1 DEF Logged, data
    <2> QED
      BY <1>1, <1>2, <1>3, <1>4, <1>5, <2>1, <2>2 DEF Early, Inside, Holding, data
  <1>7. OutputTypes'
    BY Zenon, <1>2, <1>3, <1>4 DEF OutputInv, OutputTypes, data
  <1>8. EarlyInv'
    BY <1>6 DEF EarlyInv, Early
  <1>9. Shows(line \o fifo, order)'
    BY <1>1, <1>2, <1>7, ShowsNothing DEF OutputTypes, Early, data
  <1> QED
    BY <1>2, <1>7, <1>8, <1>9 DEF OutputInv, DrainInv, LateInv

\* myprintf, and the log is where the message goes.
LEMMA EarlyFormat ==
    ASSUME IInv, OutputInv, status = "down", Format(Task(Boot))
    PROVE  OutputInv'
  <1> DEFINE b == Task(Boot)
             m == Message(b)
  <1>1. PICK s \in Scripts, n \in Nat : Early(s[b], n)
    BY EarlyWitness DEF OutputInv
  <1>2. /\ pc[b] = "format" /\ pc' = [pc EXCEPT ![b] = "record"]
        /\ UNCHANGED <<script, status, online, irqon, log, line, fifo>>
    BY DEF Format, At, GoTo, lockVars, uart
  <1>d. /\ buf' = TextOf(m) /\ order' = Append(order, m)
        /\ pos' = [pos EXCEPT ![b] = [i |-> 1, cr |-> FALSE, len |-> Len(Text)]]
    BY DEF Format
  <1>3. pc'[b] = "record" /\ \A g \in Frames : g # b => pc'[g] = pc[g]
    BY Zenon, <1>2, BootFrame, Moves
  <1>4. Alone' /\ \A g \in Frames : g # b => pc[g] \in {"out", "off"}
    BY Zenon, <1>1, <1>2, <1>3, StaysAlone DEF Early
  <1>5. m \in Messages
    BY ConsoleAssumption, FrameFacts DEF Message, Messages, IInv, Types
  <1>6. /\ order \in Seq(Messages) /\ order' \in Seq(Messages) /\ Len(order') = Len(order) + 1
        /\ order'[Len(order')] = m /\ \A k \in 1 .. Len(order) : order'[k] = order[k]
    BY <1>d, <1>5 DEF OutputInv, OutputTypes
  <1>7. Early(s[b], n)'
    <2>1. Len(order) = n /\ Len(order) - 0 = Len(order) /\ Logged(Len(order))
      BY <1>1, <1>2, <1>6 DEF Early
    <2>2. Len(order') - 1 = Len(order)
      BY <1>6
    <2>3. Logged(Len(order) - 1)'
      <3>1. Len(order) <= Len(order') /\ Len(log') = Len(order) * Len(Text)
        BY <1>2, <1>6, <2>1 DEF Logged
      <3>2. ASSUME NEW j \in 1 .. Len(order), NEW k \in DOMAIN Text
            PROVE  log'[(j - 1) * Len(Text) + k] = <<order'[j], Text[k]>>
        <4>1. order'[j] = order[j] /\ log' = log
          BY <1>2, <1>6
        <4> QED
          BY <2>1, <4>1 DEF Logged
      <3> QED
        BY Zenon, <2>2, <3>1, <3>2 DEF Logged
    <2>4. Printed(s[b], n)'
      BY <1>1, <1>2 DEF Early, Printed
    <2> QED
      BY <1>1, <1>2, <1>3, <1>4, <1>6, <2>1, <2>3, <2>4 DEF Early, Inside, Holding
  <1>8. OutputTypes'
    <2>1. /\ pos' \in [Frames -> Cursor]
          /\ pos'[b].len = Len(Text)
      <3> DEFINE r == [i |-> 1, cr |-> FALSE, len |-> Len(Text)]
      <3>1. r \in Cursor /\ r.i = 1 /\ r.len = Len(Text) /\ r.cr = FALSE
        BY ColumnFacts DEF Cursor
      <3>2. pos \in [Frames -> Cursor] /\ pos' = [pos EXCEPT ![b] = r]
        BY Zenon, <1>d DEF OutputInv, OutputTypes
      <3> HIDE DEF r
      <3> QED
        BY Zenon, <3>1, <3>2, BootFrame, CursorStep
    <2>2. order' # <<>> /\ buf' = TextOf(order'[Len(order')])
      BY <1>d, <1>6
    <2>3. \A g \in Frames : pc'[g] \notin {"poll", "write", "drainwrite"}
                            /\ (pc'[g] = "record" => g = b)
      BY <1>3, <1>4
    <2> QED
      BY <1>2, <1>6, <2>1, <2>2, <2>3 DEF OutputInv, OutputTypes
  <1>9. EarlyInv'
    BY <1>7 DEF EarlyInv, Early
  <1>10. Shows(line \o fifo, order)'
    <2>1. (line \o fifo)' = <<>>
      BY <1>1, <1>2 DEF Early
    <2> QED
      BY <1>6, <2>1, ShowsNothing
  <1> QED
    BY <1>2, <1>8, <1>9, <1>10 DEF OutputInv, DrainInv, LateInv

\* The copy into the log, which has room for it.
LEMMA EarlyRecord ==
    ASSUME IInv, OutputInv, status = "down", Record(Task(Boot))
    PROVE  OutputInv'
  <1> DEFINE b == Task(Boot)
             m == order[Len(order)]
  <1>1. PICK s \in Scripts, n \in Nat : Early(s[b], n)
    BY EarlyWitness DEF OutputInv
  <1>2. /\ pc[b] = "record" /\ pc' = [pc EXCEPT ![b] = "unlock"]
        /\ UNCHANGED <<script, status, online, irqon, order, line, fifo, pos, buf>>
    BY DEF Record, At, GoTo, lockVars, uart
  <1>d. log' = log \o SubSeq(buf, 1, pos[b].len)
    BY DEF Record
  <1>3. pc'[b] = "unlock" /\ \A g \in Frames : g # b => pc'[g] = pc[g]
    BY Zenon, <1>2, BootFrame, Moves
  <1>4. Alone' /\ \A g \in Frames : g # b => pc[g] \in {"out", "off"}
    BY Zenon, <1>1, <1>2, <1>3, StaysAlone DEF Early
  <1>5. /\ order \in Seq(Messages) /\ log \in Seq(Chars) /\ order # <<>>
        /\ buf = TextOf(m) /\ pos[b].len = Len(Text)
    BY <1>2, ConsoleAssumption, FrameFacts DEF OutputInv, OutputTypes
  <1>6. /\ m \in Messages /\ log' = log \o TextOf(m)
        /\ TextOf(m) \in Seq(Chars) /\ Len(TextOf(m)) = Len(Text)
    <2>1. m \in Messages
      BY <1>5
    <2> QED
      BY Zenon, <1>d, <1>5, <2>1, TextFacts
  <1>7. Len(order) = n + 1 /\ Len(order) - 1 = n /\ Logged(n) /\ Printed(s[b], n)
        /\ script[b][1] = "print"
    BY <1>1, <1>2, <1>5 DEF Early, Inside, Holding
  <1>8. /\ log' \in Seq(Chars) /\ Len(log') = (n + 1) * Len(Text)
        /\ \A j \in 1 .. n, k \in DOMAIN Text :
                log'[(j - 1) * Len(Text) + k] = log[(j - 1) * Len(Text) + k]
        /\ \A k \in DOMAIN Text : log'[n * Len(Text) + k] = TextOf(m)[k]
    <2>1. Len(log) = n * Len(Text)
      BY <1>7 DEF Logged
    <2>2. log \in Seq(Chars) /\ TextOf(m) \in Seq(Chars) /\ Len(TextOf(m)) = Len(Text)
      BY Zenon, <1>5, <1>6
    <2>3. log' = log \o TextOf(m)
      BY Zenon, <1>6
    <2> DEFINE t == TextOf(m)
               new == log \o t
    <2> HIDE DEF t
    <2>4. log \in Seq(Chars) /\ t \in Seq(Chars) /\ Len(t) = Len(Text) /\ log' = new
      BY Zenon, <2>2, <2>3 DEF t
    <2>5. new \in Seq(Chars) /\ Len(new) = (n + 1) * Len(Text)
      BY Zenon, <2>1, <2>4, LogAppend
    <2>6. \A j \in 1 .. n, k \in DOMAIN Text :
              new[(j - 1) * Len(Text) + k] = log[(j - 1) * Len(Text) + k]
      BY Zenon, <2>1, <2>4, LogAppend
    <2>7. \A k \in DOMAIN Text : new[n * Len(Text) + k] = t[k]
      BY Zenon, <2>1, <2>4, LogAppend
    <2> HIDE DEF new
    <2> QED
      BY Zenon, <2>4, <2>5, <2>6, <2>7 DEF t
  <1>9. Logged(n + 1)'
    <2>1. ASSUME NEW j \in 1 .. n + 1, NEW k \in DOMAIN Text
          PROVE  log'[(j - 1) * Len(Text) + k] = <<order[j], Text[k]>>
      <3>1. CASE j \in 1 .. n
        <4>1. log[(j - 1) * Len(Text) + k] = <<order[j], Text[k]>>
          BY Zenon, <1>7, <3>1 DEF Logged
        <4> QED
          BY Zenon, <1>8, <3>1, <4>1
      <3>2. CASE j = n + 1
        <4>1. j - 1 = n /\ order[j] = m
          BY <1>7, <3>2
        <4>2. log'[n * Len(Text) + k] = TextOf(m)[k]
          BY Zenon, <1>8
        <4>3. TextOf(m)[k] = <<m, Text[k]>>
          BY Zenon, <1>6, TextFacts, ColumnFacts
        <4> QED
          BY Zenon, <4>1, <4>2, <4>3
      <3> QED
        BY <3>1, <3>2
    <2>2. n + 1 <= Len(order) /\ order' = order /\ Len(log') = (n + 1) * Len(Text)
      BY <1>2, <1>7, <1>8
    <2> HIDE DEF m
    <2> QED
      BY <2>1, <2>2 DEF Logged
  <1>10. Len(log') <= LogBufLen
    <2>1. /\ script[b] \in Seq(CallNames) /\ script[b] # <<>> /\ s[b] \in Seq(CallNames)
      BY <1>2, ConsoleAssumption, ScriptAssumption, FrameFacts DEF IInv, Types
    <2>2. Len(script[b]) >= 1
      BY <2>1
    <2>3. n + 1 \in DOMAIN s[b] /\ s[b][n + 1] = "print"
      BY <1>7, <2>1, <2>2 DEF Printed
    <2>4. \A k \in 1 .. (n + 1) - 1 : s[b][k] = "print"
      BY <1>7 DEF Printed
    <2>5. (n + 1) * Len(Text) <= LogBufLen
      BY <2>3, <2>4, EarlyLogAssumption
    <2> QED
      BY <1>8, <2>5
  <1>11. Early(s[b], n)'
    <2>1. Len(order') = n + 1 /\ Len(order') - 0 = n + 1
      BY <1>2, <1>7
    <2>2. Printed(s[b], n)'
      BY <1>2, <1>7 DEF Printed
    <2> QED
      BY <1>1, <1>2, <1>3, <1>4, <1>7, <1>9, <2>1, <2>2 DEF Early, Inside, Holding
  <1>12. OutputTypes'
    BY Zenon, <1>2, <1>3, <1>4, <1>8, <1>10 DEF OutputInv, OutputTypes
  <1>13. EarlyInv'
    BY <1>11 DEF EarlyInv, Early
  <1>14. Shows(line \o fifo, order)'
    <2>1. (line \o fifo)' = <<>> /\ order' \in Seq(Messages)
      BY <1>1, <1>2, <1>5 DEF Early
    <2> QED
      BY <2>1, ShowsNothing
  <1> QED
    BY <1>2, <1>12, <1>13, <1>14 DEF OutputInv, DrainInv, LateInv

\* init_printf_done turns the status and starts its loop.
LEMMA EarlyDone ==
    ASSUME IInv, OutputInv, status = "down", init_printf_done(Task(Boot))
    PROVE  OutputInv'
  <1> DEFINE b == Task(Boot)
  <1>1. PICK s \in Scripts, n \in Nat : Early(s[b], n)
    BY EarlyWitness DEF OutputInv
  <1>2. /\ pc[b] = "out" /\ pc' = [pc EXCEPT ![b] = "drainpoll"] /\ status' = "ready"
        /\ UNCHANGED <<online, irqon, order, log, line, fifo, buf>>
    BY DEF init_printf_done, Calls, At, GoTo, lockVars, uart
  <1>d. pos' = [pos EXCEPT ![b] = [i |-> 1, cr |-> FALSE, len |-> 0]]
    BY DEF init_printf_done
  <1>3. pc'[b] = "drainpoll" /\ \A g \in Frames : g # b => pc'[g] = pc[g]
    BY Zenon, <1>2, BootFrame, Moves
  <1>4. Alone' /\ \A g \in Frames : g # b => pc[g] \in {"out", "off"}
    BY Zenon, <1>1, <1>2, <1>3, StaysAlone DEF Early
  <1>5. /\ pos' \in [Frames -> Cursor]
        /\ pos'[b].i = 1 /\ pos'[b].cr = FALSE
    <2> DEFINE r == [i |-> 1, cr |-> FALSE, len |-> 0]
    <2>1. r \in Cursor /\ r.i = 1 /\ r.len = 0 /\ r.cr = FALSE
      BY DEF Cursor
    <2>2. pos \in [Frames -> Cursor] /\ pos' = [pos EXCEPT ![b] = r]
      BY Zenon, <1>d DEF OutputInv, OutputTypes
    <2> HIDE DEF r
    <2> QED
      BY Zenon, <2>1, <2>2, BootFrame, CursorStep
  <1>6. OutputTypes'
    BY <1>2, <1>3, <1>4, <1>5 DEF OutputInv, OutputTypes
  <1>7. /\ order \in Seq(Messages) /\ Len(order) - 0 = Len(order) /\ Logged(Len(order))
        /\ Len((line \o fifo)') = 0
    BY <1>1, <1>2 DEF Early, OutputInv, OutputTypes
  <1>8. DrainInv'
    <2>1. Logged(Len(order))'
      BY <1>2, <1>7 DEF Logged
    <2>2. 0 \in 0 .. Len(order') /\ 1 \in DOMAIN Text /\ 1 = 0 * Len(Text) + 1
      BY <1>2, <1>7, ColumnFacts
    <2>3. Sent(0, 1, FALSE)'
      BY <1>7, ColumnFacts DEF Sent
    <2>4. Sent(0, 1, pos[b].cr)'
      BY Zenon, <1>5, <2>3
    <2> QED
      BY <1>2, <1>3, <1>4, <1>5, <2>1, <2>2, <2>4 DEF DrainInv
  <1>9. LateInv'
    <2>1. SUFFICES ASSUME log' = <<>> PROVE LateInv'
      BY DEF LateInv
    <2>2. Len(order) = 0
      <3>1. Len(order) * Len(Text) = 0
        BY <1>2, <1>7, <2>1 DEF Logged
      <3> QED
        BY <1>7, <3>1, ColumnFacts
    <2>3. Len((line \o fifo)') = Len(order') * Width
      BY <1>2, <1>7, <2>2, ColumnFacts
    <2> QED
      BY <1>3, <1>4, <2>3 DEF LateInv
  <1>10. Shows(line \o fifo, order)'
    BY <1>2 DEF OutputInv
  <1>11. EarlyInv'
    BY <1>2 DEF EarlyInv
  <1> QED
    BY <1>6, <1>8, <1>9, <1>10, <1>11 DEF OutputInv

\* Every step of the boot CPU's task before the UART is up.
LEMMA EarlyNext ==
    ASSUME IInv, OutputInv, status = "down", NEW f \in Frames, Step(f)
    PROVE  OutputInv'
  <1> DEFINE b == Task(Boot)
  <1>1. PICK s \in Scripts, n \in Nat : Early(s[b], n)
    BY EarlyWitness DEF OutputInv
  <1>2. f = b
    BY <1>1, BootOnly DEF Early
  <1>3. pc[b] \notin {"poll", "write", "drainpoll", "drainwrite"}
    BY <1>1 DEF Early
  <1>4. ASSUME NEW call, Calls(b, call)
        PROVE  call \in {"print", "done"} /\ script[b][1] = call
    <2>1. /\ script[b] \in Seq(CallNames) /\ script[b] # <<>> /\ s[b] \in Seq(CallNames)
          /\ Head(script[b]) = call
      BY <1>4, ConsoleAssumption, ScriptAssumption, FrameFacts DEF IInv, Types, Calls
    <2>2. Len(script[b]) >= 1 /\ script[b][1] = call
      BY <2>1
    <2>3. n + 1 \in DOMAIN s[b] /\ s[b][n + 1] = call
      BY <1>1, <2>1, <2>2 DEF Early, Printed
    <2>4. \A k \in 1 .. (n + 1) - 1 : s[b][k] = "print"
      BY <1>1 DEF Early, Printed
    <2> QED
      BY <2>2, <2>3, <2>4, EarlyLogAssumption
  <1>5. CASE printk(b)
    <2>1. /\ pc[b] = "out" /\ script[b][1] = "print" /\ pc' = [pc EXCEPT ![b] = "ldr"]
          /\ UNCHANGED <<status, online, irqon, script, data>>
      BY <1>4, <1>5 DEF printk, Calls, At, GoTo, lockVars, uart, data
    <2> QED
      BY <2>1, EarlyControl
  <1>6. CASE Ldr(b)
    <2>1. /\ pc[b] = "ldr" /\ pc' = [pc EXCEPT ![b] = "ldaxr"]
          /\ UNCHANGED <<status, online, irqon, script, data>>
      BY <1>6 DEF Ldr, At, GoTo, lockVars, uart, data
    <2> QED
      BY <2>1, EarlyControl
  <1>7. CASE Ldaxr(b)
    <2>1. PICK l \in {"stxr", "ldr"} : pc' = [pc EXCEPT ![b] = l]
      BY Zenon, <1>7 DEF Ldaxr, GoTo
    <2>2. /\ pc[b] = "ldaxr" /\ UNCHANGED <<status, online, irqon, script, data>>
      BY <1>7 DEF Ldaxr, At, GoTo, lockVars, uart, data
    <2> QED
      BY Zenon, <2>1, <2>2, EarlyControl
  <1>8. CASE Stxr(b)
    <2>1. PICK l \in {"format", "ldr"} : pc' = [pc EXCEPT ![b] = l]
      BY <1>8 DEF Stxr, GoTo
    <2>2. /\ pc[b] = "stxr" /\ UNCHANGED <<status, online, irqon, script, data>>
      BY <1>8 DEF Stxr, At, GoTo, lockVars, uart, data
    <2> QED
      BY Zenon, <2>1, <2>2, EarlyControl
  <1>9. CASE Unlock(b)
    <2>1. /\ pc[b] = "unlock" /\ pc' = [pc EXCEPT ![b] = "restore"]
          /\ UNCHANGED <<status, online, irqon, script, data>>
      BY <1>3, <1>9 DEF Unlock, At, GoTo, lockVars, uart, data
    <2> QED
      BY <2>1, EarlyControl
  <1>10. ~ (uart_poll(b) \/ uart_write(b) \/ DrainEnd(b))
    BY <1>3 DEF uart_poll, uart_write, DrainEnd, At
  <1>11. /\ ~ (\E call \in {"forbid", "ready"} : SetStatus(b, call))
         /\ ~ local_interrupt_enable(b) /\ ~ smp_init(b)
    <2>1. \A call \in {"forbid", "ready", "irqon", "start"} : ~ Calls(b, call)
      BY <1>4
    <2> QED
      BY Zenon, <2>1 DEF SetStatus, local_interrupt_enable, smp_init
  <1> QED
    BY <1>2, <1>5, <1>6, <1>7, <1>8, <1>9, <1>10, <1>11,
       EarlyRestore, EarlyFormat, EarlyRecord, EarlyDone DEF Step

\* One uart_send of putchar, in either loop: the k-th character of the n-th
\* message or its '\r' is next.
LEMMA WriteChar ==
    ASSUME OutputTypes, Shows(line \o fifo, order), NEW f \in Frames, uart_write(f),
           NEW n \in 1 .. Len(order), NEW k \in DOMAIN Text,
           Source(f)[pos[f].i] = <<order[n], Text[k]>>,
           pos[f].cr => Text[k] = "nl", Len(fifo) < FifoDepth,
           Len(line \o fifo) = (n - 1) * Width + Column(k - 1) + IF pos[f].cr THEN 1 ELSE 0
    PROVE  /\ Shows(line \o fifo, order)'
           /\ fifo' \in Seq(Chars) /\ Len(fifo') <= FifoDepth
           /\ pos' \in [Frames -> Cursor]
           /\ \A g \in Frames : g # f => pos'[g] = pos[g]
           /\ pos'[f].len = pos[f].len
           /\ \/ /\ Text[k] = "nl" /\ pos'[f].i = pos[f].i /\ pos'[f].cr = TRUE
                 /\ Len((line \o fifo)') = (n - 1) * Width + Column(k - 1) + 1
              \/ /\ pos'[f].i = pos[f].i + 1 /\ pos'[f].cr = FALSE
                 /\ Len((line \o fifo)') = (n - 1) * Width + Column(k)
  <1> DEFINE char == Source(f)[pos[f].i]
  <1>1. char[1] = order[n] /\ char[2] = Text[k] /\ char = <<order[n], Text[k]>>
    BY SMT, CharParts
  <1>2. line' = line /\ order' = order
    BY DEF uart_write
  <1>3. order \in Seq(Messages) /\ fifo \in Seq(Chars) /\ line \in Seq(Chars)
        /\ order[n] \in Messages
    BY DEF OutputTypes
  <1>4. /\ pos \in [Frames -> Cursor] /\ pos[f] \in Cursor
        /\ pos[f].i \in Nat \ {0} /\ pos[f].i + 1 \in Nat \ {0} /\ pos[f].len \in Nat
    BY DEF OutputTypes, Cursor
  <1>5. /\ Column(k) = Column(k - 1) + IF Text[k] = "nl" THEN 2 ELSE 1
        /\ Column(k) \in Nat /\ Column(k - 1) \in Nat /\ Width \in Nat
        /\ (n - 1) * Width \in Int
    <2>1. k \in 1 .. Len(Text) /\ k \in 0 .. Len(Text) /\ k - 1 \in 0 .. Len(Text)
      BY ColumnFacts
    <2>2. n - 1 \in Nat
      BY <1>3
    <2>3. Len(Text) \in 0 .. Len(Text)
      BY ColumnFacts
    <2>4. /\ Column(k) = Column(k - 1) + IF Text[k] = "nl" THEN 2 ELSE 1
          /\ Column(k) \in Nat /\ Column(k - 1) \in Nat /\ Width \in Nat
      BY Zenon, <2>1, <2>3, ColumnFacts
    <2> QED
      BY <2>2, <2>4
  <1>6. ASSUME NEW e \in Chars, fifo' = Append(fifo, e)
        PROVE  /\ (line \o fifo)' = Append(line \o fifo, e)
               /\ Len((line \o fifo)') = Len(line \o fifo) + 1
               /\ line \o fifo \in Seq(Chars) /\ Len(line \o fifo) \in Nat
               /\ fifo' \in Seq(Chars) /\ Len(fifo') <= FifoDepth
    BY Zenon, <1>2, <1>3, <1>6, PutOut
  <1>7. CASE Text[k] = "nl" /\ ~pos[f].cr
    <2> DEFINE e == <<order[n], "cr">>
    <2>1. fifo' = Append(fifo, e)
      BY <1>1, <1>7 DEF uart_write
    <2>2. pos' = [pos EXCEPT ![f] = [i |-> pos[f].i, cr |-> TRUE, len |-> pos[f].len]]
      BY Zenon, <1>1, <1>4, <1>7 DEF uart_write
    <2>3. e \in Chars
      BY <1>3 DEF Chars, Letters
    <2>4. Len(line \o fifo) + 1 = Place(n, k) - 1
      BY <1>5, <1>7 DEF Place
    <2>5. /\ pos' \in [Frames -> Cursor]
          /\ \A g \in Frames : g # f => pos'[g] = pos[g]
          /\ pos'[f].len = pos[f].len /\ pos'[f].i = pos[f].i /\ pos'[f].cr = TRUE
      <3> DEFINE r == [i |-> pos[f].i, cr |-> TRUE, len |-> pos[f].len]
      <3>1. r \in Cursor /\ r.i = pos[f].i /\ r.len = pos[f].len /\ r.cr = TRUE
        BY Zenon, <1>4, CursorParts
      <3>2. pos \in [Frames -> Cursor] /\ pos' = [pos EXCEPT ![f] = r]
        BY Zenon, <1>4, <2>2
      <3> HIDE DEF r
      <3> QED
        BY Zenon, <3>1, <3>2, CursorStep
    <2> HIDE DEF e
    <2>6. Shows(Append(line \o fifo, e), order)
      BY Zenon, <1>3, <1>6, <1>7, <2>1, <2>3, <2>4, PutChar DEF e
    <2>7. Len((line \o fifo)') = (n - 1) * Width + Column(k - 1) + 1
      BY <1>5, <1>6, <1>7, <2>1, <2>3
    <2>8. Shows(line \o fifo, order)'
      BY Zenon, <1>2, <1>6, <2>1, <2>3, <2>6
    <2> QED
      BY Zenon, <1>6, <1>7, <2>1, <2>3, <2>5, <2>7, <2>8
  <1>8. CASE ~ (Text[k] = "nl" /\ ~pos[f].cr)
    <2> DEFINE e == <<order[n], Text[k]>>
    <2>1. fifo' = Append(fifo, e)
      BY <1>1, <1>8 DEF uart_write
    <2>2. pos' = [pos EXCEPT ![f] = [i |-> pos[f].i + 1, cr |-> FALSE, len |-> pos[f].len]]
      BY Zenon, <1>1, <1>4, <1>8 DEF uart_write
    <2>3. e \in Chars
      BY <1>3 DEF Chars, Letters
    <2>4. Len(line \o fifo) + 1 = Place(n, k)
      BY <1>5, <1>8 DEF Place
    <2>5. /\ pos' \in [Frames -> Cursor]
          /\ \A g \in Frames : g # f => pos'[g] = pos[g]
          /\ pos'[f].len = pos[f].len /\ pos'[f].i = pos[f].i + 1 /\ pos'[f].cr = FALSE
      <3> DEFINE r == [i |-> pos[f].i + 1, cr |-> FALSE, len |-> pos[f].len]
      <3>1. r \in Cursor /\ r.i = pos[f].i + 1 /\ r.len = pos[f].len /\ r.cr = FALSE
        BY Zenon, <1>4, CursorParts
      <3>2. pos \in [Frames -> Cursor] /\ pos' = [pos EXCEPT ![f] = r]
        BY Zenon, <1>4, <2>2
      <3> HIDE DEF r
      <3> QED
        BY Zenon, <3>1, <3>2, CursorStep
    <2> HIDE DEF e
    <2>6. Shows(Append(line \o fifo, e), order)
      BY Zenon, <1>3, <1>6, <2>1, <2>3, <2>4, PutChar DEF e
    <2>7. Len((line \o fifo)') = (n - 1) * Width + Column(k)
      BY <1>5, <1>6, <2>1, <2>3, <2>4 DEF Place
    <2>8. Shows(line \o fifo, order)'
      BY Zenon, <1>2, <1>6, <2>1, <2>3, <2>6
    <2> QED
      BY <1>6, <2>1, <2>3, <2>5, <2>7, <2>8
  <1> QED
    BY Zenon, <1>7, <1>8

\* DrainInv, for the n messages that are sent and the index k in the next one.
Draining(n, k) ==
    LET b == Task(Boot) IN
    /\ n \in 0 .. Len(order) /\ k \in DOMAIN Text
    /\ pos[b].i = n * Len(Text) + k
    /\ Sent(n, k, pos[b].cr)
    /\ pos[b].cr => Text[k] = "nl"
    /\ n = Len(order) => k = 1 /\ ~pos[b].cr

\* The loop of init_printf_done waits for the FIFO ...
LEMMA DrainPoll ==
    ASSUME IInv, OutputInv, status # "down", log # <<>>, uart_poll(Task(Boot))
    PROVE  OutputInv'
  <1> DEFINE b == Task(Boot)
  <1>1. Alone /\ status = "ready" /\ pc[b] \in {"drainpoll", "drainwrite"}
    BY Zenon DEF OutputInv, DrainInv
  <1>2. /\ pc[b] = "drainpoll" /\ pc' = [pc EXCEPT ![b] = "drainwrite"]
        /\ pos[b].i <= Len(log) /\ Len(fifo) < FifoDepth
        /\ UNCHANGED <<status, online, irqon, data>>
    BY Zenon, <1>1 DEF uart_poll, At, GoTo, Limit, lockVars, uart, data
  <1>3. pc'[b] = "drainwrite" /\ \A g \in Frames : g # b => pc'[g] = pc[g]
    BY Zenon, <1>2, BootFrame, Moves
  <1>4. Alone' /\ \A g \in Frames : g # b => pc[g] \in {"out", "off"}
    BY Zenon, <1>1, <1>2, <1>3, StaysAlone
  <1>5. OutputTypes'
    BY <1>2, <1>3, <1>4 DEF OutputInv, OutputTypes, data, Limit
  <1>6. DrainInv'
    BY <1>1, <1>2, <1>3, <1>4 DEF OutputInv, DrainInv, data, Logged, Sent
  <1> QED
    BY <1>2, <1>5, <1>6 DEF OutputInv, EarlyInv, LateInv, data

\* ... writes the next character of the log ...
LEMMA DrainWrite ==
    ASSUME IInv, OutputInv, status # "down", log # <<>>, uart_write(Task(Boot))
    PROVE  OutputInv'
  <1> DEFINE b == Task(Boot)
             L == Len(Text)
  <1>1. /\ Alone /\ status = "ready" /\ pc[b] \in {"drainpoll", "drainwrite"}
        /\ Logged(Len(order))
    BY Zenon DEF OutputInv, DrainInv
  <1>2. /\ pc[b] = "drainwrite" /\ pc' = [pc EXCEPT ![b] = "drainpoll"]
        /\ UNCHANGED <<status, online, irqon, order, log, buf, line>>
    BY Zenon, <1>1 DEF uart_write, At, GoTo, lockVars
  <1>3. pc'[b] = "drainpoll" /\ \A g \in Frames : g # b => pc'[g] = pc[g]
    BY Zenon, <1>2, BootFrame, Moves
  <1>4. Alone' /\ \A g \in Frames : g # b => pc[g] \in {"out", "off"}
    BY Zenon, <1>1, <1>2, <1>3, StaysAlone
  <1>5. PICK n \in 0 .. Len(order), k \in DOMAIN Text : Draining(n, k)
    BY Zenon DEF OutputInv, DrainInv, Draining
  <1>6. /\ order \in Seq(Messages) /\ Len(order) \in Nat /\ L \in Nat \ {0}
        /\ DOMAIN Text = 1 .. L /\ b \in Frames /\ OutputTypes /\ Shows(line \o fifo, order)
        /\ pos[b].i <= Len(log) /\ Len(fifo) < FifoDepth
    <2>1. b \in Frames /\ L \in Nat \ {0} /\ DOMAIN Text = 1 .. L
      BY ConsoleAssumption, FrameFacts, ColumnFacts
    <2>2. OutputTypes /\ Shows(line \o fifo, order)
      BY DEF OutputInv
    <2>3. order \in Seq(Messages) /\ Len(order) \in Nat
      BY <2>2 DEF OutputTypes
    <2>4. Len(fifo) < FifoDepth /\ pos[b].i <= Len(log)
      BY Zenon, <1>2, <2>1, <2>2 DEF OutputTypes, Limit
    <2> QED
      BY <2>1, <2>2, <2>3, <2>4
  <1>7. n < Len(order) /\ n + 1 \in 1 .. Len(order)
    <2>1. n # Len(order)
      <3>1. Len(log) = Len(order) * L /\ Len(order) * L \in Nat
        BY <1>1, <1>6 DEF Logged
      <3>2. n = Len(order) => pos[b].i = Len(order) * L + 1
        BY <1>5 DEF Draining
      <3> QED
        BY <1>6, <3>1, <3>2
    <2> QED
      BY <1>6, <2>1
  <1>8. Source(b)[pos[b].i] = <<order[n + 1], Text[k]>>
    <2>1. (n + 1) - 1 = n
      OBVIOUS
    <2>2. log[n * L + k] = <<order[n + 1], Text[k]>>
      BY <1>1, <1>7, <2>1 DEF Logged
    <2> QED
      BY <1>2, <1>5, <2>2 DEF Source, Draining
  <1>9. Len(line \o fifo) = ((n + 1) - 1) * Width + Column(k - 1) + IF pos[b].cr THEN 1 ELSE 0
    <2>1. (n + 1) - 1 = n
      OBVIOUS
    <2> QED
      BY <1>5, <2>1 DEF Draining, Sent
  <1>10. /\ Shows(line \o fifo, order)'
         /\ fifo' \in Seq(Chars) /\ Len(fifo') <= FifoDepth
         /\ pos' \in [Frames -> Cursor]
         /\ \/ /\ Text[k] = "nl" /\ pos'[b].i = pos[b].i /\ pos'[b].cr = TRUE
               /\ Len((line \o fifo)') = ((n + 1) - 1) * Width + Column(k - 1) + 1
            \/ /\ pos'[b].i = pos[b].i + 1 /\ pos'[b].cr = FALSE
               /\ Len((line \o fifo)') = ((n + 1) - 1) * Width + Column(k)
    BY Zenon, <1>5, <1>6, <1>7, <1>8, <1>9, WriteChar DEF Draining
  <1>11. OutputTypes'
    BY Zenon, <1>2, <1>3, <1>4, <1>6, <1>10 DEF OutputTypes
  <1>12. \E j \in 0 .. Len(order'), l \in DOMAIN Text : Draining(j, l)'
    <2>1. /\ (n + 1) - 1 = n /\ (k + 1) - 1 = k /\ 1 - 1 = 0
          /\ n \in 0 .. Len(order) /\ n # Len(order) /\ n + 1 \in 0 .. Len(order)
          /\ k \in 1 .. L /\ (k < L => k + 1 \in 1 .. L) /\ 1 \in 1 .. L /\ (k < L \/ k = L)
      BY <1>6, <1>7
    <2>2. /\ Column(k) \in Nat /\ Column(k - 1) \in Nat /\ Column(0) = 0
          /\ Width = Column(L) /\ Width \in Nat
      BY <2>1, ColumnFacts
    <2>3. /\ n * L \in Nat /\ (n + 1) * L = n * L + L
          /\ n * Width \in Nat /\ (n + 1) * Width = n * Width + Width
      BY <1>6, <2>2
    <2>4. order' = order /\ pos[b].i = n * L + k
      BY Zenon, <1>2, <1>5 DEF Draining
    <2>5. CASE /\ Text[k] = "nl" /\ pos'[b].i = pos[b].i /\ pos'[b].cr = TRUE
               /\ Len((line \o fifo)') = ((n + 1) - 1) * Width + Column(k - 1) + 1
      <3>1. Sent(n, k, TRUE)'
        BY <2>1, <2>5 DEF Sent
      <3>2. Draining(n, k)'
        BY Zenon, <2>1, <2>4, <2>5, <3>1 DEF Draining
      <3> QED
        BY Zenon, <2>1, <2>4, <3>2
    <2>6. CASE /\ pos'[b].i = pos[b].i + 1 /\ pos'[b].cr = FALSE
               /\ Len((line \o fifo)') = ((n + 1) - 1) * Width + Column(k)
      <3>c. Len((line \o fifo)') = n * Width + Column(k)
        BY Zenon, <2>1, <2>6
      <3>1. CASE k < L
        <4>1. k + 1 \in DOMAIN Text
          BY Zenon, <1>6, <2>1, <3>1
        <4>2. pos'[b].i = n * L + (k + 1)
          BY <2>1, <2>3, <2>4, <2>6
        <4>3. Sent(n, k + 1, FALSE)'
          BY <2>1, <2>2, <2>3, <3>c DEF Sent
        <4>4. Draining(n, k + 1)'
          BY Zenon, <2>1, <2>4, <2>6, <4>1, <4>2, <4>3 DEF Draining
        <4> QED
          BY Zenon, <2>1, <2>4, <4>1, <4>4
      <3>2. CASE k = L
        <4>1. 1 \in DOMAIN Text
          BY Zenon, <1>6, <2>1
        <4>2. pos'[b].i = (n + 1) * L + 1
          BY <1>6, <2>3, <2>4, <2>6, <3>2
        <4>3. Sent(n + 1, 1, FALSE)'
          <5>1. Len((line \o fifo)') = (n + 1) * Width
            BY Zenon, <2>2, <2>3, <3>c, <3>2
          <5> QED
            BY <2>1, <2>2, <2>3, <5>1 DEF Sent
        <4>4. Draining(n + 1, 1)'
          BY Zenon, <2>1, <2>4, <2>6, <4>1, <4>2, <4>3 DEF Draining
        <4> QED
          BY Zenon, <2>1, <2>4, <4>1, <4>4
      <3> QED
        BY Zenon, <2>1, <3>1, <3>2
    <2> QED
      BY Zenon, <1>10, <2>5, <2>6
  <1>13. DrainInv'
    <2>1. Logged(Len(order))'
      BY <1>1, <1>2 DEF Logged
    <2> QED
      BY Zenon, <1>1, <1>2, <1>3, <1>4, <1>12, <2>1 DEF DrainInv, Draining
  <1> QED
    BY Zenon, <1>2, <1>10, <1>11, <1>13 DEF OutputInv, EarlyInv, LateInv

\* ... and empties the log when all of it is sent.
LEMMA DrainFinish ==
    ASSUME IInv, OutputInv, status # "down", log # <<>>, DrainEnd(Task(Boot))
    PROVE  OutputInv'
  <1> DEFINE b == Task(Boot)
             L == Len(Text)
  <1>1. Alone /\ status = "ready" /\ Logged(Len(order))
    BY Zenon DEF OutputInv, DrainInv
  <1>2. /\ pc[b] = "drainpoll" /\ pc' = [pc EXCEPT ![b] = "out"]
        /\ pos[b].i > Len(log) /\ log' = <<>>
        /\ UNCHANGED <<status, online, irqon, order, pos, buf, line, fifo>>
    BY DEF DrainEnd, At, GoTo, lockVars, uart
  <1>3. pc'[b] = "out" /\ \A g \in Frames : g # b => pc'[g] = pc[g]
    BY Zenon, <1>2, BootFrame, Moves
  <1>4. \A g \in Frames : pc'[g] \in {"out", "off"}
    <2>1. \A g \in Frames : g # b => pc[g] \in {"out", "off"}
      BY Zenon, <1>1, <1>2, <1>3, StaysAlone
    <2> QED
      BY <1>3, <2>1
  <1>5. PICK n \in 0 .. Len(order), k \in DOMAIN Text : Draining(n, k)
    BY DEF OutputInv, DrainInv, Draining
  <1>6. /\ order \in Seq(Messages) /\ Len(order) \in Nat /\ L \in Nat \ {0}
        /\ DOMAIN Text = 1 .. L /\ Column(0) = 0 /\ Width \in Nat
    BY ColumnFacts DEF OutputInv, OutputTypes
  <1>7. n = Len(order)
    <2>1. SUFFICES ASSUME n < Len(order) PROVE FALSE
      BY <1>6
    <2>2. PICK d \in Nat : Len(order) = n + 1 + d
      <3>1. Len(order) - n - 1 \in Nat /\ Len(order) = n + 1 + (Len(order) - n - 1)
        BY <1>6, <2>1
      <3> QED
        BY Zenon, <3>1
    <2>3. Len(order) * L = n * L + L + d * L /\ n * L \in Nat /\ d * L \in Nat
      BY <1>6, <2>2
    <2>4. Len(log) = Len(order) * L /\ pos[b].i = n * L + k /\ k <= L /\ k \in Nat
      BY <1>1, <1>5, <1>6 DEF Logged, Draining
    <2> QED
      BY <1>2, <1>6, <2>3, <2>4
  <1>8. Len(line \o fifo) = Len(order) * Width
    <2>1. Sent(Len(order), 1, FALSE) /\ 1 - 1 = 0 /\ Len(order) * Width \in Nat
      BY <1>5, <1>6, <1>7 DEF Draining, OutputInv, OutputTypes, Sent
    <2> QED
      BY <1>6, <2>1 DEF Sent
  <1>9. OutputTypes'
    <2>1. log' \in Seq(Chars) /\ Len(log') <= LogBufLen
      BY <1>2, ConsoleAssumption
    <2>2. \A g \in Frames : pc'[g] \notin {"record", "poll", "write", "drainwrite"}
      BY <1>4
    <2> QED
      BY <1>2, <2>1, <2>2 DEF OutputInv, OutputTypes
  <1>10. LateInv'
    BY <1>2, <1>4, <1>8 DEF LateInv
  <1> QED
    BY Zenon, <1>1, <1>2, <1>9, <1>10 DEF OutputInv, EarlyInv, DrainInv

\* Nothing else happens on the boot CPU in that loop.
LEMMA DrainNext ==
    ASSUME IInv, OutputInv, status # "down", log # <<>>, NEW f \in Frames, Step(f)
    PROVE  OutputInv'
  <1>1. f = Task(Boot) /\ pc[f] \in {"drainpoll", "drainwrite"}
    BY BootOnly DEF OutputInv, DrainInv
  <1>2. uart_poll(f) \/ uart_write(f) \/ DrainEnd(f)
    BY Zenon, <1>1 DEF Step, printk, Ldr, Ldaxr, Stxr, Format, Record, Unlock, Restore,
                init_printf_done, SetStatus, local_interrupt_enable, smp_init, Calls, At
  <1> QED
    BY <1>1, <1>2, DrainPoll, DrainWrite, DrainFinish

\* The steps that neither begin nor continue the output of a message.
LEMMA LateControl ==
    ASSUME OutputInv, status # "down", log = <<>>,
           UNCHANGED <<order, log, fifo, line, buf>>,
           status' \in {"ready", "forbid"}, online' \subseteq Cpus,
           pos' \in [Frames -> Cursor],
           \A g \in Frames :
               \/ pc'[g] = pc[g] /\ pos'[g] = pos[g]
               \/ /\ pc[g] \notin {"poll", "write"}
                  /\ pc'[g] \notin {"record", "poll", "write", "drainwrite"}
    PROVE  OutputInv'
  <1>1. OutputTypes'
    <2>1. OutputTypes /\ \A g \in Frames : pc[g] \notin {"record", "drainwrite"}
      BY Zenon DEF OutputInv, LateInv
    <2>2. \A g \in Frames : pc'[g] \in {"poll", "write"} => pc'[g] = pc[g] /\ pos'[g] = pos[g]
      OBVIOUS
    <2>3. \A g \in Frames : pc'[g] \notin {"record", "drainwrite"}
      BY <2>1
    <2>4. \A g \in Frames : pc'[g] \in {"write", "drainwrite"} =>
              Len(fifo') < FifoDepth /\ pos'[g].i <= Limit(g)'
      BY Zenon, <2>1, <2>2, <2>3 DEF OutputTypes, Limit
    <2> QED
      BY Zenon, <2>1, <2>2, <2>3, <2>4 DEF OutputTypes
  <1>2. LateInv'
    BY DEF OutputInv, LateInv, Sent
  <1> QED
    BY Zenon, <1>1, <1>2 DEF OutputInv, EarlyInv, DrainInv

\* A message is formatted: its turn on the line comes next.
LEMMA LateFormat ==
    ASSUME IInv, OutputInv, status # "down", log = <<>>, NEW f \in Frames, Format(f)
    PROVE  OutputInv'
  <1> DEFINE m == Message(f)
  <1>2. /\ pc[f] = "format" /\ pc' = [pc EXCEPT ![f] = "poll"]
        /\ UNCHANGED <<script, status, online, irqon, log, line, fifo>>
    BY DEF Format, At, GoTo, lockVars, uart
  <1>d. /\ buf' = TextOf(m) /\ order' = Append(order, m)
        /\ pos' = [pos EXCEPT ![f] = [i |-> 1, cr |-> FALSE, len |-> Len(Text)]]
    BY DEF Format
  <1>3. pc'[f] = "poll" /\ \A g \in Frames : g # f => pc'[g] = pc[g]
    BY Zenon, <1>2, Moves
  <1>4. \A g \in Frames : pc[g] \notin {"record", "poll", "write", "drainwrite"}
    BY <1>2 DEF IInv, LockInv, LockExclusive, Holding, OutputInv, LateInv
  <1>5. m \in Messages
    BY DEF Message, Messages, IInv, Types
  <1>6. /\ order \in Seq(Messages) /\ order' \in Seq(Messages) /\ Len(order') = Len(order) + 1
        /\ order' # <<>> /\ order'[Len(order')] = m
        /\ line \o fifo \in Seq(Chars) /\ Len(order) \in Nat /\ Width \in Nat
    <2>1. order \in Seq(Messages) /\ line \in Seq(Chars) /\ fifo \in Seq(Chars)
      BY Zenon DEF OutputInv, OutputTypes
    <2>2. order' \in Seq(Messages) /\ Len(order') = Len(order) + 1 /\ Len(order) \in Nat
          /\ order' # <<>> /\ order'[Len(order')] = m
      BY <1>d, <1>5, <2>1
    <2>3. line \o fifo \in Seq(Chars) /\ Width \in Nat
      BY <2>1, ColumnFacts
    <2> QED
      BY Zenon, <2>1, <2>2, <2>3
  <1>7. /\ pos' \in [Frames -> Cursor]
        /\ pos'[f].len = Len(Text) /\ pos'[f].i = 1 /\ pos'[f].cr = FALSE
    <2> DEFINE r == [i |-> 1, cr |-> FALSE, len |-> Len(Text)]
    <2>1. r \in Cursor /\ r.i = 1 /\ r.len = Len(Text) /\ r.cr = FALSE
      BY ColumnFacts DEF Cursor
    <2>2. pos \in [Frames -> Cursor] /\ pos' = [pos EXCEPT ![f] = r]
      BY Zenon, <1>d DEF OutputInv, OutputTypes
    <2> HIDE DEF r
    <2> QED
      BY Zenon, <2>1, <2>2, CursorStep
  <1>8. Len(line \o fifo) = Len(order) * Width
    BY <1>4 DEF OutputInv, LateInv
  <1>9. OutputTypes'
    <2>1. buf' = TextOf(order'[Len(order')])
      BY <1>d, <1>6
    <2>2. \A g \in Frames : pc'[g] \notin {"record", "write", "drainwrite"}
                            /\ (pc'[g] = "poll" => g = f)
      BY <1>3, <1>4
    <2> QED
      BY <1>2, <1>6, <1>7, <2>1, <2>2 DEF OutputInv, OutputTypes
  <1>10. LateInv'
    <2>1. Sent(Len(order) - 1, 1, FALSE)'
      <3>1. Len(order') - 1 = Len(order) /\ 1 - 1 = 0 /\ Column(0) = 0 /\ Len(order) * Width \in Nat
        BY <1>6, ColumnFacts
      <3> QED
        BY <1>2, <1>8, <3>1 DEF Sent
    <2>2. Sent(Len(order) - 1, pos[f].i, pos[f].cr)'
      BY Zenon, <1>7, <2>1
    <2>3. pos'[f].i <= Len(Text) + 1
      BY <1>7, ColumnFacts
    <2>4. \A g \in Frames : pc'[g] \notin {"record", "write", "drainwrite"}
                            /\ (pc'[g] = "poll" => g = f)
      BY <1>3, <1>4
    <2> QED
      BY Zenon, <1>3, <1>7, <2>2, <2>3, <2>4 DEF LateInv
  <1>11. Shows(line \o fifo, order)'
    <2>1. Shows(line \o fifo, order) /\ Len(line \o fifo) <= Len(order) * Width
      BY <1>6, <1>8 DEF OutputInv
    <2> QED
      BY Zenon, <1>2, <1>5, <1>6, <1>d, <2>1, ShowsMore
  <1> QED
    BY <1>2, <1>9, <1>10, <1>11 DEF OutputInv, EarlyInv, DrainInv

\* printk's loop waits for the FIFO ...
LEMMA LatePoll ==
    ASSUME IInv, OutputInv, status # "down", log = <<>>, NEW f \in Frames, uart_poll(f)
    PROVE  OutputInv'
  <1>1. pc[f] = "poll"
    <2>1. pos[f].i \in Nat \ {0} /\ Len(log) = 0
      BY DEF OutputInv, OutputTypes, Cursor
    <2>2. ASSUME pc[f] = "drainpoll" PROVE FALSE
      <3>1. pos[f].i <= Len(log)
        BY Zenon, <2>2 DEF uart_poll, Limit
      <3> QED
        BY <2>1, <3>1
    <2> QED
      BY <2>2 DEF uart_poll, At
  <1>2. /\ pc' = [pc EXCEPT ![f] = "write"] /\ pos[f].i <= pos[f].len /\ Len(fifo) < FifoDepth
        /\ UNCHANGED <<status, online, irqon, data>>
    BY <1>1 DEF uart_poll, GoTo, Limit, lockVars, uart, data
  <1>3. pc'[f] = "write" /\ \A g \in Frames : g # f => pc'[g] = pc[g]
    BY Zenon, <1>2, Moves
  <1>4. \A g \in Frames : g # f => pc[g] \notin {"record", "poll", "write", "drainwrite"}
    BY Zenon, <1>1 DEF IInv, LockInv, LockExclusive, Holding, OutputInv, LateInv
  <1>5. OutputTypes'
    <2>1. pos'[f].i <= Limit(f)'
      BY <1>2, <1>3 DEF Limit, data
    <2> QED
      BY <1>1, <1>2, <1>3, <1>4, <2>1 DEF OutputInv, OutputTypes, data
  <1>6. LateInv'
    BY <1>1, <1>2, <1>3, <1>4 DEF OutputInv, LateInv, data, Sent
  <1> QED
    BY Zenon, <1>2, <1>5, <1>6 DEF OutputInv, EarlyInv, DrainInv, data

\* ... and writes the next character of the message that holds the lock.
LEMMA LateWrite ==
    ASSUME IInv, OutputInv, status # "down", log = <<>>, NEW f \in Frames, uart_write(f)
    PROVE  OutputInv'
  <1> DEFINE k == pos[f].i
             L == Len(Text)
             n == Len(order)
  <1>1. pc[f] = "write"
    BY DEF uart_write, At, OutputInv, LateInv
  <1>2. /\ pc' = [pc EXCEPT ![f] = "poll"]
        /\ UNCHANGED <<status, online, irqon, order, log, buf, line>>
    BY <1>1 DEF uart_write, GoTo, lockVars
  <1>3. pc'[f] = "poll" /\ \A g \in Frames : g # f => pc'[g] = pc[g]
    BY Zenon, <1>2, Moves
  <1>4. \A g \in Frames : g # f => pc[g] \notin {"record", "poll", "write", "drainwrite"}
    BY <1>1 DEF IInv, LockInv, LockExclusive, Holding, OutputInv, LateInv
  <1>5. /\ OutputTypes /\ Shows(line \o fifo, order) /\ L \in Nat \ {0} /\ DOMAIN Text = 1 .. L
        /\ \A j \in 0 .. L : Column(j) \in Nat
    BY ColumnFacts DEF OutputInv
  <1>6. /\ order \in Seq(Messages) /\ order # <<>> /\ buf = TextOf(order[n])
        /\ pos[f].len = L /\ k \in Nat \ {0} /\ k <= L /\ Len(fifo) < FifoDepth
    BY <1>1, <1>5 DEF OutputTypes, Limit, Cursor
  <1>7. n \in 1 .. Len(order) /\ order[n] \in Messages /\ k \in DOMAIN Text
    BY <1>5, <1>6
  <1>8. Source(f)[k] = <<order[n], Text[k]>>
    BY <1>1, <1>5, <1>6, <1>7, TextFacts DEF Source
  <1>9. /\ pos[f].cr => Text[k] = "nl"
        /\ Len(line \o fifo) = (n - 1) * Width + Column(k - 1) + IF pos[f].cr THEN 1 ELSE 0
    BY <1>1 DEF OutputInv, LateInv, Sent
  <1> HIDE DEF k, n
  <1>10. /\ Shows(line \o fifo, order)'
         /\ fifo' \in Seq(Chars) /\ Len(fifo') <= FifoDepth
         /\ pos' \in [Frames -> Cursor]
         /\ pos'[f].len = pos[f].len
         /\ \/ /\ Text[k] = "nl" /\ pos'[f].i = pos[f].i /\ pos'[f].cr = TRUE
               /\ Len((line \o fifo)') = (n - 1) * Width + Column(k - 1) + 1
            \/ /\ pos'[f].i = pos[f].i + 1 /\ pos'[f].cr = FALSE
               /\ Len((line \o fifo)') = (n - 1) * Width + Column(k)
    BY Zenon, <1>5, <1>6, <1>7, <1>8, <1>9, WriteChar DEF k
  <1>11. OutputTypes'
    <2>1. \A g \in Frames : pc'[g] \notin {"record", "write", "drainwrite"}
                            /\ (pc'[g] = "poll" => g = f)
      BY <1>3, <1>4
    <2> QED
      BY <1>2, <1>5, <1>6, <1>10, <2>1 DEF OutputTypes, n
  <1>12. LateInv'
    <2>1. /\ pos'[f].i <= L + 1
          /\ pos'[f].cr => pos'[f].i <= L /\ Text[pos'[f].i] = "nl"
      BY <1>5, <1>6, <1>10 DEF k
    <2>2. Sent(Len(order) - 1, pos[f].i, pos[f].cr)'
      <3>1. order' = order /\ k = pos[f].i /\ (k + 1) - 1 = k
        BY <1>2, <1>6 DEF k
      <3>2. Column(k - 1) \in Nat /\ Column(k) \in Nat
        <4>1. k \in 0 .. L /\ k - 1 \in 0 .. L
          BY <1>5, <1>6
        <4> QED
          BY <1>5, <4>1
      <3>3. Width \in Nat /\ n \in Nat
        BY <1>6, ColumnFacts DEF n
      <3>4. (n - 1) * Width \in Int
        BY <3>3
      <3>5. CASE /\ pos'[f].i = pos[f].i /\ pos'[f].cr = TRUE
                 /\ Len((line \o fifo)') = (n - 1) * Width + Column(k - 1) + 1
        BY <3>1, <3>2, <3>4, <3>5 DEF Sent, n
      <3>6. CASE /\ pos'[f].i = pos[f].i + 1 /\ pos'[f].cr = FALSE
                 /\ Len((line \o fifo)') = (n - 1) * Width + Column(k)
        BY <3>1, <3>2, <3>4, <3>6 DEF Sent, n
      <3> QED
        BY Zenon, <1>10, <3>5, <3>6
    <2>3. \A g \in Frames : pc'[g] \notin {"record", "write", "drainwrite"}
                            /\ (pc'[g] = "poll" => g = f)
      BY <1>3, <1>4
    <2> QED
      BY <1>3, <2>1, <2>2, <2>3 DEF LateInv
  <1> QED
    BY Zenon, <1>2, <1>10, <1>11, <1>12 DEF OutputInv, EarlyInv, DrainInv

\* The lock is released when the message is complete.
LEMMA LateUnlock ==
    ASSUME IInv, OutputInv, status # "down", log = <<>>, NEW f \in Frames, Unlock(f),
           pc[f] = "poll"
    PROVE  OutputInv'
  <1>1. /\ pc' = [pc EXCEPT ![f] = "restore"] /\ pos[f].i > pos[f].len
        /\ UNCHANGED <<status, online, irqon, data>>
    BY DEF Unlock, At, GoTo, lockVars, uart, data
  <1>2. pc'[f] = "restore" /\ \A g \in Frames : g # f => pc'[g] = pc[g]
    BY Zenon, <1>1, Moves
  <1>3. \A g \in Frames : g # f => pc[g] \notin {"record", "poll", "write", "drainwrite"}
    BY Zenon DEF IInv, LockInv, LockExclusive, Holding, OutputInv, LateInv
  <1>4. \A g \in Frames : pc'[g] \notin {"record", "poll", "write", "drainwrite"}
    BY <1>2, <1>3
  <1>5. OutputTypes'
    BY <1>1, <1>4 DEF OutputInv, OutputTypes, data
  <1>6. LateInv'
    <2>1. /\ pos[f].len = Len(Text) /\ order \in Seq(Messages) /\ Len(order) \in Nat
          /\ pos[f].i \in Nat
      BY DEF OutputInv, OutputTypes, Cursor
    <2>2. /\ pos[f].i <= Len(Text) + 1 /\ Sent(Len(order) - 1, pos[f].i, pos[f].cr)
          /\ pos[f].cr => pos[f].i <= Len(Text)
      BY Zenon DEF OutputInv, LateInv
    <2>3. pos[f].i = Len(Text) + 1 /\ (Len(Text) + 1) - 1 = Len(Text)
      BY <1>1, <2>1, <2>2, ColumnFacts
    <2>4. ~pos[f].cr
      BY <2>2, <2>3, ColumnFacts
    <2>5. Width = Column(Len(Text)) /\ Width \in Nat
          /\ Len(order) * Width = (Len(order) - 1) * Width + Width
      BY <2>1, ColumnFacts
    <2>6. Len(line \o fifo) = Len(order) * Width
      BY <2>1, <2>2, <2>3, <2>4, <2>5 DEF Sent
    <2> QED
      BY Zenon, <1>1, <1>4, <2>6 DEF LateInv, data
  <1> QED
    BY Zenon, <1>1, <1>5, <1>6 DEF OutputInv, EarlyInv, DrainInv, data

\* Every step of a frame once the log is empty.
LEMMA LateNext ==
    ASSUME IInv, OutputInv, status # "down", log = <<>>, NEW f \in Frames, Step(f)
    PROVE  OutputInv'
  <1>1. /\ status \in {"ready", "forbid"} /\ online \subseteq Cpus
        /\ pos \in [Frames -> Cursor]
        /\ pc \in [Frames -> Labels] /\ pc[f] \notin {"record", "drainwrite"}
    BY DEF IInv, Types, OutputInv, OutputTypes, LateInv
  <1>2. ASSUME NEW l, l \notin {"record", "poll", "write", "drainwrite"},
               pc' = [pc EXCEPT ![f] = l], pc[f] \notin {"poll", "write"},
               UNCHANGED <<order, log, fifo, line, buf, pos>>,
               status' \in {"ready", "forbid"}, online' \subseteq Cpus
        PROVE  OutputInv'
    BY <1>1, <1>2, LateControl
  <1>3. CASE printk(f)
    <2>1. PICK l \in {"ret", "out", "ldr"} : pc' = [pc EXCEPT ![f] = l]
      BY <1>3 DEF printk, GoTo
    <2> QED
      BY Zenon, <1>1, <1>2, <1>3, <2>1 DEF printk, Calls, At, lockVars, uart
  <1>4. CASE Ldr(f)
    BY Zenon, <1>1, <1>2, <1>4 DEF Ldr, At, GoTo, lockVars, uart
  <1>5. CASE Ldaxr(f)
    <2>1. PICK l \in {"stxr", "ldr"} : pc' = [pc EXCEPT ![f] = l]
      BY Zenon, <1>5 DEF Ldaxr, GoTo
    <2> QED
      BY Zenon, <1>1, <1>2, <1>5, <2>1 DEF Ldaxr, At, lockVars, uart
  <1>6. CASE Stxr(f)
    <2>1. PICK l \in {"format", "ldr"} : pc' = [pc EXCEPT ![f] = l]
      BY <1>6 DEF Stxr, GoTo
    <2> QED
      BY Zenon, <1>1, <1>2, <1>6, <2>1 DEF Stxr, At, lockVars, uart
  <1>7. ~ Record(f)
    BY <1>1 DEF Record, At
  <1>8. CASE Unlock(f) /\ pc[f] # "poll"
    BY Zenon, <1>1, <1>2, <1>8 DEF Unlock, At, GoTo, lockVars, uart
  <1>9. CASE Restore(f)
    <2>1. PICK l \in {"ret", "out"} : pc' = [pc EXCEPT ![f] = l]
      BY Zenon, <1>9 DEF Restore, GoTo
    <2> QED
      BY Zenon, <1>1, <1>2, <1>9, <2>1 DEF Restore, At, lockVars, uart
  <1>10. CASE init_printf_done(f)
    <2>1. /\ pc[f] = "out" /\ pc' = [pc EXCEPT ![f] = "drainpoll"]
          /\ UNCHANGED <<order, log, fifo, line, buf>> /\ status' = "ready" /\ online' = online
      BY Zenon, <1>10 DEF init_printf_done, Calls, At, GoTo, lockVars, uart
    <2>2. pos' = [pos EXCEPT ![f] = [i |-> 1, cr |-> FALSE, len |-> 0]]
      BY <1>10 DEF init_printf_done
    <2>3. /\ pos' \in [Frames -> Cursor]
          /\ \A g \in Frames : g # f => pos'[g] = pos[g]
      <3>1. [i |-> 1, cr |-> FALSE, len |-> 0] \in Cursor
        BY DEF Cursor
      <3> QED
        BY Zenon, <1>1, <2>2, <3>1, CursorStep
    <2>4. pc'[f] = "drainpoll" /\ \A g \in Frames : g # f => pc'[g] = pc[g]
      BY <1>1, <2>1
    <2> QED
      BY Zenon, <1>1, <2>1, <2>3, <2>4, LateControl
  <1>11. CASE DrainEnd(f)
    BY Zenon, <1>1, <1>2, <1>11 DEF DrainEnd, At, GoTo, lockVars, uart
  <1>12. ASSUME NEW call \in {"forbid", "ready"}, SetStatus(f, call)
         PROVE  OutputInv'
    BY <1>1, <1>12, LateControl DEF SetStatus, lockVars, uart
  <1>13. CASE local_interrupt_enable(f)
    BY <1>1, <1>13, LateControl DEF local_interrupt_enable, lockVars, uart
  <1>14. CASE smp_init(f)
    BY <1>1, <1>14, LateControl DEF smp_init, lockVars, uart
  <1> QED
    BY <1>3, <1>4, <1>5, <1>6, <1>7, <1>8, <1>9, <1>10, <1>11, <1>12, <1>13, <1>14,
       LateFormat, LatePoll, LateWrite, LateUnlock DEF Step

\* An interrupt is taken or returned from only once the log is empty: nobody has
\* enabled interrupts before.
LEMMA IrqOutput ==
    ASSUME IInv, OutputInv, NEW c \in Cpus, TakeIrq(c) \/ IrqReturn(c)
    PROVE  OutputInv'
  <1>1. status # "down" /\ log = <<>>
    <2>1. SUFFICES ASSUME Alone PROVE FALSE
      BY Zenon DEF OutputInv, EarlyInv, DrainInv
    <2>2. pc[Irq(c)] = "off" /\ c \in {Boot} /\ ~masked[c]
      BY Zenon, <2>1 DEF Alone, TakeIrq, IrqReturn, At, Runs
    <2> QED
      BY Zenon, <2>1, <2>2 DEF Alone, IInv, LockInv, MaskInv
  <1>2. PICK l \in {"out", "off"} : pc' = [pc EXCEPT ![Irq(c)] = l]
    BY Zenon DEF TakeIrq, IrqReturn, GoTo
  <1>3. /\ pc[Irq(c)] \in {"off", "ret"} /\ Irq(c) \in Frames /\ pc \in [Frames -> Labels]
        /\ UNCHANGED <<order, log, fifo, line, buf, pos, status, online>>
    BY Zenon, FrameFacts DEF TakeIrq, IrqReturn, At, lockVars, uart, IInv, Types
  <1>4. /\ status \in {"ready", "forbid"} /\ online \subseteq Cpus
        /\ pos \in [Frames -> Cursor]
    BY <1>1 DEF OutputInv, OutputTypes
  <1>5. \A g \in Frames : g # Irq(c) => pc'[g] = pc[g]
    BY <1>2, <1>3
  <1>6. pc'[Irq(c)] = l
    BY <1>2, <1>3
  <1> QED
    BY Zenon, <1>1, <1>3, <1>4, <1>5, <1>6, LateControl

\* The UART moves a character from the FIFO to the line.
LEMMA TransmitOutput ==
    ASSUME OutputInv, Transmit
    PROVE  OutputInv'
  <1>1. /\ fifo # <<>> /\ UNCHANGED <<pc, online, irqon, status, buf, log, pos, order>>
    BY DEF Transmit
  <1>2. line' = Append(line, Head(fifo)) /\ fifo' = Tail(fifo)
    BY DEF Transmit
  <1>3. fifo \in Seq(Chars) /\ line \in Seq(Chars) /\ Len(fifo) <= FifoDepth
    BY DEF OutputInv, OutputTypes
  <1>4. /\ line' \in Seq(Chars) /\ fifo' \in Seq(Chars) /\ Len(fifo') = Len(fifo) - 1
        /\ (line \o fifo)' = line \o fifo
    BY <1>1, <1>2, <1>3, SendOut
  <1>5. Len(fifo) \in Nat /\ Len(fifo') < FifoDepth
    BY <1>3, <1>4, ConsoleAssumption
  <1>6. OutputTypes'
    BY <1>1, <1>4, <1>5, ConsoleAssumption DEF OutputInv, OutputTypes, Limit
  <1>7. status' # "down"
    BY Zenon, <1>1 DEF OutputInv, EarlyInv
  <1>8. DrainInv'
    BY Zenon, <1>1, <1>4, <1>7 DEF OutputInv, DrainInv, Alone, Logged, Sent
  <1>9. LateInv'
    BY <1>1, <1>4, <1>7 DEF OutputInv, LateInv, Sent
  <1>10. Shows(line \o fifo, order)'
    BY <1>1, <1>4 DEF OutputInv
  <1> QED
    BY <1>6, <1>7, <1>8, <1>9, <1>10 DEF OutputInv, EarlyInv

LEMMA StutterOutput ==
    ASSUME OutputInv, UNCHANGED vars
    PROVE  OutputInv'
  <1>1. OutputTypes'
    BY Zenon DEF OutputInv, vars, OutputTypes, Limit
  <1>2. EarlyInv'
    BY Zenon DEF OutputInv, vars, EarlyInv, Alone, Logged, Printed
  <1>3. DrainInv'
    BY Zenon DEF OutputInv, vars, DrainInv, Alone, Logged, Sent
  <1>4. LateInv'
    BY Zenon DEF OutputInv, vars, LateInv, Sent
  <1> QED
    BY Zenon, <1>1, <1>2, <1>3, <1>4 DEF OutputInv, vars

-----------------------------------------------------------------------------
(* The theorems *)

\* What the line shows, and where the loops that write it are, hold of every
\* behaviour of the console.
THEOREM OutputInvariant == Spec => []OutputInv
  <1>1. IInv /\ OutputInv /\ [Next]_vars => OutputInv'
    <2> SUFFICES ASSUME IInv, OutputInv, [Next]_vars PROVE OutputInv'
      OBVIOUS
    <2>1. ASSUME NEW f \in Frames, Step(f) PROVE OutputInv'
      BY <2>1, EarlyNext, DrainNext, LateNext
    <2> QED
      BY <2>1, IrqOutput, TransmitOutput, StutterOutput DEF Next
  <1> QED
    BY InitOutput, ConsoleInvariant, <1>1, PTL DEF Spec

\* The line shows whole messages in the order in which printk formatted them,
\* for any number of CPUs, any scripts, any text and any FIFO depth: the early
\* log comes first although init_printf_done drains it without the lock, and no
\* character meets a full FIFO.
THEOREM OutputIsWhole == Spec => []OutputWhole
  <1>1. OutputInv => OutputWhole
    <2> SUFFICES ASSUME OutputInv PROVE Len(line \o fifo) <= Len(order) * Width
      BY DEF OutputInv, OutputWhole
    <2>1. /\ Len(order) \in Nat /\ Width \in Nat /\ Len(order) * Width \in Nat
          /\ Len(Text) \in Nat \ {0} /\ Width = Column(Len(Text))
      BY ColumnFacts DEF OutputInv, OutputTypes
    <2>2. CASE status = "down"
      BY <2>1, <2>2 DEF OutputInv, EarlyInv
    <2>3. CASE status # "down" /\ log # <<>>
      <3>1. PICK n \in 0 .. Len(order), k \in DOMAIN Text : Draining(n, k)
        BY <2>3 DEF OutputInv, DrainInv, Draining
      <3>2. CASE n < Len(order)
        <4>1. n \in Nat /\ k \in 1 .. Len(Text) + 1 /\ k <= Len(Text)
          BY ColumnFacts
        <4> QED
          BY Zenon, <2>1, <3>1, <3>2, <4>1, SentBound DEF Draining, Sent
      <3>3. CASE n = Len(order)
        <4>1. Sent(Len(order), 1, FALSE) /\ 1 - 1 = 0 /\ Column(0) = 0
          BY <3>1, <3>3, ColumnFacts DEF Draining, Sent
        <4> QED
          BY <2>1, <4>1 DEF Sent
      <3> QED
        BY <2>1, <3>2, <3>3
    <2>4. CASE status # "down" /\ log = <<>>
      <3>1. CASE \A f \in Frames : pc[f] \notin {"poll", "write"}
        BY <2>1, <2>4, <3>1 DEF OutputInv, LateInv
      <3>2. ASSUME NEW f \in Frames, pc[f] \in {"poll", "write"}
            PROVE  Len(line \o fifo) <= Len(order) * Width
        <4>1. /\ Sent(Len(order) - 1, pos[f].i, pos[f].cr) /\ pos[f].i <= Len(Text) + 1
              /\ pos[f].cr => pos[f].i <= Len(Text) /\ Text[pos[f].i] = "nl"
          BY <2>4, <3>2 DEF OutputInv, LateInv
        <4>2. pos[f].i \in Nat \ {0} /\ order # <<>> /\ order \in Seq(Messages)
          BY <3>2 DEF OutputInv, OutputTypes, Cursor
        <4>3. Len(order) - 1 \in Nat /\ Len(order) - 1 < Len(order)
          BY <4>2
        <4>4. pos[f].i \in 1 .. Len(Text) + 1
          BY <2>1, <4>1, <4>2
        <4> QED
          BY <2>1, <4>1, <4>3, <4>4, SentBound DEF Sent
      <3> QED
        BY <3>1, <3>2
    <2> QED
      BY <2>2, <2>3, <2>4
  <1> QED
    BY OutputInvariant, <1>1, PTL
=============================================================================
