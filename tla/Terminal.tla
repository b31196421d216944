------------------------------ MODULE Terminal ------------------------------
(***************************************************************************)
(* The console: the line discipline of console.c over the UART driver      *)
(* uart.c, with the devices they talk to, fpga/uart.v and fpga/plic.v.     *)
(* There is one CPU.  Whoever runs with interrupts off owns it until it    *)
(* turns them on again or sleeps (variable owner); meanwhile only the      *)
(* devices move, one clock cycle or one character at a time.               *)
(***************************************************************************)
EXTENDS Integers, Sequences

CONSTANTS Reader, Writer,    \* threads in consoleread and in consolewrite
          Key,               \* the characters typed on the line
          Glyph,             \* the characters processes write
          INPUT_BUF_SIZE, UART_TX_BUF_SIZE,
          UINT,              \* the indices are counted modulo UINT (2^32)
          MaxRead            \* bound: the longest read

ASSUME TerminalAssumption ==
  /\ Reader \cap Writer = {}
  /\ INPUT_BUF_SIZE \in Nat \ {0} /\ UART_TX_BUF_SIZE \in Nat \ {0}
  /\ UINT \in Nat /\ MaxRead \in Nat
  /\ UINT % INPUT_BUF_SIZE = 0 /\ UINT % UART_TX_BUF_SIZE = 0
  /\ UINT > INPUT_BUF_SIZE /\ UINT > UART_TX_BUF_SIZE
  /\ Key \subseteq {"x", "NL", "CR", "EOF", "BS", "KILL", "DUMP", "NUL"}

VARIABLES cons,     \* buf and the indices r <= w <= e
          tx,       \* uart_tx_buf and its indices r <= w
          uart,     \* the registers THR/THE, the rising edge of THE, IID1, RBR/DR
          pending,  \* pending_s of the PLIC
          owner,    \* who runs with interrupts off, and where it stands
          thread    \* the readers and writers

terminal == <<cons, tx, uart, pending, owner, thread>>

Echo == "echo"                    \* a character put by uartputc_sync
Free == [at |-> "none", by |-> "none", out |-> 0]
Idle == [at |-> "idle", n |-> 0, target |-> 0, c |-> Echo, killed |-> FALSE]

Plus(i) == (i + 1) % UINT
Held(ring, from, to, size) ==     \* what a ring holds between two indices
  [k \in 1 .. (to - from) % UINT |-> ring[(from + k - 1) % size]]

Committed == Held(cons.buf, cons.r, cons.w, INPUT_BUF_SIZE)
Editing   == Held(cons.buf, cons.w, cons.e, INPUT_BUF_SIZE)
Buffered  == Held(tx.buf, tx.r, tx.w, UART_TX_BUF_SIZE)
Outgoing  == (IF uart.the THEN <<>> ELSE <<uart.thr>>) \o Buffered

(***************************************************************************)
(* The hardware.                                                           *)
(***************************************************************************)
\* One access of the CPU to the UART takes the cycle in which a rise of THE
\* would have set IID1; the write of THR and the read of ISR clear IID1
\* instead, if it was set.
Access(clears) ==
  [uart EXCEPT !.iid1 = IF uart.iid1 THEN ~clears ELSE uart.edge,
               !.edge = FALSE]
WriteTHR(c) == [Access(TRUE) EXCEPT !.the = FALSE, !.thr = c]

Cycle ==                          \* THE_old catches up with THE
  /\ uart.edge
  /\ uart' = Access(FALSE)
  /\ UNCHANGED <<cons, tx, pending, owner, thread>>

LoadTSR ==                        \* once the character before is out; a THR
                                  \* that is empty is given the value Echo
  /\ ~uart.the
  /\ uart' = [uart EXCEPT !.the = TRUE, !.thr = Echo, !.edge = TRUE]
  /\ UNCHANGED <<cons, tx, pending, owner, thread>>

Receive(c) ==                     \* an unread byte is overrun
  /\ uart' = [uart EXCEPT !.dr = TRUE, !.rbr = c]
  /\ UNCHANGED <<cons, tx, pending, owner, thread>>

Latch ==                          \* plic: pending_s | (i_int & enable_s)
  /\ (uart.iid1 \/ uart.dr) /\ ~pending
  /\ pending' = TRUE
  /\ UNCHANGED <<cons, tx, uart, owner, thread>>

(***************************************************************************)
(* Output.                                                                 *)
(***************************************************************************)
(* Slip: nobody is woken. *)
WokenNone(set) == thread
Woken(set) ==                     \* wakeup() of the sleepers in set
  [p \in DOMAIN thread |-> IF p \in set /\ thread[p].at = "asleep"
                           THEN [thread[p] EXCEPT !.at = "loop"] ELSE thread[p]]

Write(p, c) ==                    \* consolewrite has copied one character in
  /\ owner = Free /\ thread[p].at = "idle"
  /\ thread' = [thread EXCEPT ![p].at = "loop", ![p].c = c]
  /\ UNCHANGED <<cons, tx, uart, pending, owner>>

uartputc(p) ==
  /\ owner = Free /\ thread[p].at = "loop"
  /\ IF tx.w = (tx.r + UART_TX_BUF_SIZE) % UINT
     THEN /\ thread' = [thread EXCEPT ![p].at = "asleep"]
          /\ UNCHANGED <<tx, owner>>
     ELSE /\ tx' = [tx EXCEPT !.buf[tx.w % UART_TX_BUF_SIZE] = thread[p].c,
                              !.w = Plus(tx.w)]
          /\ owner' = [Free EXCEPT !.at = "start", !.by = p]
          /\ thread' = [thread EXCEPT ![p] = [Idle EXCEPT !.killed = thread[p].killed]]
  /\ UNCHANGED <<cons, uart, pending>>

\* uartstart() is over: its caller releases the lock, and uartintr() returns
\* to devintr(), which completes the interrupt.
Started ==
  owner' = IF owner.by = "intr" THEN [owner EXCEPT !.at = "complete"] ELSE Free

uartstart ==
  /\ owner.at = "start"
  /\ \/ /\ tx.w = tx.r
        /\ uart' = Access(TRUE)              \* ReadReg(ISR)
        /\ Started
     \/ /\ tx.w # tx.r /\ ~uart.the
        /\ uart' = Access(FALSE)             \* ReadReg(LSR)
        /\ Started
  /\ UNCHANGED <<cons, tx, pending, thread>>

\* A write of THR comes more than a cycle after the read of LSR that saw THE
\* set: the edge is over.  Nothing else the devices do in between matters.
uartstartSend ==                  \* the rest of one turn of its loop
  /\ owner.at = "start" /\ tx.w # tx.r /\ uart.the /\ ~uart.edge
  /\ tx' = [tx EXCEPT !.r = Plus(tx.r)]
  /\ thread' = Woken(Writer)
  /\ uart' = WriteTHR(tx.buf[tx.r % UART_TX_BUF_SIZE])
  /\ UNCHANGED <<cons, pending, owner>>

(* Slip: the character is put without waiting for the register. *)
uartputc_nowait ==
  /\ owner.at = "sync" /\ owner.out > 0 /\ ~uart.edge
  /\ uart' = WriteTHR(Echo)
  /\ owner' = [owner EXCEPT !.out = owner.out - 1]
  /\ UNCHANGED <<cons, tx, pending, thread>>
uartputc_sync ==                  \* as often as owner.out says
  /\ owner.at = "sync" /\ owner.out > 0 /\ uart.the /\ ~uart.edge
  /\ uart' = WriteTHR(Echo)
  /\ owner' = [owner EXCEPT !.out = owner.out - 1]
  /\ UNCHANGED <<cons, tx, pending, thread>>
SyncEnd ==
  /\ owner.at = "sync" /\ owner.out = 0
  /\ owner' = IF owner.by = "intr" THEN [owner EXCEPT !.at = "getc"] ELSE Free
  /\ UNCHANGED <<cons, tx, uart, pending, thread>>

Printf ==                         \* the kernel prints from some thread
  /\ owner = Free
  /\ owner' = [at |-> "sync", by |-> "printf", out |-> 1]
  /\ UNCHANGED <<cons, tx, uart, pending, thread>>

(***************************************************************************)
(* Input.                                                                  *)
(***************************************************************************)
\* A place given back is blanked: nothing reads it before it is written.
Blank(from, k) ==
  [i \in DOMAIN cons.buf |-> IF \E j \in 0 .. k - 1 : i = (from + j) % INPUT_BUF_SIZE
                            THEN "NUL" ELSE cons.buf[i]]
Erased(k) == LET e == (cons.e - k) % UINT IN [cons EXCEPT !.e = e, !.buf = Blank(e, k)]
Taken == [cons EXCEPT !.r = Plus(cons.r), !.buf = Blank(cons.r, 1)]
(* Slip: the loop of ^U does not stop at cons.w. *)
OnLineTooFar == (cons.e - cons.r) % UINT
OnLine ==                         \* how much of the line ^U erases
  LET stops == {k \in 1 .. Len(Editing) : Editing[k] = "NL"}
  IN  Len(Editing) - (IF stops = {} THEN 0 ELSE CHOOSE k \in stops : \A l \in stops : l <= k)

\* consoleintr(c): new is what becomes of cons, echo how many characters are
\* put; a stored newline, ^D or last free place commits the line.
consoleintr(c) ==
  LET Effect(new, echo) == cons' = new /\ owner' = [owner EXCEPT !.at = "sync", !.out = echo]
      stored == IF c = "CR" THEN "NL" ELSE c
      longer == [cons EXCEPT !.buf[cons.e % INPUT_BUF_SIZE] = stored, !.e = Plus(cons.e)]
      commits == stored \in {"NL", "EOF"} \/ (longer.e - longer.r) % UINT = INPUT_BUF_SIZE
  IN  CASE c = "DUMP" -> Effect(cons, 1) /\ UNCHANGED thread
        [] c = "KILL" -> Effect(Erased(OnLine), 3 * OnLine) /\ UNCHANGED thread
        [] c = "BS"   -> IF cons.e # cons.w THEN Effect(Erased(1), 3) /\ UNCHANGED thread
                         ELSE Effect(cons, 0) /\ UNCHANGED thread
        [] OTHER      -> IF c # "NUL" /\ (cons.e - cons.r) % UINT < INPUT_BUF_SIZE
                         THEN /\ Effect(IF commits THEN [longer EXCEPT !.w = longer.e] ELSE longer, 1)
                              /\ thread' = IF commits THEN Woken(Reader) ELSE thread
                         ELSE Effect(cons, 0) /\ UNCHANGED thread

plic_claim == pending            \* the one source that is enabled, or none

uartintr ==                      \* devintr finds the UART's claim, and calls it
  /\ owner = Free /\ plic_claim
  /\ owner' = [Free EXCEPT !.at = "getc", !.by = "intr"]
  /\ UNCHANGED <<cons, tx, uart, pending, thread>>

uartgetc ==
  /\ owner.at = "getc"
  /\ IF uart.dr
     THEN /\ uart' = [Access(FALSE) EXCEPT !.dr = FALSE, !.rbr = "NUL"]
          /\ consoleintr(uart.rbr)
     ELSE /\ uart' = Access(FALSE)
          /\ owner' = [owner EXCEPT !.at = "start"]
          /\ UNCHANGED <<cons, thread>>
  /\ UNCHANGED <<tx, pending>>

plic_complete ==
  /\ owner.at = "complete"
  /\ pending' = FALSE
  /\ owner' = Free
  /\ UNCHANGED <<cons, tx, uart, thread>>

Read(p, n) ==
  /\ owner = Free /\ thread[p].at = "idle"
  /\ thread' = [thread EXCEPT ![p].at = "loop", ![p].n = n, ![p].target = n]
  /\ UNCHANGED <<cons, tx, uart, pending, owner>>

\* consoleread() from one sleep to the next is one step at a time with
\* cons.lock held.
consoleread(p) ==
  LET t == thread[p]
      c == cons.buf[cons.r % INPUT_BUF_SIZE]
      After(state) == [thread EXCEPT ![p] = state]
      Return == After([Idle EXCEPT !.killed = t.killed]) 
      Go(next, who) == thread' = next /\ owner' = who
      Mine == [Free EXCEPT !.at = "read", !.by = p]
  IN  /\ t.at = "loop" /\ owner \in {Free, Mine}
      /\ \/ /\ t.n = 0
            /\ Go(Return, Free) /\ UNCHANGED cons
         \/ /\ t.n > 0 /\ cons.r = cons.w
            /\ Go(IF t.killed THEN Return ELSE After([t EXCEPT !.at = "asleep"]), Free)
            /\ UNCHANGED cons
         \/ /\ t.n > 0 /\ cons.r # cons.w
            /\ \/ /\ c = "EOF" /\ t.n < t.target   \* kept for the next read
                  /\ Go(Return, Free) /\ UNCHANGED cons
               \/ /\ c = "EOF" /\ t.n = t.target
                  /\ Go(Return, Free) /\ cons' = Taken
               \/ /\ c # "EOF"                     \* copied out, or either_copyout fails
                  /\ cons' = Taken
                  /\ \/ Go(Return, Free)
                     \/ c # "NL" /\ Go(After([t EXCEPT !.n = t.n - 1]), Mine)
      /\ UNCHANGED <<tx, uart, pending>>

Kill(p) ==                        \* kill() makes a sleeper runnable
  /\ owner = Free /\ ~thread[p].killed
  /\ thread' = [Woken({p}) EXCEPT ![p].killed = TRUE]
  /\ UNCHANGED <<cons, tx, uart, pending, owner>>

(***************************************************************************)
(* After consoleinit() and plicinithart().  The UART may still be sending  *)
(* what was written before.                                                *)
(***************************************************************************)
ConsInit == [buf |-> [i \in 0 .. INPUT_BUF_SIZE - 1 |-> "NUL"], r |-> 0, w |-> 0, e |-> 0]
TerminalInit ==
  /\ cons = ConsInit
  /\ tx = [buf |-> [i \in 0 .. UART_TX_BUF_SIZE - 1 |-> Echo], r |-> 0, w |-> 0]
  /\ uart \in [the : BOOLEAN, thr : {Echo}, edge : {FALSE},
               iid1 : {FALSE}, dr : {FALSE}, rbr : {"NUL"}]
  /\ pending = FALSE
  /\ owner = Free
  /\ thread = [p \in Reader \cup Writer |-> Idle]

Devices == Cycle \/ LoadTSR \/ Latch \/ (\E c \in Key : Receive(c))
Handler == uartintr \/ uartgetc \/ plic_complete
Output == uartstart \/ uartstartSend \/ uartputc_sync \/ SyncEnd \/ Printf
SystemCalls ==
  \/ \E p \in Writer : uartputc(p) \/ (\E c \in Glyph : Write(p, c))
  \/ \E p \in Reader : consoleread(p) \/ Kill(p) \/ (\E n \in 1 .. MaxRead : Read(p, n))

TerminalNext == Devices \/ Handler \/ Output \/ SystemCalls
TerminalSpec == TerminalInit /\ [][TerminalNext]_terminal

-----------------------------------------------------------------------------
\* The indices stay in order and within their rings, and every variable in
\* its type, also when the indices wrap around.
TerminalTypeOK ==
  /\ (cons.w - cons.r) % UINT <= (cons.e - cons.r) % UINT
  /\ (cons.e - cons.r) % UINT <= INPUT_BUF_SIZE
  /\ (tx.w - tx.r) % UINT <= UART_TX_BUF_SIZE
  /\ uart.thr \in Glyph \cup {Echo} /\ uart.rbr \in Key \cup {"NUL"}
  /\ \A p \in Reader \cup Writer : thread[p].at \in {"idle", "loop", "asleep"}

\* One step of the line: it is read from the front, grows, loses its end, or is
\* handed over whole.
LineStep ==
  \/ UNCHANGED <<Committed, Editing>>
  \/ Committed # <<>> /\ Committed' = Tail(Committed) /\ Editing' = Editing
  \/ /\ Committed' = Committed
     /\ \/ \E c \in Key : Editing' = Append(Editing, c)
        \/ \E k \in 0 .. Len(Editing) : Editing' = SubSeq(Editing, 1, k)
  \/ /\ \E c \in Key \cup {"NL"} :
          /\ Committed' = Committed \o Append(Editing, c)
          /\ c \in {"NL", "EOF"} \/ Len(Committed') = INPUT_BUF_SIZE
     /\ Editing' = <<>>
\* Committed lines are only read, from the front: no later key, and no ^U or
\* backspace, changes what a reader has been promised, and the line being
\* edited is handed over whole.
LineDiscipline == [][LineStep]_terminal

\* One step of the output: a character joins its end, an echo its front, or the
\* character in the THR is out.
OutputStep ==
  \/ Outgoing' = Outgoing
  \/ Len(Outgoing') > Len(Outgoing)
       /\ \/ SubSeq(Outgoing', 1, Len(Outgoing)) = Outgoing
          \/ uart.the /\ Outgoing' = <<Echo>> \o Outgoing
  \/ ~uart.the /\ uart'.the /\ Outgoing' = Tail(Outgoing)
\* Whatever was accepted for output leaves the THR once and in order: a
\* character in the THR is never overwritten, not by the transmit interrupt,
\* not by an echo or a kernel message put between buffered characters.
OutputInOrder == [][OutputStep]_terminal

\* Buffered output never waits for nothing: while nobody is sending it, the
\* UART still has a character to shift out or an interrupt to raise.
OutputMoves ==
  Buffered # <<>> /\ owner = Free => ~uart.the \/ uart.edge \/ uart.iid1

\* A reader sleeps only while no line is committed, a writer only while the
\* transmit buffer is full.
NobodySleepsOn ==
  /\ \A p \in Reader : thread[p].at = "asleep" => Committed = <<>>
  /\ \A p \in Writer : thread[p].at = "asleep" => Len(Buffered) = UART_TX_BUF_SIZE

\* No wakeup and no interrupt of the console is lost.
ConsoleMoves == OutputMoves /\ NobodySleepsOn
=============================================================================
