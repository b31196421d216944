------------------------------- MODULE SdCard -------------------------------
(***************************************************************************)
(* The SD card drivers, the kernel's sdcard.c and the boot loader's spi.c, *)
(* byte by byte: every step is one exchange over fpga/spi.v, in which the  *)
(* driver sends a byte and the card answers with another.  The card is     *)
(* external: it answers when it likes, within the delays of its            *)
(* specification, and the line may flip a bit of a block it sends.  The    *)
(* four argument bytes of a command count as one; the pulses that wake the *)
(* card before its first command are left out.                             *)
(***************************************************************************)
EXTENDS Integers, Sequences, Bitwise, SequencesExt

CONSTANTS Sector,       \* the blocks of the card
          Byte,         \* the bytes written to them, in 0 .. 255
          BLEN,         \* bytes of a block (512)
          Tries,        \* polls for the answer to a command (10)
          Patience,     \* polls for data or for the end of busy (100000)
          Attempts,     \* spi_init's attempts to start the card (10)
          Delay         \* bound: the longest delay of the card, in exchanges, and
                        \* the most attempts to start it that it turns down

ASSUME SdCardAssumption ==
  /\ Byte \subseteq 0 .. 255 /\ 0 \in Byte /\ BLEN \in Nat \ {0}
  /\ Delay < Tries /\ Delay < Patience /\ Delay < Attempts

VARIABLES sd,    \* the driver: where it stands, the command and its argument, its
                 \* counters i and tries, the byte read last, buf, and the boot
                 \* loader's global crc
          card   \* the card: where it stands, its counter, the blocks

sdcard == <<sd, card>>

Block == [1 .. BLEN -> Byte]
High == 255                       \* the line when nobody drives it
Token == 254

(***************************************************************************)
(* The polynomial is x^16 + x^12 + x^5 + 1.  The kernel's getCRC16() does  *)
(* a whole message, the boot loader's crc16() a byte.                      *)
(***************************************************************************)
Shift(crc) ==
  LET twice == 2 * crc IN IF twice >= 65536 THEN twice ^^ 69665 ELSE twice
Shift8(crc) == Shift(Shift(Shift(Shift(Shift(Shift(Shift(Shift(crc))))))))
crc16(crc, byte) == Shift8(crc ^^ (byte * 256))
getCRC16(message) == FoldLeft(crc16, 0, message)

\* What the card sends for a block, and what arrives when a bit flips.
Framed(b) == LET crc == getCRC16(b) IN b \o <<crc \div 256, crc % 256>>
Flipped(f) == {[f EXCEPT ![k] = f[k] ^^ (2^bit)] : k \in DOMAIN f, bit \in {0, 7}}

(***************************************************************************)
(* spi.v, from the write of its register RW to the answer to the read: in  *)
(* each of eight pulses the top bit of data is on the line to the card,    *)
(* the card's bit is sampled while the clock is low and shifted in behind  *)
(* data while it is high.                                                  *)
(***************************************************************************)
Pulse(w, miso) == [data |-> (2 * w.data + miso) % 256, mosi |-> 2 * w.mosi + w.data \div 128]
spi(out, in) ==
  LET after[bits \in 0 .. 8] ==
        IF bits = 0 THEN [data |-> out, mosi |-> 0]
        ELSE Pulse(after[bits - 1], (in \div 2^(8 - bits)) % 2)
  IN  after[8]

(***************************************************************************)
(* The card: its answer to the byte out, and its next state.               *)
(***************************************************************************)
Stand(state) == [card EXCEPT !.at = state, !.n = 0]
Later == [card EXCEPT !.n = card.n + 1]
Answers == {High, Token, 0, 1, 5, 8, 170} \cup {card.frame[k] : k \in DOMAIN card.frame}
Transfers == {17, 24}             \* read and write a block
Commands == {0, 8, 55, 41, 58, 16} \cup Transfers

\* in is what the card answers to out; each disjunct is a state of the card.
\* After command 0 it is unready, until an attempt (55, 41) to start it succeeds;
\* meanwhile it refuses to transfer.
Exchange(out, in) ==
  \/ /\ card.at = "ready" /\ in = High
     /\ card' = IF out - 64 \in Commands
                THEN [Stand("command") EXCEPT !.cmd = out - 64] ELSE card
  \/ /\ card.at = "command" /\ in = High       \* the argument, then the crc
     /\ card' = IF card.n = 0 THEN [Later EXCEPT !.arg = out] ELSE Stand("answer")
  \/ /\ card.at = "answer" /\ card.n < Delay /\ in = High /\ card' = Later
  \/ /\ card.at = "answer" /\ card.cmd = 0
     /\ in = 1 /\ card' = [Stand("ready") EXCEPT !.unready = 1]
  \/ /\ card.at = "answer" /\ card.cmd = 41
     /\ \/ in = 0 /\ card' = [Stand("ready") EXCEPT !.unready = 0]
        \/ /\ card.unready \in 1 .. Delay
           /\ in = 1 /\ card' = [Stand("ready") EXCEPT !.unready = card.unready + 1]
  \/ /\ card.at = "answer" /\ card.cmd \notin {0, 41}
     /\ in = IF card.unready = 0 THEN 0 ELSE IF card.cmd \in Transfers THEN 5 ELSE 1
     /\ card' = Stand(IF in = 5 THEN "ready"
                      ELSE CASE card.cmd = 17 -> "access" [] card.cmd = 24 -> "expect"
                             [] card.cmd \in {8, 58} -> "word" [] OTHER -> "ready")
  \/ /\ card.at = "word" /\ in = 170
     /\ card' = IF card.n < 3 THEN Later ELSE Stand("ready")
  \/ /\ card.at = "access"
     /\ \/ card.n < Delay /\ in = High /\ card' = Later
        \/ /\ in = Token
           /\ LET f == Framed(card.stored[card.arg]) IN
              \E s \in {f} \cup Flipped(f) : card' = [Stand("send") EXCEPT !.frame = s]
        \/ in = 8 /\ card' = Stand("ready")       \* an error token, and no data
  \/ /\ card.at = "send" /\ in = Head(card.frame)
     /\ card' = IF Len(card.frame) = 1 THEN [Stand("ready") EXCEPT !.frame = <<>>]
                ELSE [card EXCEPT !.frame = Tail(card.frame)]
  \/ /\ card.at = "expect" /\ in = High
     /\ card' = IF out = Token THEN Stand("receive") ELSE card
  \/ /\ card.at = "receive" /\ in = High
     /\ LET f == Append(card.frame, out) IN
        card' = IF Len(f) < BLEN + 2 THEN [card EXCEPT !.frame = f]
                ELSE [Stand("accept") EXCEPT !.frame = <<>>,
                        !.stored[card.arg] = SubSeq(f, 1, BLEN)]
  \/ card.at = "accept" /\ in = 5 /\ card' = Stand("busy")
  \/ /\ card.at = "busy"
     /\ \/ card.n < Delay /\ in = 0 /\ card' = Later
        \/ in = High /\ card' = Stand("ready")

(***************************************************************************)
(* The driver.                                                             *)
(***************************************************************************)
AtRest(boot) == [at |-> "idle", i |-> 0, tries |-> 0, cmd |-> 0, arg |-> 0, boot |-> boot,
               last |-> 0, buf |-> <<>>, crc |-> 0]
Starting(boot) == [AtRest(boot) EXCEPT !.at = "spi_cmd", !.i = 1]

\* spi_rw(c), when the card answers in: what the card gets is what spi.v sends.
spi_rw(c, in) == Exchange(spi(c, in).mosi, in)
Got(c, in) == spi(c, in).data

Step(at, i) == [sd EXCEPT !.at = at, !.i = i]
Halt == sd' = Step("panic", 0) /\ UNCHANGED card

Send(cmd, arg) == [Step("spi_cmd", 1) EXCEPT !.cmd = cmd, !.arg = arg]

Call(cmd, block, b) ==            \* spi_rb and spi_wb, buf from the buffer cache
  /\ sd.at = "idle"
  /\ sd' = [Send(cmd, block) EXCEPT !.buf = b]
  /\ UNCHANGED card
KernelCall(cmd, block, b) == ~sd.boot /\ Call(cmd, block, b \o <<0, 0>>)
BootCall(block, b) == sd.boot /\ Call(17, block, b)

CommandFrame == <<High, 64 + sd.cmd, sd.arg, 0>>

spi_cmd ==
  /\ sd.at = "spi_cmd"
  /\ \E in \in Answers : spi_rw(CommandFrame[sd.i], in)
  /\ sd' = IF sd.i < Len(CommandFrame) THEN Step("spi_cmd", sd.i + 1) ELSE Step("poll", 0)

spi_cmdPoll ==
  /\ sd.at = "poll"
  /\ \E in \in Answers :
       /\ spi_rw(High, in)
       /\ sd' = IF Got(High, in) = High /\ sd.i + 1 < Tries THEN Step("poll", sd.i + 1)
                ELSE [Step(CASE sd.cmd = 24 -> "busy1" [] sd.cmd \in {8, 58} -> "spi_r"
                             [] sd.cmd = 17 -> IF Got(High, in) = 0 THEN "token" ELSE "crc"
                             [] OTHER -> "spi_init", 0) EXCEPT !.last = Got(High, in)]

spi_r ==                          \* four bytes, of which nothing is used
  /\ sd.at = "spi_r"
  /\ \E in \in Answers : spi_rw(High, in)
  /\ sd' = IF sd.i < 3 THEN Step("spi_r", sd.i + 1) ELSE Step("spi_init", 0)

spi_init ==                       \* the next command; the last one is never left out,
  /\ sd.at = "spi_init"           \* since ~ is not !
  /\ sd' = CASE sd.cmd = 0  -> Send(8, 170)
             [] sd.cmd = 8  -> Send(55, 0)
             [] sd.cmd = 55 -> Send(41, 64)
             [] sd.cmd = 41 -> IF sd.last # 0 /\ sd.tries + 1 < Attempts
                               THEN [Send(55, 0) EXCEPT !.tries = sd.tries + 1]
                               ELSE Send(58, 0)
             [] sd.cmd = 58 -> Send(16, 2)
             [] sd.cmd = 16 -> AtRest(sd.boot)
  /\ UNCHANGED card

Restart ==                        \* a reset, or the loader jumps to the kernel
  sd.at = "idle" /\ sd' = Starting(~sd.boot) /\ UNCHANGED card

spi_rbToken ==                    \* waits for a byte that is not 255
  /\ sd.at = "token"
  /\ \E in \in Answers :
       /\ spi_rw(High, in)
       /\ sd' = IF Got(High, in) = High /\ sd.i + 1 < Patience THEN Step("token", sd.i + 1)
                ELSE Step("read", 1)

spi_rbData ==                     \* the kernel keeps the checksum's bytes in buf
  /\ sd.at = "read"
  /\ \E in \in Answers :
       /\ spi_rw(High, in)
       /\ sd' = [Step(IF sd.i < BLEN + 2 THEN "read" ELSE "crc",
                      IF sd.i < BLEN + 2 THEN sd.i + 1 ELSE 0) EXCEPT
                   !.buf = IF sd.i \in DOMAIN sd.buf THEN [@ EXCEPT ![sd.i] = Got(High, in)] ELSE @,
                   !.crc = IF sd.boot THEN crc16(@, Got(High, in)) ELSE 0]

(* Slip: the checksum is not looked at. *)
spi_rbUnchecked == sd.at = "crc" /\ sd' = Step("done", 0) /\ UNCHANGED card
spi_rbCheck ==                    \* the boot loader's callers stop on any crc but 0
  /\ sd.at = "crc"
  /\ IF (IF sd.boot THEN sd.crc ELSE getCRC16(sd.buf)) # 0 THEN Halt ELSE sd' = Step("done", 0) /\ UNCHANGED card

\* The two waits of spi_wb: before the data token and after the data.
Busy(here, next) ==
  /\ sd.at = here
  /\ \E in \in Answers :
       /\ spi_rw(High, in)
       /\ sd' = IF Got(High, in) = High THEN Step(next, 0)
                ELSE IF sd.i > Patience THEN Step("panic", 0) ELSE Step(here, sd.i + 1)

spi_wbData ==                     \* the token, buf with its two spare bytes, and 255
  /\ sd.at = "write"
  /\ LET bytes == <<Token>> \o sd.buf \o <<High>> IN
     /\ \E in \in Answers : spi_rw(bytes[sd.i + 1], in)
     /\ sd' = IF sd.i + 1 < Len(bytes) THEN Step("write", sd.i + 1) ELSE Step("busy2", 0)

Return == sd.at = "done" /\ sd' = AtRest(sd.boot) /\ UNCHANGED card

SdInit ==
  /\ sd = Starting(TRUE)
  /\ card = [at |-> "ready", n |-> 0, cmd |-> 0, arg |-> 0, unready |-> 1, frame |-> <<>>,
             stored |-> [b \in Sector |-> [k \in 1 .. BLEN |-> 0]]]

SdNext ==
  \/ \E block \in Sector, b \in Block :
       BootCall(block, b) \/ (\E cmd \in Transfers : KernelCall(cmd, block, b))
  \/ spi_cmd \/ spi_cmdPoll \/ spi_r \/ spi_init \/ Restart
  \/ spi_rbToken \/ spi_rbData \/ spi_rbCheck
  \/ Busy("busy1", "write") \/ spi_wbData \/ Busy("busy2", "done") \/ Return

SdSpec == SdInit /\ [][SdNext]_sdcard

-----------------------------------------------------------------------------
\* The counters stay below their limits.
SdTypeOK == sd.i \in 0 .. Patience + BLEN + 4 /\ card.n \in 0 .. Delay + 1

\* A transfer that returns has moved the block it was asked for: buf holds
\* what the card stores there, also when the card was late, answered with an
\* error token or the line flipped a bit (spi_rb panics then).  The driver and
\* the card finish together: a command is only sent to a card that is neither
\* sending data, nor busy, nor waiting for a block, and a block is only asked
\* for when spi_init() has started the card.
TransferExact ==
  /\ sd.at = "done" => SubSeq(sd.buf, 1, BLEN) = card.stored[sd.arg]
  /\ sd.at \in {"idle", "done"} => card.at = "ready" /\ card.unready = 0
=============================================================================
