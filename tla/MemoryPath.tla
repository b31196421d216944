----------------------------- MODULE MemoryPath -----------------------------
(***************************************************************************)
(* The way of a load, a store or a fetch from the processor to the memory  *)
(* chip, cycle by cycle: vma.v walks the two levels of the Sv32 page table *)
(* and sram.v makes a 32-bit access of two 16-bit accesses.  All registers *)
(* change together at the clock edge (action Clock), from the wires, which *)
(* are operators of the state.                                             *)
(***************************************************************************)
EXTENDS Integers

CONSTANTS Frame,       \* physical pages; Root is the page satp points to
          Root,
          Index,      \* entries of a page table and words of a page
          Lanes,      \* the byte masks stores use, sets of lanes 1 .. 4
          Word,       \* the words stored
          Memory      \* the contents the chip may start with

\* Words as four bytes.  Any second byte is the number of a page: the chip takes
\* of it what its address lines carry, and other devices are left out.
Words == {w \in [1 .. 4 -> Nat] : w[2] \in Frame}

ASSUME MemoryPathAssumption ==
  /\ Root \in Frame /\ Index \subseteq Frame
  /\ Lanes \subseteq (SUBSET (1 .. 4)) \ {{}}
  /\ Word \subseteq Words /\ Memory \subseteq [Frame -> [Index -> Words]]

VARIABLES req,     \* the access of the processor: r_stb, address, mask, data
          vma,     \* walk1, walk2, walk3, their strobes and pte
          sram,    \* mem_r1, mem_w1, mem_w2, mem_w3, o_ack, data_out, cache
          chip,    \* the words of the memory, as four bytes, the lowest first
          before   \* the memory when the access started

path == <<req, vma, sram, chip, before>>

NoWalk == [walk1 |-> FALSE, walk2 |-> FALSE, walk3 |-> FALSE,
           stb1 |-> FALSE, stb2 |-> FALSE, stb3 |-> FALSE, pte |-> <<0, 0, 0, 0>>]
Quiet == [r1 |-> FALSE, w1 |-> FALSE, w2 |-> FALSE, w3 |-> FALSE, ack |-> FALSE,
          out |-> <<0, 0>>, cache |-> <<0, 0>>]
NoAccess == [busy |-> FALSE, stb |-> FALSE, we |-> {}, data |-> <<0, 0, 0, 0>>,
             virtual |-> FALSE, vpn1 |-> Root, vpn0 |-> Root, offset |-> Root]

\* A page table entry: V is the lowest bit of its first byte, the page number
\* is in its second.
Valid(pte) == pte[1] % 2 = 1
PPN(pte) == pte[2]

(***************************************************************************)
(* The wires of vma.v.                                                     *)
(***************************************************************************)
p_addr ==
  IF ~req.virtual THEN [page |-> req.vpn0, word |-> req.offset]
  ELSE IF vma.walk1 THEN [page |-> Root, word |-> req.vpn1]
  ELSE [page |-> PPN(vma.pte), word |-> IF vma.walk2 THEN req.vpn0 ELSE req.offset]
p_stb == IF req.virtual THEN vma.stb1 \/ vma.stb2 \/ vma.stb3 ELSE req.stb
p_we == IF ~req.virtual \/ vma.walk3 THEN req.we ELSE {}
v_ack == sram.ack /\ (req.virtual => vma.walk3)

(***************************************************************************)
(* The wires of sram.v, and the chip.  high is the lowest address line.    *)
(***************************************************************************)
rstrb == p_stb /\ p_we = {}
wstrb == p_stb /\ p_we # {}
(* Slip: the third state of a store drives the low half. *)
highEarly == sram.r1 \/ sram.w2
high == sram.r1 \/ sram.w2 \/ sram.w3
Half(word) == IF high THEN <<word[3], word[4]>> ELSE <<word[1], word[2]>>
io_d == Half(chip[p_addr.page][p_addr.word])
\* o_dat_r: the low half was kept.
dat_r == <<sram.cache[1], sram.cache[2], io_d[1], io_d[2]>>

\* data_out: the masked bytes of the store over what the chip holds.
Merged(low) ==
  [k \in 1 .. 2 |-> IF low + k \in p_we THEN req.data[low + k] ELSE io_d[k]]

NextSram ==
  [r1 |-> rstrb /\ ~sram.r1, w1 |-> wstrb /\ ~sram.w1,
   w2 |-> sram.w1 /\ ~sram.w2, w3 |-> sram.w2 /\ ~sram.w3,
   ack |-> ~sram.ack /\ (rstrb \/ (sram.w2 /\ ~sram.w3)),
   out |-> IF wstrb THEN Merged(0) ELSE IF sram.w2 THEN Merged(2) ELSE sram.out,
   cache |-> IF rstrb THEN io_d ELSE sram.cache]

NextChip ==                                     \* o_sram_wen is low
  IF sram.w1 \/ sram.w3
  THEN [chip EXCEPT ![p_addr.page][p_addr.word] =
          IF high THEN <<@[1], @[2], sram.out[1], sram.out[2]>>
          ELSE <<sram.out[1], sram.out[2], @[3], @[4]>>]
  ELSE chip

NextVma ==
  LET walks == vma.walk1 \/ vma.walk2
      fault == walks /\ sram.ack /\ ~Valid(dat_r)
  IN  IF fault THEN NoWalk
      ELSE [walk1 |-> (req.virtual /\ req.stb) \/ (vma.walk1 /\ ~sram.ack),
            walk2 |-> IF vma.walk1 /\ sram.ack THEN TRUE ELSE vma.walk2 /\ ~sram.ack,
            walk3 |-> IF vma.walk2 /\ sram.ack THEN TRUE ELSE vma.walk3 /\ ~sram.ack,
            stb1 |-> req.virtual /\ req.stb /\ ~vma.stb1,
            stb2 |-> vma.walk1 /\ sram.ack /\ ~vma.stb2,
            stb3 |-> vma.walk2 /\ sram.ack /\ ~vma.stb3,
            pte |-> IF walks /\ sram.ack THEN dat_r ELSE vma.pte]

(***************************************************************************)
(* A clock cycle.  The processor strobes for one cycle and keeps address   *)
(* and data until the acknowledge.                                         *)
(***************************************************************************)
Clock ==
  /\ req.busy
  /\ sram' = NextSram /\ vma' = NextVma /\ chip' = NextChip
  /\ req' = IF v_ack THEN NoAccess ELSE [req EXCEPT !.stb = FALSE]
  /\ UNCHANGED before

Start(virtual, vpn1, vpn0, offset, we, data) ==
  /\ ~req.busy
  /\ req' = [busy |-> TRUE, stb |-> TRUE, we |-> we, data |-> data, virtual |-> virtual,
             vpn1 |-> vpn1, vpn0 |-> vpn0, offset |-> offset]
  /\ before' = chip
  /\ UNCHANGED <<vma, sram, chip>>

PathInit ==
  /\ req = NoAccess /\ vma = NoWalk /\ sram = Quiet
  /\ chip \in Memory /\ before = chip

PathNext ==
  \/ Clock
  \/ \E virtual \in BOOLEAN, vpn1, vpn0, offset \in Index :
       \/ Start(virtual, vpn1, vpn0, offset, {}, NoAccess.data)
       \/ \E we \in Lanes, data \in Word : Start(virtual, vpn1, vpn0, offset, we, data)

PathSpec == PathInit /\ [][PathNext]_path

-----------------------------------------------------------------------------
\* One access at a time, and the devices are quiet between two.
PathTypeOK ==
  /\ req.we \subseteq 1 .. 4 /\ vma.pte \in [1 .. 4 -> Nat]
  /\ ~req.busy => ~sram.ack /\ ~sram.w1 /\ ~sram.w3 /\ ~vma.walk1 /\ ~vma.walk2 /\ ~vma.walk3

\* What an access means: the word it is about in the memory m, if its page is
\* mapped, and the memory afterwards.
Entry(m) == m[Root][req.vpn1]
Leaf(m) == m[PPN(Entry(m))][req.vpn0]
Mapped(m) == req.virtual => Valid(Entry(m)) /\ Valid(Leaf(m))
Target(m) == IF req.virtual THEN [page |-> PPN(Leaf(m)), word |-> req.offset]
             ELSE [page |-> req.vpn0, word |-> req.offset]
Stored(m) ==
  LET t == Target(m) IN
  [m EXCEPT ![t.page][t.word] =
     [k \in 1 .. 4 |-> IF k \in req.we THEN req.data[k] ELSE m[t.page][t.word][k]]]

\* An acknowledged load got the word its virtual address stands for, and an
\* acknowledged store has changed the bytes of its mask in that word, nothing
\* else; the walk and the two halves do not show.  A walk that meets an entry
\* without V changes nothing, and its access is never acknowledged: the
\* processor waits for ever (o_exception is 0).
AccessExact ==
  [][ req.busy =>
        IF req'.busy THEN ~Mapped(before) => chip' = before
        ELSE /\ Mapped(before)
             /\ req.we = {} => /\ dat_r = before[Target(before).page][Target(before).word]
                               /\ chip' = before
             /\ req.we # {} => chip' = Stored(before) ]_path
=============================================================================
