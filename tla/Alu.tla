-------------------------------- MODULE Alu --------------------------------
(***************************************************************************)
(* The arithmetic of the processor, rv32.v: the ALU with its subtracter    *)
(* that also compares, the barrel shifters, the branch predicate, and the  *)
(* byte lanes of loads and stores.  Words are numbers below 2^WIDTH; the   *)
(* memory word is four bytes below 2^BYTE.                                 *)
(***************************************************************************)
EXTENDS Integers, Sequences, Bitwise, SequencesExt

CONSTANTS STAGES,     \* stages of a barrel shifter (5); WIDTH is 2^STAGES (32)
          BYTE        \* bits of a byte (8)

ASSUME AluAssumption == STAGES \in Nat \ {0} /\ BYTE \in Nat \ {0}

VARIABLES instr,      \* the instruction: funct3, bit 30, register form
          in1, in2,   \* alu_In1, alu_In2
          rd          \* what is written back; -1 before
VARIABLES lane        \* a store and the load after it: addr, size, bytes

alu == <<instr, in1, in2, rd, lane>>

WIDTH == 2^STAGES
Mask == 2^WIDTH
SignBit(x) == x \div 2^(WIDTH - 1)
B(condition) == IF condition THEN 1 ELSE 0

(***************************************************************************)
(* The circuits.                                                           *)
(***************************************************************************)
alu_Plus == (in1 + in2) % Mask
alu_Minus == ((Mask + (Mask - 1 - in2)) + in1 + 1) % (2 * Mask)   \* WIDTH + 1 bits
(* Slip: the signed comparison looks at the borrow alone. *)
alu_ltBorrow == alu_Minus >= Mask
alu_lt == IF SignBit(in1) # SignBit(in2) THEN SignBit(in1) = 1 ELSE alu_Minus >= Mask
alu_ltu == alu_Minus >= Mask
alu_eq == alu_Minus % Mask = 0

Amount(k) == (in2 \div 2^k) % 2 = 1           \* bit k of the shift amount
Stages == [i \in 1 .. STAGES |-> STAGES - i]  \* 16, 8, 4, 2, 1 places
alu_rightShift ==
  LET in == IF instr.bit30 THEN SignBit(in1) ELSE 0
      Stage(x, k) == IF Amount(k) THEN x \div 2^(2^k) + in * (Mask - 2^(WIDTH - 2^k)) ELSE x
  IN  FoldLeft(Stage, in1, Stages)
alu_leftShift ==
  FoldLeft(LAMBDA x, k : IF Amount(k) THEN (x * 2^(2^k)) % Mask ELSE x, in1, Stages)

alu_Out ==
  CASE instr.funct3 = 0 -> IF instr.bit30 /\ instr.register THEN alu_Minus % Mask ELSE alu_Plus
    [] instr.funct3 = 1 -> alu_leftShift
    [] instr.funct3 = 2 -> B(alu_lt)
    [] instr.funct3 = 3 -> B(alu_ltu)
    [] instr.funct3 = 4 -> in1 ^^ in2
    [] instr.funct3 = 5 -> alu_rightShift
    [] instr.funct3 = 6 -> in1 | in2
    [] instr.funct3 = 7 -> in1 & in2

alu_predicate ==
  CASE instr.funct3 = 0 -> alu_eq  [] instr.funct3 = 1 -> ~alu_eq
    [] instr.funct3 = 4 -> alu_lt  [] instr.funct3 = 5 -> ~alu_lt
    [] instr.funct3 = 6 -> alu_ltu [] instr.funct3 = 7 -> ~alu_ltu
    [] OTHER -> FALSE

\* The lanes: bytes are numbered 0 .. 3 from the lowest.
Odd == lane.addr % 2 = 1
Upper == lane.addr \div 2 = 1
store_wmask ==
  CASE lane.size = 1 -> {lane.addr}
    [] lane.size = 2 -> IF Upper THEN {2, 3} ELSE {0, 1}
    [] OTHER -> 0 .. 3
o_dat_w ==                        \* of rs2, the register stored
  LET rs2 == lane.rs2 IN
  <<rs2[1], IF Odd THEN rs2[1] ELSE rs2[2], IF Upper THEN rs2[1] ELSE rs2[3],
    IF Odd THEN rs2[1] ELSE IF Upper THEN rs2[2] ELSE rs2[4]>>
load_data ==
  LET d == lane.word
      half == IF Upper THEN <<d[3], d[4]>> ELSE <<d[1], d[2]>>
      byte == IF Odd THEN half[2] ELSE half[1]
      top == 2^(BYTE - 1)
      sign == ~lane.unsigned /\ (IF lane.size = 1 THEN byte ELSE half[2]) >= top
      fill == IF sign THEN 2^BYTE - 1 ELSE 0
  IN  CASE lane.size = 1 -> <<byte, fill, fill, fill>>
        [] lane.size = 2 -> half \o <<fill, fill>>
        [] OTHER -> d

(***************************************************************************)
(* One instruction: an ALU operation, or a store and the load after it.    *)
(***************************************************************************)
Registers == [1 .. 4 -> {0, 2^BYTE - 1, 1}]
NoLane == [addr |-> 0, size |-> 4, unsigned |-> FALSE, rs2 |-> <<0, 0, 0, 0>>,
           word |-> <<0, 0, 0, 0>>, at |-> "none"]

AluInit ==
  /\ rd = -1 /\ in1 \in 0 .. Mask - 1 /\ in2 \in 0 .. Mask - 1
  /\ instr \in [funct3 : 0 .. 7, bit30 : BOOLEAN, register : BOOLEAN]
  /\ lane = NoLane

Compute == rd = -1 /\ rd' = alu_Out /\ UNCHANGED <<instr, in1, in2, lane>>

StoreWord(rs2, addr, size, unsigned) ==
  /\ rd = 0 /\ lane.at = "none" /\ addr % size = 0 /\ in1 = 0 /\ in2 = 0 /\ instr.funct3 = 0
  /\ lane' = [NoLane EXCEPT !.addr = addr, !.size = size, !.unsigned = unsigned, !.rs2 = rs2,
                            !.at = "store", !.word = <<1, 1, 1, 1>>]
  /\ UNCHANGED <<instr, in1, in2, rd>>
LoadLanes ==                         \* the memory takes the masked bytes
  /\ lane.at = "store"
  /\ lane' = [lane EXCEPT !.at = "load",
       !.word = [k \in 1 .. 4 |-> IF k - 1 \in store_wmask THEN o_dat_w[k] ELSE lane.word[k]]]
  /\ UNCHANGED <<instr, in1, in2, rd>>

AluNext ==
  \/ Compute \/ LoadLanes
  \/ \E rs2 \in Registers, addr \in 0 .. 3, size \in {1, 2, 4}, u \in BOOLEAN :
       StoreWord(rs2, addr, size, u)

AluSpec == AluInit /\ [][AluNext]_alu

-----------------------------------------------------------------------------
Signed(x) == IF x >= 2^(WIDTH - 1) THEN x - Mask ELSE x
Places == in2 % WIDTH

\* The circuits compute what the instruction set asks for: the subtracter's
\* borrow decides every comparison, the shifter stages add up, and a signed
\* right shift divides and rounds down.
AluExact ==
  rd # -1 =>
    rd = CASE instr.funct3 = 0 -> (IF instr.bit30 /\ instr.register THEN in1 - in2 ELSE in1 + in2) % Mask
           [] instr.funct3 = 1 -> (in1 * 2^Places) % Mask
           [] instr.funct3 = 2 -> B(Signed(in1) < Signed(in2))
           [] instr.funct3 = 3 -> B(in1 < in2)
           [] instr.funct3 = 5 -> ((IF instr.bit30 THEN Signed(in1) ELSE in1) \div 2^Places) % Mask
           [] OTHER -> rd

\* A branch is taken exactly when its comparison holds.
BranchExact ==
  alu_predicate =
    CASE instr.funct3 = 0 -> in1 = in2 [] instr.funct3 = 1 -> in1 # in2
      [] instr.funct3 = 4 -> Signed(in1) < Signed(in2)
      [] instr.funct3 = 5 -> Signed(in1) >= Signed(in2)
      [] instr.funct3 = 6 -> in1 < in2 [] instr.funct3 = 7 -> in1 >= in2 [] OTHER -> FALSE

\* A load that follows a store of the same size to the same address returns
\* the bytes stored, extended with their sign or with zero, and the store has
\* changed no other byte of the word.
LanesExact ==
  lane.at = "load" =>
    LET n == lane.size
        fill == IF ~lane.unsigned /\ lane.rs2[n] >= 2^(BYTE - 1) THEN 2^BYTE - 1 ELSE 0
    IN  /\ load_data = [k \in 1 .. 4 |-> IF k <= n THEN lane.rs2[k] ELSE fill]
        /\ \A k \in 1 .. 4 : k - 1 \notin lane.addr .. lane.addr + n - 1 => lane.word[k] = 1

\* The circuits of rv32.v compute what the instruction set asks for.
ArithmeticExact == AluExact /\ BranchExact /\ LanesExact
=============================================================================
