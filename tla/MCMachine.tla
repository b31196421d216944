------------------------------- MODULE MCMachine -------------------------------
(***************************************************************************)
(* Five parts of the system that share no state, explored one at a time:   *)
(* traps and the switch between threads (Cpu), the console (Terminal), the *)
(* card (SdCard), the way to the memory (MemoryPath) and the arithmetic    *)
(* (Alu).  The variable part, chosen at the start, says which of them      *)
(* runs; the others stay as they started.                                  *)
(***************************************************************************)
EXTENDS Cpu, Terminal, SdCard, MemoryPath, Alu, TLC

VARIABLE part

rest == <<machine, terminal, sdcard, path, alu>>

(* MemoryPath: a root page table whose entries point to page 1, valid, and *)
(* to page 2, not valid; a second level with one valid entry, to page 2.   *)
Pte(valid, ppn) == <<valid, ppn, 0, 0>>
MCMemory == {0 :> (0 :> Pte(1, 1) @@ 1 :> Pte(0, 2))
               @@ 1 :> (0 :> Pte(1, 2) @@ 1 :> Pte(0, 0))
               @@ 2 :> (0 :> <<1, 2, 3, 4>> @@ 1 :> Pte(1, 1))}
MCLanes == {1 .. 4, 3 .. 4, {2}}
MCWord == {<<0, 2, 1, 0>>}

(* Bound: stores change at most one word of the memory.                    *)
OneWord ==
  \E m \in Memory, p \in Frame, w \in Index :
    \A q \in Frame, x \in Index : <<q, x>> = <<p, w>> \/ chip[q][x] = m[q][x]

(* Bound: only one of the two rings of the console turns.                  *)
OneTurns == tx.r = 0 \/ cons.r = 0

PartsInit ==
  /\ part \in {"cpu", "terminal", "card", "path", "alu"}
  /\ CpuInit /\ TerminalInit /\ SdInit /\ PathInit /\ AluInit
  /\ part # "terminal" => uart.the
  /\ part # "alu" => in1 = 0 /\ in2 = 0
                     /\ instr = [funct3 |-> 0, bit30 |-> FALSE, register |-> FALSE]

PartsNext ==
  /\ part' = part
  /\ \/ /\ part = "cpu" /\ CpuNext
        /\ UNCHANGED <<terminal, sdcard, path, alu>>
     \/ /\ part = "terminal" /\ TerminalNext
        /\ UNCHANGED <<machine, sdcard, path, alu>>
     \/ /\ part = "card" /\ SdNext
        /\ UNCHANGED <<machine, terminal, path, alu>>
     \/ /\ part = "path" /\ PathNext
        /\ UNCHANGED <<machine, terminal, sdcard, alu>>
     \/ /\ part = "alu" /\ AluNext
        /\ UNCHANGED <<machine, terminal, sdcard, path>>

PartsSpec == PartsInit /\ [][PartsNext]_<<part, rest>>

\* Every variable of the five parts has its type.
PartsTypeOK == CpuTypeOK /\ TerminalTypeOK /\ SdTypeOK /\ PathTypeOK
================================================================================
