------------------------------- MODULE PipeProofs -------------------------------
(***************************************************************************)
(* Proofs about a pipe for any number of processes and any size of the     *)
(* ring: the inductive invariant IInv and what follows from it.            *)
(***************************************************************************)
EXTENDS Pipe, Integers, TLAPS

(* The ring index and the counters stay in their ranges.                    *)
LEMMA CountFacts ==
  /\ \A x \in 0 .. UINT - 1 : (x + 1) % UINT \in 0 .. UINT - 1 /\ x % PIPESIZE \in 0 .. PIPESIZE - 1
  /\ 0 \in 0 .. UINT - 1 /\ 0 \in 0 .. MaxCount
  /\ \A n \in 0 .. MaxCount : n > 0 => n - 1 \in 0 .. MaxCount
  BY SMT, ConstAssumption

(* Arithmetic of remainders.                                                *)
LEMMA DivMod ==
  ASSUME NEW n \in Nat \ {0}, NEW a \in Nat
  PROVE  a = n * (a \div n) + (a % n) /\ a % n \in 0 .. n - 1 /\ a \div n \in Nat
  BY SMT

LEMMA Multiple ==
  ASSUME NEW n \in Nat \ {0}, NEW d \in Int, d >= 1
  PROVE  n * d >= n
  BY SMT

LEMMA Remainder ==
  ASSUME NEW n \in Nat \ {0}, NEW q \in Int, NEW s \in Int,
         NEW r \in 0 .. n - 1, NEW t \in 0 .. n - 1, n * q + r = n * s + t
  PROVE  r = t
<1>1. n * (q - s) = t - r /\ n * (s - q) = r - t
  BY SMT
<1>2. CASE q > s
  <2>1. n * (q - s) >= n
    BY <1>2, Multiple
  <2> QED
    BY <2>1, <1>1, SMT
<1>3. CASE q < s
  <2>1. n * (s - q) >= n
    BY <1>3, Multiple
  <2> QED
    BY <2>1, <1>1, SMT
<1>4. CASE q = s
  BY <1>4, <1>1, SMT
<1> QED
  BY <1>2, <1>3, <1>4

(* One turn of a counter does not change its place in the ring, because the *)
(* size of the ring divides the range of the counters.                      *)
LEMMA SamePlace ==
  ASSUME NEW a \in Nat, a >= UINT
  PROVE  (a - UINT) % PIPESIZE = a % PIPESIZE
<1> DEFINE P == PIPESIZE
           b == a - UINT
<1>0. P \in Nat \ {0} /\ UINT \in Nat /\ UINT % P = 0 /\ b \in Nat
  BY ConstAssumption
<1>1. /\ a = P * (a \div P) + (a % P) /\ a % P \in 0 .. P - 1 /\ a \div P \in Nat
      /\ b = P * (b \div P) + (b % P) /\ b % P \in 0 .. P - 1 /\ b \div P \in Nat
      /\ UINT = P * (UINT \div P) + (UINT % P) /\ UINT \div P \in Nat
  BY <1>0, DivMod
<1> HIDE DEF P
<1>2. P * (b \div P + UINT \div P) + (b % P) = P * (a \div P) + (a % P)
  BY <1>0, <1>1, SMT
<1>3. b % P = a % P
  <2>1. b \div P + UINT \div P \in Int /\ a \div P \in Int
    BY <1>1
  <2> QED
    BY <1>0, <1>1, <1>2, <2>1, Remainder
<1> QED
  BY <1>3 DEF P

(* Different bytes under way are at different places of the ring.           *)
LEMMA OtherPlace ==
  ASSUME NEW a \in Nat, NEW d \in 1 .. PIPESIZE - 1
  PROVE  a % PIPESIZE # (a + d) % PIPESIZE
<1> DEFINE P == PIPESIZE
           b == a + d
<1>0. P \in Nat \ {0} /\ b \in Nat /\ d \in Nat /\ d >= 1 /\ d < P /\ b - a = d
  BY ConstAssumption
<1>1. /\ a = P * (a \div P) + (a % P) /\ a \div P \in Nat /\ a % P \in 0 .. P - 1
      /\ b = P * (b \div P) + (b % P) /\ b \div P \in Nat /\ b % P \in 0 .. P - 1
  BY <1>0, DivMod
<1> HIDE DEF P, b
<1>2. SUFFICES ASSUME a % P = b % P PROVE FALSE
  BY DEF P, b
<1>3. P * (b \div P - a \div P) = d
  BY <1>0, <1>1, <1>2, SMT
<1>4. b \div P - a \div P >= 1
  <2>1. CASE b \div P - a \div P <= 0
    <3>1. P * (a \div P - b \div P) >= 0
      BY <2>1, <1>0, <1>1, SMT
    <3>2. P * (a \div P - b \div P) = 0 - d
      BY <1>3, <1>0, <1>1, SMT
    <3> QED
      BY <3>1, <3>2, <1>0, SMT
  <2> QED
    BY <2>1, <1>1, SMT
<1> QED
  BY <1>0, <1>1, <1>3, <1>4, Multiple, SMT

(* The counters, and what is under way, without remainders.                 *)
LEMMA CounterFacts ==
  ASSUME NEW r \in 0 .. UINT - 1, NEW w \in 0 .. UINT - 1
  PROVE  /\ (r + 1) % UINT = IF r + 1 = UINT THEN 0 ELSE r + 1
         /\ (r + PIPESIZE) % UINT = IF r + PIPESIZE < UINT THEN r + PIPESIZE
                                      ELSE r + PIPESIZE - UINT
         /\ (w + UINT - r) % UINT = IF w >= r THEN w - r ELSE w + UINT - r
<1>0. UINT \in Nat \ {0} /\ PIPESIZE \in Nat /\ PIPESIZE < UINT
  BY ConstAssumption
<1>1. \A a \in 0 .. UINT - 1 : a % UINT = a
  BY <1>0, SMT
<1>2. \A a \in UINT .. 2 * UINT - 1 : a % UINT = a - UINT
  BY <1>0, SMT
<1> QED
  BY <1>0, <1>1, <1>2

(* Every step keeps the types.                                               *)
LEMMA TypeStep ==
  ASSUME IInv, [Next]_vars
  PROVE  TypeOK'
<1> USE CountFacts DEF IInv, TypeOK, Labels, Reads, Writes, ring, ends
<1>1. ASSUME NEW p \in Proc, PipeAlloc(p) PROVE TypeOK'
  BY <1>1 DEF PipeAlloc, Syscall
<1>2. ASSUME NEW p \in Proc, PipeClose(p) PROVE TypeOK'
  BY <1>2 DEF PipeClose, WakeReaders, WakeWriters, Wakeup, Goto
<1>3. ASSUME NEW p \in Proc, WriteLock(p) PROVE TypeOK'
  BY <1>3 DEF WriteLock, Goto
<1>4. ASSUME NEW p \in Proc, WriteAbort(p) PROVE TypeOK'
  BY <1>4 DEF WriteAbort, Goto
<1>5. ASSUME NEW p \in Proc, WriteReady(p) PROVE TypeOK'
  BY <1>5 DEF WriteReady, Goto
<1>6. ASSUME NEW p \in Proc, WriteSleep(p) PROVE TypeOK'
  BY <1>6 DEF WriteSleep, WakeReaders, Wakeup, Goto
<1>7. ASSUME NEW p \in Proc, WriteDone(p) PROVE TypeOK'
  BY <1>7 DEF WriteDone, WakeReaders, Wakeup, Goto
<1>8. ASSUME NEW p \in Proc, ReadLock(p) PROVE TypeOK'
  BY <1>8 DEF ReadLock, Goto
<1>9. ASSUME NEW p \in Proc, ReadAbort(p) PROVE TypeOK'
  BY <1>9 DEF ReadAbort, MustWait, Goto
<1>10. ASSUME NEW p \in Proc, ReadReady(p) PROVE TypeOK'
  BY <1>10 DEF ReadReady, MustWait, Goto
<1>11. ASSUME NEW p \in Proc, ReadSleep(p) PROVE TypeOK'
  BY <1>11 DEF ReadSleep, Goto
<1>12. ASSUME NEW p \in Proc, ReadCopy(p) PROVE TypeOK'
  BY <1>12 DEF ReadCopy, Goto
<1>13. ASSUME NEW p \in Proc, ReadByte(p) PROVE TypeOK'
  BY <1>13 DEF ReadByte
<1>14. ASSUME NEW p \in Proc, ReadFault(p) PROVE TypeOK'
  BY <1>14 DEF ReadFault, WakeWriters, Wakeup, Goto
<1>15. ASSUME NEW p \in Proc, ReadDone(p) PROVE TypeOK'
  BY <1>15 DEF ReadDone, WakeWriters, Wakeup, Goto
<1>16. ASSUME NEW p \in Proc, Kill(p) PROVE TypeOK'
  BY <1>16 DEF Kill, Goto
<1>17. ASSUME NEW p \in Proc, Exit(p) PROVE TypeOK'
  BY <1>17 DEF Exit
<1>18. ASSUME NEW p \in Proc, NEW q \in Proc, Fork(p, q) PROVE TypeOK'
  BY <1>18 DEF Fork, Syscall
<1>19. ASSUME NEW p \in Proc, NEW e \in {"read", "write"}, FileClose(p, e) PROVE TypeOK'
  BY <1>19 DEF FileClose, Goto
<1>20. ASSUME NEW p \in Proc, NEW b \in Byte, WriteByte(p, b) PROVE TypeOK'
  BY <1>20 DEF WriteByte, Goto, LockInv
<1>21. ASSUME NEW p \in Proc, NEW n \in 0 .. MaxCount, Write(p, n) PROVE TypeOK'
  BY <1>21 DEF Write, Syscall, Goto
<1>22. ASSUME NEW p \in Proc, NEW n \in 0 .. MaxCount, Read(p, n) PROVE TypeOK'
  BY <1>22 DEF Read, Syscall, Goto
<1>23. CASE UNCHANGED vars
  BY <1>23 DEF vars, ring, ends
<1> QED
  BY <1>1, <1>2, <1>3, <1>4, <1>5, <1>6, <1>7, <1>8, <1>9, <1>10, <1>11,
     <1>12, <1>13, <1>14, <1>15, <1>16, <1>17, <1>18, <1>19, <1>20, <1>21, <1>22, <1>23
  DEF Next, Step

(* The lock belongs to the one process in a loop.                            *)
LEMMA LockStep ==
  ASSUME IInv, TypeOK', [Next]_vars
  PROVE  LockInv'
<1> USE ConstAssumption DEF IInv, TypeOK, LockInv, EndInv, Empty, Labels, Reads, Writes, ring, ends
<1>1. ASSUME NEW p \in Proc, PipeAlloc(p) PROVE LockInv'
  BY <1>1 DEF PipeAlloc, Syscall
<1>2. ASSUME NEW p \in Proc, PipeClose(p) PROVE LockInv'
  BY <1>2 DEF PipeClose, WakeReaders, WakeWriters, Wakeup, Goto
<1>3. ASSUME NEW p \in Proc, WriteLock(p) PROVE LockInv'
  BY <1>3 DEF WriteLock, Goto
<1>4. ASSUME NEW p \in Proc, WriteAbort(p) PROVE LockInv'
  BY <1>4 DEF WriteAbort, Goto
<1>5. ASSUME NEW p \in Proc, WriteReady(p) PROVE LockInv'
  BY <1>5 DEF WriteReady, Goto
<1>6. ASSUME NEW p \in Proc, WriteSleep(p) PROVE LockInv'
  BY <1>6 DEF WriteSleep, WakeReaders, Wakeup, Goto
<1>7. ASSUME NEW p \in Proc, WriteDone(p) PROVE LockInv'
  BY <1>7 DEF WriteDone, WakeReaders, Wakeup, Goto
<1>8. ASSUME NEW p \in Proc, ReadLock(p) PROVE LockInv'
  BY <1>8 DEF ReadLock, Goto
<1>9. ASSUME NEW p \in Proc, ReadAbort(p) PROVE LockInv'
  BY <1>9 DEF ReadAbort, MustWait, Goto
<1>10. ASSUME NEW p \in Proc, ReadReady(p) PROVE LockInv'
  BY <1>10 DEF ReadReady, MustWait, Goto
<1>11. ASSUME NEW p \in Proc, ReadSleep(p) PROVE LockInv'
  BY <1>11 DEF ReadSleep, Goto
<1>12. ASSUME NEW p \in Proc, ReadCopy(p) PROVE LockInv'
  BY <1>12 DEF ReadCopy, Goto
<1>13. ASSUME NEW p \in Proc, ReadByte(p) PROVE LockInv'
  BY <1>13 DEF ReadByte
<1>14. ASSUME NEW p \in Proc, ReadFault(p) PROVE LockInv'
  BY <1>14 DEF ReadFault, WakeWriters, Wakeup, Goto
<1>15. ASSUME NEW p \in Proc, ReadDone(p) PROVE LockInv'
  BY <1>15 DEF ReadDone, WakeWriters, Wakeup, Goto
<1>16. ASSUME NEW p \in Proc, Kill(p) PROVE LockInv'
  BY <1>16 DEF Kill, Goto
<1>17. ASSUME NEW p \in Proc, Exit(p) PROVE LockInv'
  BY <1>17 DEF Exit
<1>18. ASSUME NEW p \in Proc, NEW q \in Proc, Fork(p, q) PROVE LockInv'
  BY <1>18 DEF Fork, Syscall
<1>19. ASSUME NEW p \in Proc, NEW e \in {"read", "write"}, FileClose(p, e) PROVE LockInv'
  BY <1>19 DEF FileClose, Goto
<1>20. ASSUME NEW p \in Proc, NEW b \in Byte, WriteByte(p, b) PROVE LockInv'
  BY <1>20 DEF WriteByte, Goto
<1>21. ASSUME NEW p \in Proc, NEW n \in 0 .. MaxCount, Write(p, n) PROVE LockInv'
  BY <1>21 DEF Write, Syscall, Goto
<1>22. ASSUME NEW p \in Proc, NEW n \in 0 .. MaxCount, Read(p, n) PROVE LockInv'
  BY <1>22 DEF Read, Syscall, Goto
<1>23. CASE UNCHANGED vars
  BY <1>23 DEF vars, ring, ends
<1> QED
  BY <1>1, <1>2, <1>3, <1>4, <1>5, <1>6, <1>7, <1>8, <1>9, <1>10, <1>11,
     <1>12, <1>13, <1>14, <1>15, <1>16, <1>17, <1>18, <1>19, <1>20, <1>21, <1>22, <1>23
  DEF Next, Step

(* An end stays open as long as anybody needs it, and no longer.              *)
LEMMA EndStep ==
  ASSUME IInv, TypeOK', [Next]_vars
  PROVE  EndInv'
<1> USE ConstAssumption DEF IInv, TypeOK, EndInv, Labels, Reads, Writes, ring, ends
<1>1. ASSUME NEW p \in Proc, PipeAlloc(p) PROVE EndInv'
  BY <1>1 DEF PipeAlloc, Syscall
<1>2. ASSUME NEW p \in Proc, PipeClose(p) PROVE EndInv'
  <2>1. CASE pc[p] = "close_write" /\ pc' = WakeReaders(Goto(p, "user"))
    BY <2>1, <1>2, SMTT(30) DEF PipeClose, WakeReaders, Wakeup, Goto
  <2>2. CASE pc[p] = "close_read" /\ pc' = WakeWriters(Goto(p, "user"))
    BY <2>2, <1>2, SMTT(30) DEF PipeClose, WakeWriters, Wakeup, Goto
  <2> QED
    BY <2>1, <2>2, <1>2 DEF PipeClose
<1>3. ASSUME NEW p \in Proc, WriteLock(p) PROVE EndInv'
  BY <1>3 DEF WriteLock, Goto
<1>4. ASSUME NEW p \in Proc, WriteAbort(p) PROVE EndInv'
  BY <1>4 DEF WriteAbort, Goto
<1>5. ASSUME NEW p \in Proc, WriteReady(p) PROVE EndInv'
  BY <1>5 DEF WriteReady, Goto
<1>6. ASSUME NEW p \in Proc, WriteSleep(p) PROVE EndInv'
  BY <1>6 DEF WriteSleep, WakeReaders, Wakeup, Goto
<1>7. ASSUME NEW p \in Proc, WriteDone(p) PROVE EndInv'
  BY <1>7 DEF WriteDone, WakeReaders, Wakeup, Goto
<1>8. ASSUME NEW p \in Proc, ReadLock(p) PROVE EndInv'
  BY <1>8 DEF ReadLock, Goto
<1>9. ASSUME NEW p \in Proc, ReadAbort(p) PROVE EndInv'
  BY <1>9 DEF ReadAbort, MustWait, Goto
<1>10. ASSUME NEW p \in Proc, ReadReady(p) PROVE EndInv'
  BY <1>10 DEF ReadReady, MustWait, Goto
<1>11. ASSUME NEW p \in Proc, ReadSleep(p) PROVE EndInv'
  BY <1>11 DEF ReadSleep, Goto
<1>12. ASSUME NEW p \in Proc, ReadCopy(p) PROVE EndInv'
  BY <1>12 DEF ReadCopy, Goto
<1>13. ASSUME NEW p \in Proc, ReadByte(p) PROVE EndInv'
  BY <1>13 DEF ReadByte
<1>14. ASSUME NEW p \in Proc, ReadFault(p) PROVE EndInv'
  BY <1>14 DEF ReadFault, WakeWriters, Wakeup, Goto
<1>15. ASSUME NEW p \in Proc, ReadDone(p) PROVE EndInv'
  BY <1>15 DEF ReadDone, WakeWriters, Wakeup, Goto
<1>16. ASSUME NEW p \in Proc, Kill(p) PROVE EndInv'
  BY <1>16 DEF Kill, Goto
<1>17. ASSUME NEW p \in Proc, Exit(p) PROVE EndInv'
  BY <1>17 DEF Exit
<1>18. ASSUME NEW p \in Proc, NEW q \in Proc, Fork(p, q) PROVE EndInv'
  BY <1>18 DEF Fork, Syscall
<1>19. ASSUME NEW p \in Proc, NEW e \in {"read", "write"}, FileClose(p, e) PROVE EndInv'
  BY <1>19 DEF FileClose, Goto
<1>20. ASSUME NEW p \in Proc, NEW b \in Byte, WriteByte(p, b) PROVE EndInv'
  BY <1>20 DEF WriteByte, Goto
<1>21. ASSUME NEW p \in Proc, NEW n \in 0 .. MaxCount, Write(p, n) PROVE EndInv'
  BY <1>21 DEF Write, Syscall, Goto
<1>22. ASSUME NEW p \in Proc, NEW n \in 0 .. MaxCount, Read(p, n) PROVE EndInv'
  BY <1>22 DEF Read, Syscall, Goto
<1>23. CASE UNCHANGED vars
  BY <1>23 DEF vars, ring, ends
<1> QED
  BY <1>1, <1>2, <1>3, <1>4, <1>5, <1>6, <1>7, <1>8, <1>9, <1>10, <1>11,
     <1>12, <1>13, <1>14, <1>15, <1>16, <1>17, <1>18, <1>19, <1>20, <1>21, <1>22, <1>23,
     SMTT(40)
  DEF Next, Step

(* Nobody sleeps over a pipe that has become ready.                          *)
LEMMA WakeStep ==
  ASSUME IInv, TypeOK', [Next]_vars
  PROVE  WakeInv'
<1> USE ConstAssumption DEF IInv, TypeOK, LockInv, EndInv, WakeInv, Empty, Full, Labels, Reads, Writes, ring, ends
<1>1. ASSUME NEW p \in Proc, PipeAlloc(p) PROVE WakeInv'
  BY <1>1 DEF PipeAlloc, Syscall
<1>2. ASSUME NEW p \in Proc, PipeClose(p) PROVE WakeInv'
  BY <1>2 DEF PipeClose, WakeReaders, WakeWriters, Wakeup, Goto
<1>3. ASSUME NEW p \in Proc, WriteLock(p) PROVE WakeInv'
  BY <1>3 DEF WriteLock, Goto
<1>4. ASSUME NEW p \in Proc, WriteAbort(p) PROVE WakeInv'
  BY <1>4 DEF WriteAbort, Goto
<1>5. ASSUME NEW p \in Proc, WriteReady(p) PROVE WakeInv'
  BY <1>5 DEF WriteReady, Goto
<1>6. ASSUME NEW p \in Proc, WriteSleep(p) PROVE WakeInv'
  BY <1>6 DEF WriteSleep, WakeReaders, Wakeup, Goto
<1>7. ASSUME NEW p \in Proc, WriteDone(p) PROVE WakeInv'
  BY <1>7 DEF WriteDone, WakeReaders, Wakeup, Goto
<1>8. ASSUME NEW p \in Proc, ReadLock(p) PROVE WakeInv'
  BY <1>8 DEF ReadLock, Goto
<1>9. ASSUME NEW p \in Proc, ReadAbort(p) PROVE WakeInv'
  BY <1>9 DEF ReadAbort, MustWait, Goto
<1>10. ASSUME NEW p \in Proc, ReadReady(p) PROVE WakeInv'
  BY <1>10 DEF ReadReady, MustWait, Goto
<1>11. ASSUME NEW p \in Proc, ReadSleep(p) PROVE WakeInv'
  BY <1>11 DEF ReadSleep, Goto
<1>12. ASSUME NEW p \in Proc, ReadCopy(p) PROVE WakeInv'
  BY <1>12 DEF ReadCopy, Goto
<1>13. ASSUME NEW p \in Proc, ReadByte(p) PROVE WakeInv'
  BY <1>13 DEF ReadByte
<1>14. ASSUME NEW p \in Proc, ReadFault(p) PROVE WakeInv'
  BY <1>14 DEF ReadFault, WakeWriters, Wakeup, Goto
<1>15. ASSUME NEW p \in Proc, ReadDone(p) PROVE WakeInv'
  BY <1>15 DEF ReadDone, WakeWriters, Wakeup, Goto
<1>16. ASSUME NEW p \in Proc, Kill(p) PROVE WakeInv'
  BY <1>16 DEF Kill, Goto
<1>17. ASSUME NEW p \in Proc, Exit(p) PROVE WakeInv'
  BY <1>17 DEF Exit
<1>18. ASSUME NEW p \in Proc, NEW q \in Proc, Fork(p, q) PROVE WakeInv'
  BY <1>18 DEF Fork, Syscall
<1>19. ASSUME NEW p \in Proc, NEW e \in {"read", "write"}, FileClose(p, e) PROVE WakeInv'
  BY <1>19 DEF FileClose, Goto
<1>20. ASSUME NEW p \in Proc, NEW b \in Byte, WriteByte(p, b) PROVE WakeInv'
  BY <1>20 DEF WriteByte, Goto
<1>21. ASSUME NEW p \in Proc, NEW n \in 0 .. MaxCount, Write(p, n) PROVE WakeInv'
  BY <1>21 DEF Write, Syscall, Goto
<1>22. ASSUME NEW p \in Proc, NEW n \in 0 .. MaxCount, Read(p, n) PROVE WakeInv'
  BY <1>22 DEF Read, Syscall, Goto
<1>23. CASE UNCHANGED vars
  BY <1>23 DEF vars, ring, ends
<1> HIDE DEF WakeInv, Full, Empty, LockInv, EndInv, TypeOK, IInv
<1> QED
  BY <1>1, <1>2, <1>3, <1>4, <1>5, <1>6, <1>7, <1>8, <1>9, <1>10, <1>11,
     <1>12, <1>13, <1>14, <1>15, <1>16, <1>17, <1>18, <1>19, <1>20, <1>21, <1>22, <1>23
  DEF Next, Step

(* Nothing is written into a full ring nor read from an empty one.            *)
LEMMA CountStep ==
  ASSUME IInv, TypeOK', [Next]_vars
  PROVE  CountInv'
<1>a. Count' = IF nwrite' >= nread' THEN nwrite' - nread' ELSE nwrite' + UINT - nread'
  BY CounterFacts DEF Count, TypeOK
<1>e. /\ Count = IF nwrite >= nread THEN nwrite - nread ELSE nwrite + UINT - nread
      /\ (nwrite + 1) % UINT = IF nwrite + 1 = UINT THEN 0 ELSE nwrite + 1
      /\ (nread + 1) % UINT = IF nread + 1 = UINT THEN 0 ELSE nread + 1
      /\ Full <=> nwrite = IF nread + PIPESIZE < UINT THEN nread + PIPESIZE ELSE nread + PIPESIZE - UINT
  BY CounterFacts DEF IInv, TypeOK, Count, Full
<1>f. Count <= PIPESIZE
  BY DEF IInv, CountInv
<1>c. UNCHANGED <<nread, nwrite>> => CountInv'
  BY DEF IInv, CountInv, Count
<1>d. nread \in 0 .. UINT - 1 /\ nwrite \in 0 .. UINT - 1 /\ UINT \in Nat /\ PIPESIZE \in Nat /\ PIPESIZE < UINT
  BY ConstAssumption DEF IInv, TypeOK
<1>b. /\ ~Full => Count < PIPESIZE
      /\ ~Empty => Count > 0
      /\ Count \in 0 .. PIPESIZE
  BY <1>d, <1>e, <1>f DEF Empty
<1> USE DEF ring
<1>1. ASSUME NEW p \in Proc, PipeAlloc(p) PROVE CountInv'
  BY <1>1, <1>a, <1>d DEF PipeAlloc, CountInv
<1>2. ASSUME NEW p \in Proc, PipeClose(p) PROVE CountInv'
  BY <1>2, <1>c DEF PipeClose, WakeReaders, WakeWriters, Wakeup, Goto
<1>3. ASSUME NEW p \in Proc, WriteLock(p) PROVE CountInv'
  BY <1>3, <1>c DEF WriteLock, Goto
<1>4. ASSUME NEW p \in Proc, WriteAbort(p) PROVE CountInv'
  BY <1>4, <1>c DEF WriteAbort, Goto
<1>5. ASSUME NEW p \in Proc, WriteReady(p) PROVE CountInv'
  BY <1>5, <1>c DEF WriteReady, Goto
<1>6. ASSUME NEW p \in Proc, WriteSleep(p) PROVE CountInv'
  BY <1>6, <1>c DEF WriteSleep, WakeReaders, Wakeup, Goto
<1>7. ASSUME NEW p \in Proc, WriteDone(p) PROVE CountInv'
  BY <1>7, <1>c DEF WriteDone, WakeReaders, Wakeup, Goto
<1>8. ASSUME NEW p \in Proc, ReadLock(p) PROVE CountInv'
  BY <1>8, <1>c DEF ReadLock, Goto
<1>9. ASSUME NEW p \in Proc, ReadAbort(p) PROVE CountInv'
  BY <1>9, <1>c DEF ReadAbort, MustWait, Goto
<1>10. ASSUME NEW p \in Proc, ReadReady(p) PROVE CountInv'
  BY <1>10, <1>c DEF ReadReady, MustWait, Goto
<1>11. ASSUME NEW p \in Proc, ReadSleep(p) PROVE CountInv'
  BY <1>11, <1>c DEF ReadSleep, Goto
<1>12. ASSUME NEW p \in Proc, ReadCopy(p) PROVE CountInv'
  BY <1>12, <1>c DEF ReadCopy, Goto
<1>13. ASSUME NEW p \in Proc, ReadByte(p) PROVE CountInv'
  BY <1>13, <1>a, <1>b, <1>d, <1>e DEF ReadByte, CountInv
<1>14. ASSUME NEW p \in Proc, ReadFault(p) PROVE CountInv'
  BY <1>14, <1>a, <1>b, <1>d, <1>e DEF ReadFault, CountInv
<1>15. ASSUME NEW p \in Proc, ReadDone(p) PROVE CountInv'
  BY <1>15, <1>c DEF ReadDone, WakeWriters, Wakeup, Goto
<1>16. ASSUME NEW p \in Proc, Kill(p) PROVE CountInv'
  BY <1>16, <1>c DEF Kill, Goto
<1>17. ASSUME NEW p \in Proc, Exit(p) PROVE CountInv'
  BY <1>17, <1>c DEF Exit
<1>18. ASSUME NEW p \in Proc, NEW q \in Proc, Fork(p, q) PROVE CountInv'
  BY <1>18, <1>c DEF Fork, Syscall
<1>19. ASSUME NEW p \in Proc, NEW e \in {"read", "write"}, FileClose(p, e) PROVE CountInv'
  BY <1>19, <1>c DEF FileClose, Goto
<1>20. ASSUME NEW p \in Proc, NEW b \in Byte, WriteByte(p, b) PROVE CountInv'
  BY <1>20, <1>a, <1>b, <1>d, <1>e DEF WriteByte, CountInv
<1>21. ASSUME NEW p \in Proc, NEW n \in 0 .. MaxCount, Write(p, n) PROVE CountInv'
  BY <1>21, <1>c DEF Write, Syscall, Goto
<1>22. ASSUME NEW p \in Proc, NEW n \in 0 .. MaxCount, Read(p, n) PROVE CountInv'
  BY <1>22, <1>c DEF Read, Syscall, Goto
<1>23. CASE UNCHANGED vars
  BY <1>23, <1>c DEF vars, ring, ends
<1> QED
  BY <1>1, <1>2, <1>3, <1>4, <1>5, <1>6, <1>7, <1>8, <1>9, <1>10, <1>11,
     <1>12, <1>13, <1>14, <1>15, <1>16, <1>17, <1>18, <1>19, <1>20, <1>21, <1>22, <1>23
  DEF Next, Step

(* Before the first pipe().                                                 *)
LEMMA InitInv == Init => IInv
<1>1. Init => CountInv
  BY CounterFacts, CountFacts, ConstAssumption DEF Init, CountInv, Count
<1> QED
  BY <1>1, ConstAssumption, CountFacts
  DEF Init, Empty, Full, IInv, TypeOK, LockInv, EndInv, WakeInv, Reads, Writes, Labels

(* The inductive invariant holds for any number of processes.               *)
THEOREM PipeInvariance == Spec => []IInv
<1>1. Init => IInv
  BY InitInv
<1>2. IInv /\ [Next]_vars => IInv'
  <2> SUFFICES ASSUME IInv, [Next]_vars PROVE IInv'
    OBVIOUS
  <2>1. TypeOK'
    BY TypeStep
  <2> QED
    BY <2>1, CountStep, LockStep, EndStep, WakeStep DEF IInv
<1> QED
  BY <1>1, <1>2, PTL DEF Spec

(* Every variable keeps its type: nread and nwrite stay 32-bit counters.    *)
THEOREM PipeTypes == Spec => []TypeOK
<1>1. IInv => TypeOK
  BY DEF IInv
<1> QED
  BY <1>1, PipeInvariance, PTL

(* On one CPU a process sleeps on a pipe only over what it waits for.       *)
THEOREM PipeNeverStrands == Spec => []NoLostWakeup
<1>1. IInv => NoLostWakeup
  BY DEF IInv, WakeInv, NoLostWakeup
<1> QED
  BY <1>1, PipeInvariance, PTL

(* After kfree() nobody has anything to do with the pipe.                   *)
THEOREM PipeFreedOnce == Spec => []FreedIsUnused
<1>1. IInv => FreedIsUnused
  <2> SUFFICES ASSUME IInv, ~allocated, NEW p \in Proc PROVE fds[p] = {} /\ pc[p] = "user"
    BY DEF FreedIsUnused
  <2>1. "read" \notin fds[p] /\ "write" \notin fds[p] /\ pc[p] \notin {"close_read", "close_write"}
    BY DEF IInv, EndInv
  <2>2. fds[p] \in SUBSET {"read", "write"} /\ pc[p] \in Labels
    BY DEF IInv, TypeOK
  <2>3. pc[p] \notin Reads /\ pc[p] \notin Writes
    BY <2>1 DEF IInv, EndInv
  <2> QED
    BY <2>1, <2>2, <2>3 DEF Labels
<1> QED
  BY <1>1, PipeInvariance, PTL

(* The refinement of Channel.                                               *)

(* One byte more: the count follows the counter.                            *)
LEMMA CountUp ==
  ASSUME NEW r \in 0 .. UINT - 1, NEW w \in 0 .. UINT - 1, NEW c \in Nat,
         c = IF w >= r THEN w - r ELSE w + UINT - r, c < PIPESIZE
  PROVE  c + 1 = IF (IF w + 1 = UINT THEN 0 ELSE w + 1) >= r
                 THEN (IF w + 1 = UINT THEN 0 ELSE w + 1) - r
                 ELSE (IF w + 1 = UINT THEN 0 ELSE w + 1) + UINT - r
<1>0. UINT \in Nat /\ PIPESIZE \in Nat /\ PIPESIZE < UINT
  BY ConstAssumption
<1>1. CASE w + 1 = UINT
  BY <1>0, <1>1
<1>2. CASE w + 1 # UINT
  BY <1>0, <1>2
<1> QED
  BY <1>1, <1>2

(* Count places on from nread is nwrite.                                    *)
LEMMA LastPlace ==
  ASSUME NEW r \in 0 .. UINT - 1, NEW w \in 0 .. UINT - 1, NEW c \in Nat,
         c = IF w >= r THEN w - r ELSE w + UINT - r
  PROVE  w % PIPESIZE = (r + c) % PIPESIZE
<1> DEFINE a == r + c
<1>0. UINT \in Nat
  BY ConstAssumption
<1>1. a \in Nat /\ (w >= r => a = w) /\ (w < r => a >= UINT /\ a - UINT = w)
  BY <1>0
<1> HIDE DEF a
<1>2. a >= UINT => (a - UINT) % PIPESIZE = a % PIPESIZE
  BY <1>1, SamePlace
<1>3. w % PIPESIZE = a % PIPESIZE
  BY <1>0, <1>1, <1>2
<1> QED
  BY <1>3 DEF a

(* The k-th place from the next counter is the k+1-st from this one.        *)
LEMMA NextPlace ==
  ASSUME NEW r \in 0 .. UINT - 1, NEW s, s = IF r + 1 = UINT THEN 0 ELSE r + 1,
         NEW k \in Nat \ {0}
  PROVE  (s + k - 1) % PIPESIZE = (r + k) % PIPESIZE
<1> DEFINE a == r + k
           b == s + k - 1
<1>0. UINT \in Nat
  BY ConstAssumption
<1>1. a \in Nat /\ (r + 1 # UINT => b = a) /\ (r + 1 = UINT => a >= UINT /\ b = a - UINT)
  BY <1>0
<1> HIDE DEF a, b
<1>2. a >= UINT => (a - UINT) % PIPESIZE = a % PIPESIZE
  BY <1>1, SamePlace
<1>3. b % PIPESIZE = a % PIPESIZE
  BY <1>1, <1>2
<1> QED
  BY <1>3 DEF a, b

(* The bytes between two counters as a sequence, without remainders in its  *)
(* length.                                                                  *)
LEMMA RingFacts ==
  ASSUME NEW r \in 0 .. UINT - 1, NEW w \in 0 .. UINT - 1,
         NEW d \in [0 .. PIPESIZE - 1 -> Byte],
         NEW c, c = (w + UINT - r) % UINT,
         NEW s, s = [k \in 1 .. c |-> d[(r + k - 1) % PIPESIZE]]
  PROVE  /\ c \in Nat
         /\ c = IF w >= r THEN w - r ELSE w + UINT - r
         /\ s \in Seq(Byte) /\ Len(s) = c
         /\ \A k \in 1 .. c : s[k] = d[(r + k - 1) % PIPESIZE]
<1>1. c = IF w >= r THEN w - r ELSE w + UINT - r
  BY CounterFacts
<1>2. c \in Nat
  BY <1>1, ConstAssumption
<1>3. \A k \in 1 .. c : (r + k - 1) % PIPESIZE \in 0 .. PIPESIZE - 1
  <2> TAKE k \in 1 .. c
  <2>1. r + k - 1 \in Nat /\ PIPESIZE \in Nat \ {0}
    BY <1>2, ConstAssumption
  <2> QED
    BY <2>1, DivMod
<1>4. s \in [1 .. c -> Byte]
  BY <1>3
<1>5. s \in Seq(Byte) /\ Len(s) = c
  BY <1>2, <1>4
<1> QED
  BY <1>1, <1>2, <1>5

(* So for the bytes under way in the pipe.                                  *)
LEMMA BytesFacts ==
  ASSUME TypeOK
  PROVE  /\ Count \in Nat
         /\ Count = IF nwrite >= nread THEN nwrite - nread ELSE nwrite + UINT - nread
         /\ Bytes \in Seq(Byte) /\ Len(Bytes) = Count
         /\ \A k \in 1 .. Count : Bytes[k] = data[(nread + k - 1) % PIPESIZE]
  BY RingFacts DEF TypeOK, Count, Bytes

(* And after a step.                                                        *)
LEMMA BytesFactsNext ==
  ASSUME TypeOK'
  PROVE  /\ Count' \in Nat
         /\ Count' = IF nwrite' >= nread' THEN nwrite' - nread' ELSE nwrite' + UINT - nread'
         /\ Bytes' \in Seq(Byte) /\ Len(Bytes') = Count'
         /\ \A k \in 1 .. Count' : Bytes'[k] = data'[(nread' + k - 1) % PIPESIZE]
  BY RingFacts DEF TypeOK, Count, Bytes

(* A byte written comes behind all others and overwrites none of them.      *)
LEMMA ByteIsAppended ==
  ASSUME IInv, TypeOK', NEW p \in Proc, NEW b \in Byte, WriteByte(p, b)
  PROVE  Count < PIPESIZE /\ Bytes' = Append(Bytes, b)
<1>0. /\ PIPESIZE \in Nat \ {0} /\ UINT \in Nat /\ PIPESIZE < UINT
      /\ nread \in 0 .. UINT - 1 /\ nwrite \in 0 .. UINT - 1
      /\ data \in [0 .. PIPESIZE - 1 -> Byte]
  BY ConstAssumption DEF IInv, TypeOK
<1>1. /\ data' = [data EXCEPT ![nwrite % PIPESIZE] = b]
      /\ nwrite' = IF nwrite + 1 = UINT THEN 0 ELSE nwrite + 1
      /\ nread' = nread
      /\ nwrite # IF nread + PIPESIZE < UINT THEN nread + PIPESIZE ELSE nread + PIPESIZE - UINT
  BY <1>0, CounterFacts DEF WriteByte, Full
<1>2. /\ Count \in Nat /\ Bytes \in Seq(Byte) /\ Len(Bytes) = Count
      /\ Count = IF nwrite >= nread THEN nwrite - nread ELSE nwrite + UINT - nread
      /\ \A k \in 1 .. Count : Bytes[k] = data[(nread + k - 1) % PIPESIZE]
  BY BytesFacts DEF IInv
<1>3. /\ Bytes' \in Seq(Byte) /\ Len(Bytes') = Count'
      /\ Count' = IF nwrite' >= nread' THEN nwrite' - nread' ELSE nwrite' + UINT - nread'
      /\ \A k \in 1 .. Count' : Bytes'[k] = data'[(nread' + k - 1) % PIPESIZE]
  BY BytesFactsNext
<1>4. Count <= PIPESIZE
  BY DEF IInv, CountInv
<1> HIDE DEF Count, Bytes
<1>5. Count < PIPESIZE
  BY <1>0, <1>1, <1>2, <1>4
<1>6. Count' = Count + 1
  <2>1. Count' = IF nwrite' >= nread THEN nwrite' - nread ELSE nwrite' + UINT - nread
    BY <1>1, <1>3
  <2>2. nwrite' = IF nwrite + 1 = UINT THEN 0 ELSE nwrite + 1
    BY <1>1
  <2>3. nread \in 0 .. UINT - 1 /\ nwrite \in 0 .. UINT - 1
    BY <1>0
  <2>4. Count \in Nat /\ Count = IF nwrite >= nread THEN nwrite - nread ELSE nwrite + UINT - nread
    BY <1>2
  <2> QED
    BY <2>1, <2>2, <2>3, <2>4, <1>5, CountUp
<1>7. nwrite % PIPESIZE = (nread + Count) % PIPESIZE
  BY <1>0, <1>2, LastPlace
<1>8. nwrite % PIPESIZE \in 0 .. PIPESIZE - 1
  BY <1>0, DivMod
<1>9. \A k \in 1 .. Count : (nread + k - 1) % PIPESIZE # nwrite % PIPESIZE
  <2> TAKE k \in 1 .. Count
  <2>1. nread + k - 1 \in Nat /\ Count - k + 1 \in 1 .. PIPESIZE - 1
        /\ nread + k - 1 + (Count - k + 1) = nread + Count
    BY <1>0, <1>2, <1>5
  <2> QED
    BY <2>1, <1>7, OtherPlace
<1>10. \A k \in 1 .. Count : Bytes'[k] = Bytes[k]
  <2> TAKE k \in 1 .. Count
  <2>1. (nread + k - 1) % PIPESIZE \in 0 .. PIPESIZE - 1
    <3>1. nread + k - 1 \in Nat
      BY <1>0, <1>2
    <3> QED
      BY <3>1, <1>0, DivMod
  <2>2. Bytes'[k] = data'[(nread + k - 1) % PIPESIZE]
    BY <1>1, <1>2, <1>3, <1>6
  <2>3. data'[(nread + k - 1) % PIPESIZE] = data[(nread + k - 1) % PIPESIZE]
    BY <2>1, <1>0, <1>1, <1>8, <1>9
  <2> QED
    BY <2>2, <2>3, <1>2
<1>11. Bytes'[Count + 1] = b
  <2>1. Bytes'[Count + 1] = data'[(nread + (Count + 1) - 1) % PIPESIZE]
    BY <1>1, <1>2, <1>3, <1>6
  <2>2. nread + (Count + 1) - 1 = nread + Count
    BY <1>0, <1>2
  <2> QED
    BY <2>1, <2>2, <1>0, <1>1, <1>7, <1>8
<1> QED
  BY <1>2, <1>3, <1>5, <1>6, <1>10, <1>11

(* A byte read is the oldest one, and the others stay.                      *)
LEMMA ByteIsRemoved ==
  ASSUME IInv, TypeOK', ~Empty, nread' = (nread + 1) % UINT, UNCHANGED <<data, nwrite>>
  PROVE  Bytes # <<>> /\ Bytes' = Tail(Bytes)
<1>0. /\ PIPESIZE \in Nat \ {0} /\ UINT \in Nat /\ PIPESIZE < UINT
      /\ nread \in 0 .. UINT - 1 /\ nwrite \in 0 .. UINT - 1 /\ nread # nwrite
  BY ConstAssumption DEF IInv, TypeOK, Empty
<1>1. nread' = IF nread + 1 = UINT THEN 0 ELSE nread + 1
  BY <1>0, CounterFacts
<1>2. /\ Count \in Nat /\ Bytes \in Seq(Byte) /\ Len(Bytes) = Count
      /\ Count = IF nwrite >= nread THEN nwrite - nread ELSE nwrite + UINT - nread
      /\ \A k \in 1 .. Count : Bytes[k] = data[(nread + k - 1) % PIPESIZE]
  BY BytesFacts DEF IInv
<1>3. /\ Bytes' \in Seq(Byte) /\ Len(Bytes') = Count'
      /\ Count' = IF nwrite' >= nread' THEN nwrite' - nread' ELSE nwrite' + UINT - nread'
      /\ \A k \in 1 .. Count' : Bytes'[k] = data'[(nread' + k - 1) % PIPESIZE]
  BY BytesFactsNext
<1> HIDE DEF Count, Bytes
<1>4. Count' = Count - 1 /\ Count > 0
  BY <1>0, <1>1, <1>2, <1>3
<1>5. \A k \in 1 .. Count - 1 : Bytes'[k] = Bytes[k + 1]
  <2> TAKE k \in 1 .. Count - 1
  <2>1. Bytes'[k] = data[(nread' + k - 1) % PIPESIZE]
    BY <1>3, <1>4
  <2>2. k + 1 \in 1 .. Count /\ nread + (k + 1) - 1 = nread + k /\ nread + k \in Nat
    BY <1>0, <1>2
  <2>3. Bytes[k + 1] = data[(nread + k) % PIPESIZE]
    BY <2>2, <1>2
  <2>4. (nread' + k - 1) % PIPESIZE = (nread + k) % PIPESIZE
    <3>1. k \in Nat \ {0}
      BY <1>2
    <3> QED
      BY <3>1, <1>0, <1>1, NextPlace
  <2> QED
    BY <2>1, <2>3, <2>4
<1>6. Bytes # <<>>
  BY <1>2, <1>4
<1>7. Tail(Bytes) \in Seq(Byte) /\ Len(Tail(Bytes)) = Count - 1
      /\ \A k \in 1 .. Count - 1 : Tail(Bytes)[k] = Bytes[k + 1]
  BY <1>2, <1>4, <1>6
<1> QED
  BY <1>2, <1>3, <1>4, <1>5, <1>6, <1>7

(* Every step is one step of the channel or none.                           *)
LEMMA StepRefines ==
  ASSUME IInv, TypeOK', [Next]_vars
  PROVE  [Chan!Next]_Chan!vars
<1> DEFINE Stays == UNCHANGED <<ring, readopen, writeopen>>
<1>a. Stays => [Chan!Next]_Chan!vars
  BY DEF ring, Bytes, Count, Chan!vars
<1>b. \A p \in Proc : pc[p] \in Writes => writeopen
  BY DEF IInv, EndInv
<1>c. \A p \in Proc : pc[p] \in Reads => readopen
  BY DEF IInv, EndInv
<1>d. Len(Bytes) = Count
  BY BytesFacts DEF IInv
<1>1. ASSUME NEW p \in Proc, PipeAlloc(p) PROVE Chan!Open
  <2>1. ~readopen /\ ~writeopen /\ readopen' /\ writeopen' /\ nread' = 0 /\ nwrite' = 0
    BY <1>1 DEF PipeAlloc, IInv, EndInv
  <2>2. Count' = 0 /\ Len(Bytes') = Count' /\ Bytes' \in Seq(Byte)
    BY <2>1, BytesFactsNext
  <2>3. Bytes' = <<>>
    BY <2>2
  <2> QED
    BY <2>1, <2>3 DEF Chan!Open
<1>2. ASSUME NEW p \in Proc, PipeClose(p) PROVE Chan!Next
  <2>0. Bytes' = Bytes
    BY <1>2 DEF PipeClose, ring, Bytes, Count
  <2>1. CASE pc[p] = "close_write" /\ writeopen' = FALSE /\ readopen' = readopen
    <3>1. writeopen
      BY <2>1 DEF IInv, EndInv
    <3>2. Chan!Close("write")
      BY <2>0, <2>1, <3>1 DEF Chan!Close
    <3> QED
      BY <3>2 DEF Chan!Next
  <2>2. CASE pc[p] = "close_read" /\ readopen' = FALSE /\ writeopen' = writeopen
    <3>1. readopen
      BY <2>2 DEF IInv, EndInv
    <3>2. Chan!Close("read")
      BY <2>0, <2>2, <3>1 DEF Chan!Close
    <3> QED
      BY <3>2 DEF Chan!Next
  <2> QED
    BY <1>2, <2>1, <2>2 DEF PipeClose
<1>3. ASSUME NEW p \in Proc, NEW b \in Byte, WriteByte(p, b) PROVE Chan!Send(b)
  <2>1. Count < PIPESIZE /\ Bytes' = Append(Bytes, b)
    BY <1>3, ByteIsAppended
  <2>2. readopen /\ writeopen /\ readopen' = readopen /\ writeopen' = writeopen
    BY <1>3, <1>b DEF WriteByte, Writes, LockInv, IInv, ends
  <2> QED
    BY <2>1, <2>2, <1>d DEF Chan!Send
<1>4. ASSUME NEW p \in Proc, ReadByte(p) \/ ReadFault(p) PROVE Chan!Receive
  <2>1. Bytes # <<>> /\ Bytes' = Tail(Bytes)
    BY <1>4, ByteIsRemoved DEF ReadByte, ReadFault
  <2>2. readopen /\ readopen' = readopen /\ writeopen' = writeopen
    BY <1>4, <1>c DEF ReadByte, ReadFault, Reads, ends
  <2> QED
    BY <2>1, <2>2 DEF Chan!Receive
<1>5. ASSUME NEW p \in Proc,
             \/ WriteLock(p) \/ WriteAbort(p) \/ WriteReady(p) \/ WriteSleep(p) \/ WriteDone(p)
             \/ ReadLock(p) \/ ReadAbort(p) \/ ReadReady(p) \/ ReadSleep(p) \/ ReadCopy(p) \/ ReadDone(p)
             \/ Kill(p) \/ Exit(p)
      PROVE  Stays
  BY <1>5 DEF WriteLock, WriteAbort, WriteReady, WriteSleep, WriteDone, ReadLock, ReadAbort, ReadReady, ReadSleep,
              ReadCopy, ReadDone, Kill, Exit, ends
<1>6. ASSUME NEW p \in Proc,
             \/ \E q \in Proc : Fork(p, q)
             \/ \E e \in {"read", "write"} : FileClose(p, e)
             \/ \E n \in 0 .. MaxCount : Write(p, n) \/ Read(p, n)
      PROVE  Stays
  BY <1>6 DEF Fork, FileClose, Write, Read, ends
<1>7. CASE UNCHANGED vars
  BY <1>7, <1>a DEF vars, ends
<1> HIDE DEF Stays
<1> QED
  BY <1>a, <1>1, <1>2, <1>3, <1>4, <1>5, <1>6, <1>7 DEF Next, Step, Chan!Next

(* The pipe implements the channel, for every size of the ring that divides *)
(* the range of the counters.                                               *)
THEOREM PipeImplementsChannel == Spec => RefinesChannel
<1>1. Init => Chan!Init
  <2> SUFFICES ASSUME Init PROVE Chan!Init
    OBVIOUS
  <2>1. TypeOK
    BY InitInv DEF IInv
  <2>2. Count = 0 /\ Len(Bytes) = Count /\ Bytes \in Seq(Byte)
    BY <2>1, BytesFacts DEF Init
  <2>3. Bytes = <<>>
    BY <2>2
  <2> QED
    BY <2>3 DEF Init, Chan!Init
<1>2. IInv /\ IInv' /\ [Next]_vars => [Chan!Next]_Chan!vars
  BY StepRefines DEF IInv
<1> QED
  BY <1>1, <1>2, PipeInvariance, PTL DEF Spec, RefinesChannel, Chan!Spec
================================================================================
