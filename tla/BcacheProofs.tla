------------------------------ MODULE BcacheProofs ------------------------------
(***************************************************************************)
(* Proofs about the buffer cache for any number of processes, blocks and   *)
(* buffers: the inductive invariant IInv, what follows from it, and that   *)
(* the cache implements BlockStore.                                        *)
(***************************************************************************)
EXTENDS Bcache, FiniteSetTheorems, TLAPS

(* "No process" and "no buffer" are neither. *)
LEMMA BufFacts == None \notin Buf /\ None \notin Block /\ None \notin Proc
<1>1. \A x \in Buf : x \in Nat
  BY ConstAssumption DEF Buf
<1> QED
  BY <1>1, ConstAssumption

(* The users of a buffer can be counted, and whoever uses or pins one keeps *)
(* its count above zero.                                                    *)
LEMMA UserFacts ==
  ASSUME RefcntExact, NEW x \in Buf
  PROVE  /\ IsFiniteSet(Users(x)) /\ Cardinality(Users(x)) \in Nat
         /\ \A p \in Users(x) : Cardinality(Users(x)) >= 1 /\ Cardinality(Users(x) \ {p}) = Cardinality(Users(x)) - 1
         /\ \A p \in Proc : p \notin Users(x) => Cardinality(Users(x) \cup {p}) = Cardinality(Users(x)) + 1
         /\ blockno[x] \in pins => refcnt[x] >= 1
         /\ refcnt[x] = 0 => Users(x) = {} /\ blockno[x] \notin pins
<1>1. IsFiniteSet(Users(x))
  <2>1. Users(x) \subseteq Proc
    BY DEF Users
  <2> QED
    BY <2>1, ConstAssumption, FS_Subset
<1>2. Cardinality(Users(x)) \in Nat
  BY <1>1, FS_CardinalityType
<1>3. ASSUME NEW p \in Users(x)
      PROVE  Cardinality(Users(x)) >= 1 /\ Cardinality(Users(x) \ {p}) = Cardinality(Users(x)) - 1
  <2>1. Cardinality(Users(x)) # 0
    BY <1>1, <1>3, FS_EmptySet
  <2>2. Cardinality(Users(x) \ {p}) = Cardinality(Users(x)) - 1
    BY <1>1, <1>3, FS_RemoveElement
  <2> QED
    BY <2>1, <2>2, <1>2
<1>4. ASSUME NEW p \in Proc, p \notin Users(x)
      PROVE  Cardinality(Users(x) \cup {p}) = Cardinality(Users(x)) + 1
  BY <1>1, <1>4, FS_AddElement
<1>5. refcnt[x] = Cardinality(Users(x)) + (IF blockno[x] \in pins THEN 1 ELSE 0)
  BY DEF RefcntExact
<1>6. ASSUME refcnt[x] = 0 PROVE Users(x) = {} /\ blockno[x] \notin pins
  <2>1. Cardinality(Users(x)) = 0 /\ blockno[x] \notin pins
    BY <1>2, <1>5, <1>6
  <2> QED
    BY <2>1, <1>1, FS_EmptySet
<1>7. blockno[x] \in pins => refcnt[x] >= 1
  BY <1>2, <1>5
<1> QED
  BY <1>1, <1>2, <1>3, <1>4, <1>6, <1>7

(* Putting a buffer in front keeps every buffer in the list. *)
LEMMA FrontFacts ==
  ASSUME lru \in [Buf -> Buf], LruInv, NEW x \in Buf
  PROVE  /\ ToFront(x) \in [Buf -> Buf]
         /\ \A y \in Buf : \E i \in Buf : ToFront(x)[i] = y
<1> DEFINE k == CHOOSE i \in Buf : lru[i] = x
<1>1. k \in Buf /\ lru[k] = x
  BY DEF LruInv
<1> HIDE DEF k
<1>2. ToFront(x) = [i \in Buf |-> IF i = 1 THEN x ELSE IF i <= k THEN lru[i - 1] ELSE lru[i]]
  BY DEF ToFront, k
<1>3. \A i \in Buf : i # 1 => i - 1 \in Buf
  BY ConstAssumption DEF Buf
<1>4. \A i \in Buf : i < k => i + 1 \in Buf /\ i + 1 # 1 /\ i + 1 <= k /\ (i + 1) - 1 = i
  BY <1>1, ConstAssumption DEF Buf
<1>5. 1 \in Buf
  BY ConstAssumption DEF Buf
<1>6. \A i \in Buf : i > k => i # 1 /\ ~(i <= k)
  BY <1>1, ConstAssumption DEF Buf
<1>7. ToFront(x) \in [Buf -> Buf]
  BY <1>2, <1>3
<1>8. ASSUME NEW y \in Buf PROVE \E i \in Buf : ToFront(x)[i] = y
  <2> PICK i \in Buf : lru[i] = y
    BY DEF LruInv
  <2>1. CASE i < k
    <3>1. ToFront(x)[i + 1] = y
      BY <2>1, <1>2, <1>4
    <3> QED
      BY <3>1, <2>1, <1>4
  <2>2. CASE i > k
    BY <2>2, <1>2, <1>6
  <2>3. CASE i = k
    BY <2>3, <1>1, <1>2, <1>5
  <2>4. i < k \/ i > k \/ i = k
    BY <1>1 DEF Buf
  <2> QED
    BY <2>1, <2>2, <2>3, <2>4
<1> QED
  BY <1>7, <1>8

(* A buffer in use is not taken for another block. *)
LEMMA InUse ==
  ASSUME RefcntExact, NEW x \in Buf, NEW p \in Proc, x \in held[p] \/ cur[p] = x
  PROVE  p \in Users(x) /\ refcnt[x] # 0 /\ refcnt[x] - 1 = Cardinality(Users(x) \ {p}) + (IF blockno[x] \in pins THEN 1 ELSE 0)
<1>1. p \in Users(x)
  BY DEF Users
<1>2. refcnt[x] # 0
  BY <1>1, UserFacts
<1>3. refcnt[x] = Cardinality(Users(x)) + (IF blockno[x] \in pins THEN 1 ELSE 0)
  BY DEF RefcntExact
<1> QED
  BY <1>1, <1>2, <1>3, UserFacts

(* Every step keeps the types. *)
LEMMA TypeStep ==
  ASSUME IInv, [Next]_vars
  PROVE  TypeOK'
<1> USE BufFacts DEF IInv, TypeOK, Labels
<1>1. ASSUME NEW p \in Proc, Acquire(p) PROVE TypeOK'
  BY <1>1 DEF Acquire, Goto, bufs
<1>2. ASSUME NEW p \in Proc, Sleep(p) PROVE TypeOK'
  BY <1>2 DEF Sleep, Goto, bufs
<1>3. ASSUME NEW p \in Proc, Kill(p) PROVE TypeOK'
  BY <1>3 DEF Kill, Goto, bufs
<1>4. ASSUME NEW p \in Proc, Fill(p) PROVE TypeOK'
  <2>1. cur[p] \in Buf /\ blockno[cur[p]] \in Block
    BY <1>4 DEF Fill, CurInv
  <2> QED
    BY <1>4, <2>1 DEF Fill, Goto
<1>5. ASSUME NEW p \in Proc, Brelse(p) PROVE TypeOK'
  <2>1. cur[p] \in Buf
    BY <1>5 DEF Brelse, CurInv
  <2>2. refcnt[cur[p]] - 1 \in Nat
    <3>1. refcnt[cur[p]] # 0 /\ refcnt[cur[p]] \in Nat
      BY <2>1, InUse
    <3> QED
      BY <3>1
  <2>3. lru' \in [Buf -> Buf]
    BY <1>5, <2>1, FrontFacts DEF Brelse
  <2> QED
    BY <1>5, <2>1, <2>2, <2>3 DEF Brelse, Goto
<1>6. ASSUME NEW p \in Proc, NEW b \in Block, BgetCached(p, b) PROVE TypeOK'
  BY <1>6 DEF BgetCached, MayRead, Runs, Goto
<1>7. ASSUME NEW p \in Proc, NEW b \in Block, BgetRecycle(p, b) PROVE TypeOK'
  BY <1>7 DEF BgetRecycle, MayRead, Runs, Goto
<1>8. ASSUME NEW p \in Proc, NEW b \in Block, BgetPanics(p, b) PROVE TypeOK'
  BY <1>8 DEF BgetPanics, MayRead, Runs, bufs
<1>9. ASSUME NEW p \in Proc, NEW x \in Buf, LogWrite(p, x) PROVE TypeOK'
  <2>1. blockno[x] \in Block
    BY <1>9 DEF LogWrite, CurInv
  <2>2. CASE blockno[x] \in pins
    BY <1>9, <2>2 DEF LogWrite, Runs
  <2>3. CASE blockno[x] \notin pins
    BY <1>9, <2>1, <2>3 DEF LogWrite, Runs
  <2> QED
    BY <2>2, <2>3
<1>10. ASSUME NEW p \in Proc, NEW x \in Buf, Bwrite(p, x) PROVE TypeOK'
  BY <1>10 DEF Bwrite, Runs, bufs
<1>11. ASSUME NEW p \in Proc, NEW x \in Buf, Bunpin(p, x) PROVE TypeOK'
  <2>1. refcnt[x] - 1 \in Nat
    BY <1>11, UserFacts DEF Bunpin
  <2> QED
    BY <1>11, <2>1 DEF Bunpin, Runs
<1>12. ASSUME NEW p \in Proc, NEW x \in Buf, ReleaseSleep(p, x) PROVE TypeOK'
  BY <1>12 DEF ReleaseSleep, Runs, Goto, Wakeup, bufs
<1>13. ASSUME NEW p \in Proc, NEW x \in Buf, NEW v \in Data, Modify(p, x, v) PROVE TypeOK'
  BY <1>13 DEF Modify, Runs
<1>14. CASE UNCHANGED vars
  BY <1>14 DEF vars, bufs
<1> QED
  BY <1>1, <1>2, <1>3, <1>4, <1>5, <1>6, <1>7, <1>8, <1>9, <1>10, <1>11, <1>12, <1>13, <1>14 DEF Next

(* No block is cached twice. *)
LEMMA OneStep ==
  ASSUME IInv, TypeOK', [Next]_vars
  PROVE  OneBuffer'
<1> USE BufFacts DEF IInv, TypeOK, OneBuffer
<1>1. ASSUME NEW p \in Proc, Acquire(p) PROVE OneBuffer'
  BY <1>1 DEF Acquire, Goto, bufs
<1>2. ASSUME NEW p \in Proc, Sleep(p) PROVE OneBuffer'
  BY <1>2 DEF Sleep, Goto, bufs
<1>3. ASSUME NEW p \in Proc, Kill(p) PROVE OneBuffer'
  BY <1>3 DEF Kill, Goto, bufs
<1>4. ASSUME NEW p \in Proc, Fill(p) PROVE OneBuffer'
  BY <1>4 DEF Fill, Goto
<1>5. ASSUME NEW p \in Proc, Brelse(p) PROVE OneBuffer'
  BY <1>5 DEF Brelse, Goto
<1>6. ASSUME NEW p \in Proc, NEW b \in Block, BgetCached(p, b) PROVE OneBuffer'
  BY <1>6 DEF BgetCached, MayRead, Runs, Goto
<1>7. ASSUME NEW p \in Proc, NEW b \in Block, BgetRecycle(p, b) PROVE OneBuffer'
  BY <1>7 DEF BgetRecycle, MayRead, Runs, Goto
<1>8. ASSUME NEW p \in Proc, NEW b \in Block, BgetPanics(p, b) PROVE OneBuffer'
  BY <1>8 DEF BgetPanics, MayRead, Runs, bufs
<1>9. ASSUME NEW p \in Proc, NEW x \in Buf, LogWrite(p, x) PROVE OneBuffer'
  BY <1>9 DEF LogWrite, Runs
<1>10. ASSUME NEW p \in Proc, NEW x \in Buf, Bwrite(p, x) PROVE OneBuffer'
  BY <1>10 DEF Bwrite, Runs, bufs
<1>11. ASSUME NEW p \in Proc, NEW x \in Buf, Bunpin(p, x) PROVE OneBuffer'
  BY <1>11 DEF Bunpin, Runs
<1>12. ASSUME NEW p \in Proc, NEW x \in Buf, ReleaseSleep(p, x) PROVE OneBuffer'
  BY <1>12 DEF ReleaseSleep, Runs, Goto, Wakeup, bufs
<1>13. ASSUME NEW p \in Proc, NEW x \in Buf, NEW v \in Data, Modify(p, x, v) PROVE OneBuffer'
  BY <1>13 DEF Modify, Runs
<1>14. CASE UNCHANGED vars
  BY <1>14 DEF vars, bufs
<1> QED
  BY <1>1, <1>2, <1>3, <1>4, <1>5, <1>6, <1>7, <1>8, <1>9, <1>10, <1>11, <1>12, <1>13, <1>14 DEF Next

(* What a process is working on is not what it has. *)
LEMMA CurStep ==
  ASSUME IInv, TypeOK', [Next]_vars
  PROVE  CurInv'
<1> USE BufFacts DEF IInv, TypeOK, CurInv, Labels
<1>1. ASSUME NEW p \in Proc, Acquire(p) PROVE CurInv'
  BY <1>1 DEF Acquire, Goto, bufs
<1>2. ASSUME NEW p \in Proc, Sleep(p) PROVE CurInv'
  BY <1>2 DEF Sleep, Goto, bufs
<1>3. ASSUME NEW p \in Proc, Kill(p) PROVE CurInv'
  BY <1>3 DEF Kill, Goto, bufs
<1>4. ASSUME NEW p \in Proc, Fill(p) PROVE CurInv'
  BY <1>4 DEF Fill, Goto
<1>5. ASSUME NEW p \in Proc, Brelse(p) PROVE CurInv'
  BY <1>5 DEF Brelse, Goto
<1>6. ASSUME NEW p \in Proc, NEW b \in Block, BgetCached(p, b) PROVE CurInv'
  <2> PICK y \in Buf : blockno[y] = b /\ cur' = [cur EXCEPT ![p] = y]
    BY <1>6 DEF BgetCached
  <2>1. y \notin held[p]
    <3>1. b \in Nat /\ ~(b < b)
      BY ConstAssumption
    <3> QED
      BY <1>6, <3>1 DEF BgetCached, MayRead
  <2> QED
    BY <1>6, <2>1 DEF BgetCached, MayRead, Runs, Goto
<1>7. ASSUME NEW p \in Proc, NEW b \in Block, BgetRecycle(p, b) PROVE CurInv'
  <2> PICK i \in Buf : /\ refcnt[lru[i]] = 0
                      /\ blockno' = [blockno EXCEPT ![lru[i]] = b]
                      /\ valid' = [valid EXCEPT ![lru[i]] = FALSE]
                      /\ cur' = [cur EXCEPT ![p] = lru[i]]
    BY <1>7 DEF BgetRecycle
  <2>1. lru[i] \in Buf /\ \A q \in Proc : lru[i] \notin held[q] /\ cur[q] # lru[i]
    BY InUse
  <2> QED
    BY <1>7, <2>1 DEF BgetRecycle, MayRead, Runs, Goto
<1>8. ASSUME NEW p \in Proc, NEW b \in Block, BgetPanics(p, b) PROVE CurInv'
  BY <1>8 DEF BgetPanics, MayRead, Runs, bufs
<1>9. ASSUME NEW p \in Proc, NEW x \in Buf, LogWrite(p, x) PROVE CurInv'
  BY <1>9 DEF LogWrite, Runs
<1>10. ASSUME NEW p \in Proc, NEW x \in Buf, Bwrite(p, x) PROVE CurInv'
  BY <1>10 DEF Bwrite, Runs, bufs
<1>11. ASSUME NEW p \in Proc, NEW x \in Buf, Bunpin(p, x) PROVE CurInv'
  BY <1>11 DEF Bunpin, Runs
<1>12. ASSUME NEW p \in Proc, NEW x \in Buf, ReleaseSleep(p, x) PROVE CurInv'
  BY <1>12 DEF ReleaseSleep, Runs, Goto, Wakeup, bufs
<1>13. ASSUME NEW p \in Proc, NEW x \in Buf, NEW v \in Data, Modify(p, x, v) PROVE CurInv'
  BY <1>13 DEF Modify, Runs
<1>14. CASE UNCHANGED vars
  BY <1>14 DEF vars, bufs
<1> QED
  BY <1>1, <1>2, <1>3, <1>4, <1>5, <1>6, <1>7, <1>8, <1>9, <1>10, <1>11, <1>12, <1>13, <1>14 DEF Next

(* The sleep locks exclude. *)
LEMMA OwnStep ==
  ASSUME IInv, TypeOK', [Next]_vars
  PROVE  OwnInv'
<1> USE BufFacts DEF IInv, TypeOK, OwnInv, CurInv, Labels
<1>1. ASSUME NEW p \in Proc, Acquire(p) PROVE OwnInv'
  BY <1>1 DEF Acquire, Goto, bufs
<1>2. ASSUME NEW p \in Proc, Sleep(p) PROVE OwnInv'
  BY <1>2 DEF Sleep, Goto, bufs
<1>3. ASSUME NEW p \in Proc, Kill(p) PROVE OwnInv'
  BY <1>3 DEF Kill, Goto, bufs
<1>4. ASSUME NEW p \in Proc, Fill(p) PROVE OwnInv'
  BY <1>4 DEF Fill, Goto
<1>5. ASSUME NEW p \in Proc, Brelse(p) PROVE OwnInv'
  BY <1>5 DEF Brelse, Goto
<1>6. ASSUME NEW p \in Proc, NEW b \in Block, BgetCached(p, b) PROVE OwnInv'
  BY <1>6 DEF BgetCached, MayRead, Runs, Goto
<1>7. ASSUME NEW p \in Proc, NEW b \in Block, BgetRecycle(p, b) PROVE OwnInv'
  BY <1>7 DEF BgetRecycle, MayRead, Runs, Goto
<1>8. ASSUME NEW p \in Proc, NEW b \in Block, BgetPanics(p, b) PROVE OwnInv'
  BY <1>8 DEF BgetPanics, MayRead, Runs, bufs
<1>9. ASSUME NEW p \in Proc, NEW x \in Buf, LogWrite(p, x) PROVE OwnInv'
  BY <1>9 DEF LogWrite, Runs
<1>10. ASSUME NEW p \in Proc, NEW x \in Buf, Bwrite(p, x) PROVE OwnInv'
  BY <1>10 DEF Bwrite, Runs, bufs
<1>11. ASSUME NEW p \in Proc, NEW x \in Buf, Bunpin(p, x) PROVE OwnInv'
  BY <1>11 DEF Bunpin, Runs
<1>12. ASSUME NEW p \in Proc, NEW x \in Buf, ReleaseSleep(p, x) PROVE OwnInv'
  BY <1>12 DEF ReleaseSleep, Runs, Goto, Wakeup, bufs
<1>13. ASSUME NEW p \in Proc, NEW x \in Buf, NEW v \in Data, Modify(p, x, v) PROVE OwnInv'
  BY <1>13 DEF Modify, Runs
<1>14. CASE UNCHANGED vars
  BY <1>14 DEF vars, bufs
<1> QED
  BY <1>1, <1>2, <1>3, <1>4, <1>5, <1>6, <1>7, <1>8, <1>9, <1>10, <1>11, <1>12, <1>13, <1>14 DEF Next

(* The count of x is right after a step that changes neither its users nor  *)
(* its pin.                                                                 *)
LEMMA SameCount ==
  ASSUME RefcntExact, NEW x \in Buf, refcnt'[x] = refcnt[x],
         \A p \in Proc : x \in held'[p] \/ cur'[p] = x <=> x \in held[p] \/ cur[p] = x,
         blockno'[x] \in pins' <=> blockno[x] \in pins
  PROVE  refcnt'[x] = Cardinality(Users(x)') + (IF blockno'[x] \in pins' THEN 1 ELSE 0)
<1>1. Users(x)' = Users(x)
  BY DEF Users
<1> QED
  BY <1>1 DEF RefcntExact

(* The log pins and unpins the buffer without changing its users. *)
LEMMA SameUsers ==
  ASSUME NEW x \in Buf, UNCHANGED <<held, cur>>
  PROVE  Users(x)' = Users(x)
  BY DEF Users

(* Every reference is counted. *)
LEMMA CountStep ==
  ASSUME IInv, TypeOK', [Next]_vars
  PROVE  RefcntExact'
<1> USE BufFacts DEF IInv, TypeOK
<1>1. ASSUME NEW p \in Proc, Acquire(p) PROVE RefcntExact'
  <2> SUFFICES ASSUME NEW y \in Buf
               PROVE  refcnt'[y] = Cardinality(Users(y)') + (IF blockno'[y] \in pins' THEN 1 ELSE 0)
    BY DEF RefcntExact
  <2> QED
    BY <1>1, SameCount DEF Acquire, Goto, bufs
<1>2. ASSUME NEW p \in Proc, Sleep(p) PROVE RefcntExact'
  <2> SUFFICES ASSUME NEW y \in Buf
               PROVE  refcnt'[y] = Cardinality(Users(y)') + (IF blockno'[y] \in pins' THEN 1 ELSE 0)
    BY DEF RefcntExact
  <2> QED
    BY <1>2, SameCount DEF Sleep, Goto, bufs
<1>3. ASSUME NEW p \in Proc, Kill(p) PROVE RefcntExact'
  <2> SUFFICES ASSUME NEW y \in Buf
               PROVE  refcnt'[y] = Cardinality(Users(y)') + (IF blockno'[y] \in pins' THEN 1 ELSE 0)
    BY DEF RefcntExact
  <2> QED
    BY <1>3, SameCount DEF Kill, Goto, bufs
<1>4. ASSUME NEW p \in Proc, Fill(p) PROVE RefcntExact'
  <2> SUFFICES ASSUME NEW y \in Buf
               PROVE  refcnt'[y] = Cardinality(Users(y)') + (IF blockno'[y] \in pins' THEN 1 ELSE 0)
    BY DEF RefcntExact
  <2> QED
    BY <1>4, SameCount DEF Fill, Goto
<1>5. ASSUME NEW p \in Proc, Brelse(p) PROVE RefcntExact'
  <2> SUFFICES ASSUME NEW y \in Buf
               PROVE  refcnt'[y] = Cardinality(Users(y)') + (IF blockno'[y] \in pins' THEN 1 ELSE 0)
    BY DEF RefcntExact
  <2>1. CASE y = cur[p]
    <3>1. y \notin held[p] /\ cur' = [cur EXCEPT ![p] = None] /\ refcnt'[y] = refcnt[y] - 1
      BY <1>5, <2>1 DEF Brelse, CurInv
    <3>2. Users(y)' = Users(y) \ {p}
      BY <1>5, <2>1, <3>1 DEF Brelse, Users
    <3>3. refcnt[y] - 1 = Cardinality(Users(y) \ {p}) + (IF blockno[y] \in pins THEN 1 ELSE 0)
      BY <2>1, InUse
    <3> QED
      BY <1>5, <3>1, <3>2, <3>3 DEF Brelse
  <2>2. CASE y # cur[p]
    BY <1>5, <2>2, SameCount DEF Brelse
  <2> QED
    BY <2>1, <2>2
<1>6. ASSUME NEW p \in Proc, NEW b \in Block, BgetCached(p, b) PROVE RefcntExact'
  <2> SUFFICES ASSUME NEW y \in Buf
               PROVE  refcnt'[y] = Cardinality(Users(y)') + (IF blockno'[y] \in pins' THEN 1 ELSE 0)
    BY DEF RefcntExact
  <2> PICK z \in Buf : /\ blockno[z] = b
                      /\ refcnt' = [refcnt EXCEPT ![z] = @ + 1]
                      /\ cur' = [cur EXCEPT ![p] = z]
    BY <1>6 DEF BgetCached
  <2>0. cur[p] = None /\ z \notin held[p]
    <3>1. b \in Nat /\ ~(b < b)
      BY ConstAssumption
    <3> QED
      BY <1>6, <3>1 DEF BgetCached, MayRead, Runs, CurInv
  <2>1. CASE y = z
    <3>1. Users(y)' = Users(y) \cup {p} /\ p \notin Users(y)
      BY <1>6, <2>0, <2>1 DEF BgetCached, Users
    <3>2. Cardinality(Users(y) \cup {p}) = Cardinality(Users(y)) + 1 /\ Cardinality(Users(y)) \in Nat
      BY <3>1, UserFacts
    <3>3. refcnt[y] = Cardinality(Users(y)) + (IF blockno[y] \in pins THEN 1 ELSE 0)
      BY DEF RefcntExact
    <3>4. refcnt'[y] = refcnt[y] + 1 /\ blockno'[y] = blockno[y] /\ pins' = pins
      BY <1>6, <2>1 DEF BgetCached
    <3> QED
      BY <3>1, <3>2, <3>3, <3>4
  <2>2. CASE y # z
    BY <1>6, <2>0, <2>2, SameCount DEF BgetCached
  <2> QED
    BY <2>1, <2>2
<1>7. ASSUME NEW p \in Proc, NEW b \in Block, BgetRecycle(p, b) PROVE RefcntExact'
  <2> SUFFICES ASSUME NEW y \in Buf
               PROVE  refcnt'[y] = Cardinality(Users(y)') + (IF blockno'[y] \in pins' THEN 1 ELSE 0)
    BY DEF RefcntExact
  <2> PICK i \in Buf : /\ refcnt[lru[i]] = 0
                      /\ blockno' = [blockno EXCEPT ![lru[i]] = b]
                      /\ refcnt' = [refcnt EXCEPT ![lru[i]] = 1]
                      /\ cur' = [cur EXCEPT ![p] = lru[i]]
    BY <1>7 DEF BgetRecycle
  <2> DEFINE z == lru[i]
  <2>0. z \in Buf /\ cur[p] = None /\ Users(z) = {}
    BY <1>7, UserFacts DEF BgetRecycle, MayRead, Runs, CurInv
  <2>a. b \notin pins
    BY <1>7 DEF BgetRecycle, DirtyInv
  <2>1. CASE y = z
    <3>1. Users(y)' = {p}
      BY <1>7, <2>0, <2>1 DEF BgetRecycle, Users
    <3>2. Cardinality({p}) = 1
      BY FS_Singleton
    <3>3. refcnt'[y] = 1 /\ blockno'[y] = b /\ pins' = pins
      BY <1>7, <2>0, <2>1 DEF BgetRecycle
    <3> QED
      BY <3>1, <3>2, <3>3, <2>a
  <2>2. CASE y # z
    BY <1>7, <2>0, <2>2, SameCount DEF BgetRecycle
  <2> QED
    BY <2>1, <2>2
<1>8. ASSUME NEW p \in Proc, NEW b \in Block, BgetPanics(p, b) PROVE RefcntExact'
  <2> SUFFICES ASSUME NEW y \in Buf
               PROVE  refcnt'[y] = Cardinality(Users(y)') + (IF blockno'[y] \in pins' THEN 1 ELSE 0)
    BY DEF RefcntExact
  <2> QED
    BY <1>8, SameCount DEF BgetPanics, MayRead, Runs, bufs
<1>9. ASSUME NEW p \in Proc, NEW x \in Buf, LogWrite(p, x) PROVE RefcntExact'
  <2> SUFFICES ASSUME NEW y \in Buf
               PROVE  refcnt'[y] = Cardinality(Users(y)') + (IF blockno'[y] \in pins' THEN 1 ELSE 0)
    BY DEF RefcntExact
  <2>1. Users(y)' = Users(y) /\ Cardinality(Users(y)) \in Nat
    BY <1>9, SameUsers, UserFacts DEF LogWrite
  <2>2. refcnt[y] = Cardinality(Users(y)) + (IF blockno[y] \in pins THEN 1 ELSE 0)
    BY DEF RefcntExact
  <2>3. CASE blockno[x] \in pins
    BY <1>9, <2>1, <2>2, <2>3 DEF LogWrite
  <2>4. CASE blockno[x] \notin pins /\ y = x
    BY <1>9, <2>1, <2>2, <2>4 DEF LogWrite
  <2>5. CASE blockno[x] \notin pins /\ y # x
    <3>1. blockno[y] # blockno[x]
      BY <1>9, <2>5 DEF LogWrite, CurInv, OneBuffer
    <3> QED
      BY <1>9, <2>1, <2>2, <2>5, <3>1 DEF LogWrite
  <2> QED
    BY <2>3, <2>4, <2>5
<1>10. ASSUME NEW p \in Proc, NEW x \in Buf, Bwrite(p, x) PROVE RefcntExact'
  <2> SUFFICES ASSUME NEW y \in Buf
               PROVE  refcnt'[y] = Cardinality(Users(y)') + (IF blockno'[y] \in pins' THEN 1 ELSE 0)
    BY DEF RefcntExact
  <2> QED
    BY <1>10, SameCount DEF Bwrite, Runs, bufs
<1>11. ASSUME NEW p \in Proc, NEW x \in Buf, Bunpin(p, x) PROVE RefcntExact'
  <2> SUFFICES ASSUME NEW y \in Buf
               PROVE  refcnt'[y] = Cardinality(Users(y)') + (IF blockno'[y] \in pins' THEN 1 ELSE 0)
    BY DEF RefcntExact
  <2>1. Users(y)' = Users(y) /\ Cardinality(Users(y)) \in Nat
    BY <1>11, SameUsers, UserFacts DEF Bunpin
  <2>2. refcnt[y] = Cardinality(Users(y)) + (IF blockno[y] \in pins THEN 1 ELSE 0)
    BY DEF RefcntExact
  <2>3. CASE y = x
    BY <1>11, <2>1, <2>2, <2>3 DEF Bunpin
  <2>4. CASE y # x
    <3>1. blockno[y] # blockno[x]
      BY <1>11, <2>4 DEF Bunpin, CurInv, OneBuffer
    <3> QED
      BY <1>11, <2>1, <2>2, <2>4, <3>1 DEF Bunpin
  <2> QED
    BY <2>3, <2>4
<1>12. ASSUME NEW p \in Proc, NEW x \in Buf, ReleaseSleep(p, x) PROVE RefcntExact'
  <2> SUFFICES ASSUME NEW y \in Buf
               PROVE  refcnt'[y] = Cardinality(Users(y)') + (IF blockno'[y] \in pins' THEN 1 ELSE 0)
    BY DEF RefcntExact
  <2> QED
    BY <1>12, SameCount DEF ReleaseSleep, Runs, Goto, Wakeup, bufs, CurInv
<1>13. ASSUME NEW p \in Proc, NEW x \in Buf, NEW v \in Data, Modify(p, x, v) PROVE RefcntExact'
  <2> SUFFICES ASSUME NEW y \in Buf
               PROVE  refcnt'[y] = Cardinality(Users(y)') + (IF blockno'[y] \in pins' THEN 1 ELSE 0)
    BY DEF RefcntExact
  <2> QED
    BY <1>13, SameCount DEF Modify, Runs
<1>14. CASE UNCHANGED vars
  <2> SUFFICES ASSUME NEW y \in Buf
               PROVE  refcnt'[y] = Cardinality(Users(y)') + (IF blockno'[y] \in pins' THEN 1 ELSE 0)
    BY DEF RefcntExact
  <2> QED
    BY <1>14, SameCount DEF vars, bufs
<1> QED
  BY <1>1, <1>2, <1>3, <1>4, <1>5, <1>6, <1>7, <1>8, <1>9, <1>10, <1>11, <1>12, <1>13, <1>14 DEF Next

(* No buffer drops out of the list. *)
LEMMA LruStep ==
  ASSUME IInv, TypeOK', [Next]_vars
  PROVE  LruInv'
<1> USE DEF IInv, TypeOK, LruInv
<1>1. ASSUME NEW p \in Proc, Acquire(p) PROVE LruInv'
  BY <1>1 DEF Acquire, Goto, bufs
<1>2. ASSUME NEW p \in Proc, Sleep(p) PROVE LruInv'
  BY <1>2 DEF Sleep, Goto, bufs
<1>3. ASSUME NEW p \in Proc, Kill(p) PROVE LruInv'
  BY <1>3 DEF Kill, Goto, bufs
<1>4. ASSUME NEW p \in Proc, Fill(p) PROVE LruInv'
  BY <1>4 DEF Fill, Goto
<1>5. ASSUME NEW p \in Proc, Brelse(p) PROVE LruInv'
  <2>1. cur[p] \in Buf
    BY <1>5 DEF Brelse, CurInv
  <2>2. CASE lru' = lru
    BY <2>2
  <2>3. CASE lru' = ToFront(cur[p])
    BY <2>1, <2>3, FrontFacts
  <2> QED
    BY <1>5, <2>2, <2>3 DEF Brelse
<1>6. ASSUME NEW p \in Proc, NEW b \in Block, BgetCached(p, b) PROVE LruInv'
  BY <1>6 DEF BgetCached, MayRead, Runs, Goto
<1>7. ASSUME NEW p \in Proc, NEW b \in Block, BgetRecycle(p, b) PROVE LruInv'
  BY <1>7 DEF BgetRecycle, MayRead, Runs, Goto
<1>8. ASSUME NEW p \in Proc, NEW b \in Block, BgetPanics(p, b) PROVE LruInv'
  BY <1>8 DEF BgetPanics, MayRead, Runs, bufs
<1>9. ASSUME NEW p \in Proc, NEW x \in Buf, LogWrite(p, x) PROVE LruInv'
  BY <1>9 DEF LogWrite, Runs
<1>10. ASSUME NEW p \in Proc, NEW x \in Buf, Bwrite(p, x) PROVE LruInv'
  BY <1>10 DEF Bwrite, Runs, bufs
<1>11. ASSUME NEW p \in Proc, NEW x \in Buf, Bunpin(p, x) PROVE LruInv'
  BY <1>11 DEF Bunpin, Runs
<1>12. ASSUME NEW p \in Proc, NEW x \in Buf, ReleaseSleep(p, x) PROVE LruInv'
  BY <1>12 DEF ReleaseSleep, Runs, Goto, Wakeup, bufs
<1>13. ASSUME NEW p \in Proc, NEW x \in Buf, NEW v \in Data, Modify(p, x, v) PROVE LruInv'
  BY <1>13 DEF Modify, Runs
<1>14. CASE UNCHANGED vars
  BY <1>14 DEF vars, bufs
<1> QED
  BY <1>1, <1>2, <1>3, <1>4, <1>5, <1>6, <1>7, <1>8, <1>9, <1>10, <1>11, <1>12, <1>13, <1>14 DEF Next

(* bget panics for want of buffers only. *)
LEMMA PanicStep ==
  ASSUME IInv, TypeOK', [Next]_vars
  PROVE  PanicsWhenFull'
<1> USE DEF IInv, TypeOK, PanicsWhenFull
<1>1. ASSUME NEW p \in Proc, Acquire(p) PROVE PanicsWhenFull'
  BY <1>1 DEF Acquire, Goto, bufs
<1>2. ASSUME NEW p \in Proc, Sleep(p) PROVE PanicsWhenFull'
  BY <1>2 DEF Sleep, Goto, bufs
<1>3. ASSUME NEW p \in Proc, Kill(p) PROVE PanicsWhenFull'
  BY <1>3 DEF Kill, Goto, bufs
<1>4. ASSUME NEW p \in Proc, Fill(p) PROVE PanicsWhenFull'
  BY <1>4 DEF Fill, Goto
<1>5. ASSUME NEW p \in Proc, Brelse(p) PROVE PanicsWhenFull'
  BY <1>5 DEF Brelse, Goto
<1>6. ASSUME NEW p \in Proc, NEW b \in Block, BgetCached(p, b) PROVE PanicsWhenFull'
  BY <1>6 DEF BgetCached, MayRead, Runs, Goto
<1>7. ASSUME NEW p \in Proc, NEW b \in Block, BgetRecycle(p, b) PROVE PanicsWhenFull'
  BY <1>7 DEF BgetRecycle, MayRead, Runs, Goto
<1>8. ASSUME NEW p \in Proc, NEW b \in Block, BgetPanics(p, b) PROVE PanicsWhenFull'
  BY <1>8 DEF BgetPanics, MayRead, Runs, bufs, LruInv
<1>9. ASSUME NEW p \in Proc, NEW x \in Buf, LogWrite(p, x) PROVE PanicsWhenFull'
  BY <1>9 DEF LogWrite, Runs
<1>10. ASSUME NEW p \in Proc, NEW x \in Buf, Bwrite(p, x) PROVE PanicsWhenFull'
  BY <1>10 DEF Bwrite, Runs, bufs
<1>11. ASSUME NEW p \in Proc, NEW x \in Buf, Bunpin(p, x) PROVE PanicsWhenFull'
  BY <1>11 DEF Bunpin, Runs
<1>12. ASSUME NEW p \in Proc, NEW x \in Buf, ReleaseSleep(p, x) PROVE PanicsWhenFull'
  BY <1>12 DEF ReleaseSleep, Runs, Goto, Wakeup, bufs
<1>13. ASSUME NEW p \in Proc, NEW x \in Buf, NEW v \in Data, Modify(p, x, v) PROVE PanicsWhenFull'
  BY <1>13 DEF Modify, Runs
<1>14. CASE UNCHANGED vars
  BY <1>14 DEF vars, bufs
<1> QED
  BY <1>1, <1>2, <1>3, <1>4, <1>5, <1>6, <1>7, <1>8, <1>9, <1>10, <1>11, <1>12, <1>13, <1>14 DEF Next

(* Who releases a sleep lock wakes all who sleep on it. *)
LEMMA SleepStep ==
  ASSUME IInv, TypeOK', [Next]_vars
  PROVE  NoLostWakeup'
<1> USE BufFacts DEF IInv, TypeOK, NoLostWakeup, CurInv, Labels
<1>1. ASSUME NEW p \in Proc, Acquire(p) PROVE NoLostWakeup'
  BY <1>1 DEF Acquire, Goto, bufs
<1>2. ASSUME NEW p \in Proc, Sleep(p) PROVE NoLostWakeup'
  BY <1>2 DEF Sleep, Goto, bufs
<1>3. ASSUME NEW p \in Proc, Kill(p) PROVE NoLostWakeup'
  BY <1>3 DEF Kill, Goto, bufs
<1>4. ASSUME NEW p \in Proc, Fill(p) PROVE NoLostWakeup'
  BY <1>4 DEF Fill, Goto
<1>5. ASSUME NEW p \in Proc, Brelse(p) PROVE NoLostWakeup'
  BY <1>5 DEF Brelse, Goto
<1>6. ASSUME NEW p \in Proc, NEW b \in Block, BgetCached(p, b) PROVE NoLostWakeup'
  BY <1>6 DEF BgetCached, MayRead, Runs, Goto
<1>7. ASSUME NEW p \in Proc, NEW b \in Block, BgetRecycle(p, b) PROVE NoLostWakeup'
  BY <1>7 DEF BgetRecycle, MayRead, Runs, Goto
<1>8. ASSUME NEW p \in Proc, NEW b \in Block, BgetPanics(p, b) PROVE NoLostWakeup'
  BY <1>8 DEF BgetPanics, MayRead, Runs, bufs
<1>9. ASSUME NEW p \in Proc, NEW x \in Buf, LogWrite(p, x) PROVE NoLostWakeup'
  BY <1>9 DEF LogWrite, Runs
<1>10. ASSUME NEW p \in Proc, NEW x \in Buf, Bwrite(p, x) PROVE NoLostWakeup'
  BY <1>10 DEF Bwrite, Runs, bufs
<1>11. ASSUME NEW p \in Proc, NEW x \in Buf, Bunpin(p, x) PROVE NoLostWakeup'
  BY <1>11 DEF Bunpin, Runs
<1>12. ASSUME NEW p \in Proc, NEW x \in Buf, ReleaseSleep(p, x) PROVE NoLostWakeup'
  BY <1>12 DEF ReleaseSleep, Runs, Goto, Wakeup, bufs
<1>13. ASSUME NEW p \in Proc, NEW x \in Buf, NEW v \in Data, Modify(p, x, v) PROVE NoLostWakeup'
  BY <1>13 DEF Modify, Runs
<1>14. CASE UNCHANGED vars
  BY <1>14 DEF vars, bufs
<1> QED
  BY <1>1, <1>2, <1>3, <1>4, <1>5, <1>6, <1>7, <1>8, <1>9, <1>10, <1>11, <1>12, <1>13, <1>14 DEF Next

(* What is newer than the card stays in the cache. *)
LEMMA DirtyStep ==
  ASSUME IInv, TypeOK', [Next]_vars
  PROVE  DirtyInv'
<1> USE BufFacts DEF IInv, TypeOK, DirtyInv
<1>1. ASSUME NEW p \in Proc, Acquire(p) PROVE DirtyInv'
  BY <1>1 DEF Acquire, Goto, bufs
<1>2. ASSUME NEW p \in Proc, Sleep(p) PROVE DirtyInv'
  BY <1>2 DEF Sleep, Goto, bufs
<1>3. ASSUME NEW p \in Proc, Kill(p) PROVE DirtyInv'
  BY <1>3 DEF Kill, Goto, bufs
<1>4. ASSUME NEW p \in Proc, Fill(p) PROVE DirtyInv'
  BY <1>4 DEF Fill, CurInv, OwnInv
<1>5. ASSUME NEW p \in Proc, Brelse(p) PROVE DirtyInv'
  BY <1>5 DEF Brelse, Goto
<1>6. ASSUME NEW p \in Proc, NEW b \in Block, BgetCached(p, b) PROVE DirtyInv'
  BY <1>6 DEF BgetCached, MayRead, Runs, Goto
<1>7. ASSUME NEW p \in Proc, NEW b \in Block, BgetRecycle(p, b) PROVE DirtyInv'
  <2> PICK i \in Buf : /\ refcnt[lru[i]] = 0
                      /\ blockno' = [blockno EXCEPT ![lru[i]] = b]
                      /\ valid' = [valid EXCEPT ![lru[i]] = FALSE]
    BY <1>7 DEF BgetRecycle
  <2>1. lru[i] \in Buf /\ blockno[lru[i]] \notin pins
    BY UserFacts
  <2>2. \A c \in pins : \E y \in Buf : blockno'[y] = c
    BY <2>1
  <2> QED
    BY <1>7, <2>1, <2>2 DEF BgetRecycle
<1>8. ASSUME NEW p \in Proc, NEW b \in Block, BgetPanics(p, b) PROVE DirtyInv'
  BY <1>8 DEF BgetPanics, MayRead, Runs, bufs
<1>9. ASSUME NEW p \in Proc, NEW x \in Buf, LogWrite(p, x) PROVE DirtyInv'
  BY <1>9 DEF LogWrite, Runs
<1>10. ASSUME NEW p \in Proc, NEW x \in Buf, Bwrite(p, x) PROVE DirtyInv'
  <2>1. blockno[x] # None /\ \A y \in Buf : blockno[y] = blockno[x] => y = x
    BY <1>10 DEF Bwrite, CurInv, OneBuffer
  <2> QED
    BY <1>10, <2>1 DEF Bwrite, bufs
<1>11. ASSUME NEW p \in Proc, NEW x \in Buf, Bunpin(p, x) PROVE DirtyInv'
  <2>1. blockno[x] # None /\ \A y \in Buf : blockno[y] = blockno[x] => y = x
    BY <1>11 DEF Bunpin, CurInv, OneBuffer
  <2> QED
    BY <1>11, <2>1 DEF Bunpin
<1>12. ASSUME NEW p \in Proc, NEW x \in Buf, ReleaseSleep(p, x) PROVE DirtyInv'
  BY <1>12 DEF ReleaseSleep, Runs, Goto, Wakeup, bufs
<1>13. ASSUME NEW p \in Proc, NEW x \in Buf, NEW v \in Data, Modify(p, x, v) PROVE DirtyInv'
  BY <1>13 DEF Modify, Runs
<1>14. CASE UNCHANGED vars
  BY <1>14 DEF vars, bufs
<1> QED
  BY <1>1, <1>2, <1>3, <1>4, <1>5, <1>6, <1>7, <1>8, <1>9, <1>10, <1>11, <1>12, <1>13, <1>14 DEF Next

(* After binit(). *)
LEMMA InitInv == Init => IInv
<1> SUFFICES ASSUME Init PROVE IInv
  OBVIOUS
<1>1. TypeOK /\ LruInv
  <2>1. lru \in [Buf -> Buf] /\ LruInv
    <3>1. \A i \in Buf : NBUF + 1 - i \in Buf /\ NBUF + 1 - (NBUF + 1 - i) = i
      BY ConstAssumption DEF Buf
    <3> QED
      BY <3>1 DEF Init, LruInv
  <2> QED
    BY <2>1, ConstAssumption DEF Init, TypeOK, Labels
<1>2. RefcntExact
  <2> SUFFICES ASSUME NEW x \in Buf
               PROVE  refcnt[x] = Cardinality(Users(x)) + (IF blockno[x] \in pins THEN 1 ELSE 0)
    BY DEF RefcntExact
  <2>1. Users(x) = {}
    BY BufFacts DEF Init, Users
  <2> QED
    BY <2>1, FS_EmptySet DEF Init
<1> QED
  BY <1>1, <1>2, BufFacts
  DEF Init, IInv, OneBuffer, CurInv, OwnInv, DirtyInv, PanicsWhenFull, NoLostWakeup

(* The inductive invariant holds for any number of processes and buffers. *)
THEOREM BcacheInvariance == Spec => []IInv
<1>1. Init => IInv
  BY InitInv
<1>2. IInv /\ [Next]_vars => IInv'
  <2> SUFFICES ASSUME IInv, [Next]_vars PROVE IInv'
    OBVIOUS
  <2>1. TypeOK'
    BY TypeStep
  <2> QED
    BY <2>1, OneStep, CurStep, OwnStep, CountStep, DirtyStep, LruStep, PanicStep, SleepStep DEF IInv
<1> QED
  BY <1>1, <1>2, PTL DEF Spec

(* Every variable keeps its type. *)
THEOREM BcacheTypes == Spec => []TypeOK
<1>1. IInv => TypeOK
  BY DEF IInv
<1> QED
  BY <1>1, BcacheInvariance, PTL

(* A buffer's count is the number of its users, and its pin. *)
THEOREM RefcountsAreExact == Spec => []RefcntExact
<1>1. IInv => RefcntExact
  BY DEF IInv
<1> QED
  BY <1>1, BcacheInvariance, PTL

(* bwrite() and brelse() never panic: who has a buffer has its sleep lock. *)
THEOREM HoldersHaveTheLock == Spec => []HoldersOwn
<1>1. IInv => HoldersOwn
  BY DEF IInv, OwnInv, HoldersOwn, TypeOK
<1> QED
  BY <1>1, BcacheInvariance, PTL

(* bget() panics only when every buffer is in use. *)
THEOREM PanicsOnlyWhenFull == Spec => []PanicsWhenFull
<1>1. IInv => PanicsWhenFull
  BY DEF IInv
<1> QED
  BY <1>1, BcacheInvariance, PTL

(* Nobody sleeps on a sleep lock that is free. *)
THEOREM SleepersHaveAHolder == Spec => []NoLostWakeup
<1>1. IInv => NoLostWakeup
  BY DEF IInv
<1> QED
  BY <1>1, BcacheInvariance, PTL

(* The refinement of BlockStore.                                            *)

(* What View and UserOf are, without CHOOSE. *)
ViewFacts ==
  /\ \A x \in Buf : blockno[x] # None =>
       View(blockno[x]) = IF valid[x] THEN data[x] ELSE disk[blockno[x]]
  /\ \A b \in Block : (\A x \in Buf : blockno[x] # b) => View(b) = disk[b]
  /\ \A p \in Proc : \A x \in held[p] : UserOf(blockno[x]) = p
  /\ \A b \in Block : (\A p \in Proc : \A x \in held[p] : blockno[x] # b) => UserOf(b) = None

(* Because no block is cached twice and sleep locks exclude. *)
LEMMA StateFacts == IInv => ViewFacts
<1> SUFFICES ASSUME IInv PROVE ViewFacts
  OBVIOUS
<1> USE DEF IInv
<1>1. ASSUME NEW x \in Buf, blockno[x] # None
      PROVE  View(blockno[x]) = IF valid[x] THEN data[x] ELSE disk[blockno[x]]
  <2>1. \A y \in Buf : blockno[y] = blockno[x] => y = x
    BY <1>1 DEF OneBuffer
  <2> QED
    BY <2>1 DEF View
<1>2. \A b \in Block : (\A x \in Buf : blockno[x] # b) => View(b) = disk[b]
  BY DEF View
<1>3. ASSUME NEW p \in Proc, NEW x \in held[p] PROVE UserOf(blockno[x]) = p
  <2>1. x \in Buf /\ blockno[x] # None
    BY DEF TypeOK, CurInv
  <2>2. ASSUME NEW q \in Proc, NEW y \in held[q], blockno[y] = blockno[x] PROVE q = p
    <3>1. y \in Buf /\ blockno[y] # None
      BY DEF TypeOK, CurInv
    <3>2. y = x
      BY <2>1, <2>2, <3>1 DEF OneBuffer
    <3> QED
      BY <2>1, <3>2 DEF OwnInv
  <2> QED
    BY <2>2 DEF UserOf
<1>4. \A b \in Block : (\A p \in Proc : \A x \in held[p] : blockno[x] # b) => UserOf(b) = None
  BY DEF UserOf
<1> QED
  BY <1>1, <1>2, <1>3, <1>4 DEF ViewFacts

(* Also after a step. *)
LEMMA StateFactsNext == IInv' => ViewFacts'
  BY StateFacts, PTL

(* Nobody gets or gives back a buffer. *)
LEMMA SameUser ==
  ASSUME UNCHANGED held, \A p \in Proc : \A x \in held[p] : blockno'[x] = blockno[x], NEW b \in Block
  PROVE  UserOf(b)' = UserOf(b)
  BY DEF UserOf

(* No buffer gets other contents. *)
LEMMA SameView ==
  ASSUME UNCHANGED <<disk, blockno, valid, data>>, NEW b \in Block
  PROVE  View(b)' = View(b)
  BY DEF View

(* Every step is one step of the store or none. *)
LEMMA StepRefines ==
  ASSUME IInv, IInv', [Next]_vars
  PROVE  [Store!Next]_Store!vars
<1> DEFINE Still == \A c \in Block : View(c)' = View(c)
           Idle == \A c \in Block : UserOf(c)' = UserOf(c)
<1>a. Still /\ Idle => UNCHANGED Store!vars
  BY DEF Store!vars
<1>b. ViewFacts /\ ViewFacts'
  BY StateFacts, StateFactsNext
<1>c. UNCHANGED <<held, blockno>> => Idle
  BY SameUser
<1>d. UNCHANGED <<disk, blockno, valid, data>> => Still
  BY SameView
<1>e. \A p \in Proc : \A x \in held[p] : /\ x \in Buf /\ valid[x] /\ blockno[x] \in Block
                                          /\ \A y \in Buf : blockno[y] = blockno[x] => y = x
  BY DEF IInv, TypeOK, CurInv, OneBuffer
<1>1. ASSUME NEW p \in Proc, Acquire(p) \/ Sleep(p) \/ Kill(p) \/ Brelse(p) PROVE Still /\ Idle
  BY <1>1, <1>c, <1>d DEF Acquire, Sleep, Kill, Brelse, bufs
<1>2. ASSUME NEW p \in Proc, NEW b \in Block, BgetCached(p, b) \/ BgetPanics(p, b) PROVE Still /\ Idle
  BY <1>2, <1>c, <1>d DEF BgetCached, BgetPanics, bufs
<1>3. ASSUME NEW p \in Proc, NEW x \in Buf, LogWrite(p, x) \/ Bunpin(p, x) PROVE Still /\ Idle
  BY <1>3, <1>c, <1>d DEF LogWrite, Bunpin
<1>4. ASSUME NEW p \in Proc, NEW x \in Buf, Bwrite(p, x) PROVE Still /\ Idle
  <2>1. x \in held[p] /\ UNCHANGED <<held, blockno, valid, data>> /\ disk' = [disk EXCEPT ![blockno[x]] = data[x]]
    BY <1>4 DEF Bwrite, bufs
  <2>2. ASSUME NEW c \in Block PROVE View(c)' = View(c)
    <3>1. CASE c = blockno[x]
      BY <2>1, <3>1, <1>e DEF View
    <3>2. CASE c # blockno[x]
      <4>1. disk'[c] = disk[c]
        BY <2>1, <3>2, <1>e DEF IInv, TypeOK
      <4> QED
        BY <2>1, <4>1 DEF View
    <3> QED
      BY <3>1, <3>2
  <2> QED
    BY <2>1, <2>2, <1>c
<1>5. ASSUME NEW p \in Proc, NEW b \in Block, BgetRecycle(p, b) PROVE Still /\ Idle
  <2> PICK i \in Buf : /\ refcnt[lru[i]] = 0
                      /\ blockno' = [blockno EXCEPT ![lru[i]] = b]
                      /\ valid' = [valid EXCEPT ![lru[i]] = FALSE]
    BY <1>5 DEF BgetRecycle
  <2> DEFINE z == lru[i]
  <2>0. z \in Buf /\ UNCHANGED <<held, data, disk>> /\ \A x \in Buf : blockno[x] # b
    BY <1>5 DEF BgetRecycle, IInv, TypeOK
  <2>1. blockno[z] \notin pins /\ z \notin dirty /\ \A q \in Proc : z \notin held[q]
    BY <2>0, UserFacts, InUse DEF IInv, DirtyInv
  <2>2. Idle
    BY <2>0, <2>1, <1>e, SameUser DEF IInv, TypeOK
  <2>3. blockno[z] # None /\ valid[z] => data[z] = disk[blockno[z]]
    BY <2>0, <2>1 DEF IInv, DirtyInv
  <2>4. blockno \in [Buf -> Block \cup {None}] /\ valid \in [Buf -> BOOLEAN]
    BY DEF IInv, TypeOK
  <2>5. blockno'[z] = b /\ ~valid'[z] /\ \A y \in Buf : y # z => blockno'[y] = blockno[y] /\ valid'[y] = valid[y]
    BY <2>0, <2>4
  <2> HIDE DEF z
  <2>6. ASSUME NEW c \in Block PROVE View(c)' = View(c)
    <3>0. c # None
      BY BufFacts
    <3>1. CASE c = b
      <4>1. View(c) = disk[c]
        BY <3>1, <2>0, <1>b DEF ViewFacts
      <4>2. View(c)' = disk'[c]
        BY <3>0, <3>1, <2>0, <2>5, <1>b DEF ViewFacts
      <4> QED
        BY <4>1, <4>2, <2>0
    <3>2. CASE c # b /\ c = blockno[z]
      <4>1. View(c) = disk[c]
        BY <3>0, <3>2, <2>0, <2>3, <1>b DEF ViewFacts
      <4>2. \A x \in Buf : blockno'[x] # c
        BY <3>0, <3>2, <2>0, <2>5 DEF IInv, OneBuffer
      <4>3. View(c)' = disk'[c]
        BY <4>2, <1>b DEF ViewFacts
      <4> QED
        BY <4>1, <4>3, <2>0
    <3>3. CASE c # b /\ c # blockno[z]
      <4>1. \A x \in Buf : blockno'[x] = c /\ valid'[x] <=> blockno[x] = c /\ valid[x]
        BY <3>3, <2>0, <2>5
      <4> QED
        BY <4>1, <2>0 DEF View
    <3> QED
      BY <3>1, <3>2, <3>3
  <2> QED
    BY <2>2, <2>6
<1>6. ASSUME NEW p \in Proc, Fill(p) PROVE Store!Take(p, blockno[cur[p]]) /\ blockno[cur[p]] \in Block
  <2>a. cur[p] \in Buf /\ blockno[cur[p]] \in Block
    BY <1>6, BufFacts DEF Fill, IInv, TypeOK, CurInv
  <2> PICK z \in Buf : z = cur[p]
    BY <2>a
  <2> PICK b \in Block : b = blockno[z]
    BY <2>a
  <2>0. /\ z \in Buf /\ b \in Block /\ b = blockno[z] /\ UNCHANGED <<disk, blockno>>
        /\ data' = IF valid[z] THEN data ELSE [data EXCEPT ![z] = disk[b]]
        /\ valid' = [valid EXCEPT ![z] = TRUE]
        /\ held' = [held EXCEPT ![p] = @ \cup {z}]
    BY <1>6, BufFacts DEF Fill, IInv, TypeOK, CurInv
  <2>1. \A q \in Proc : z \notin held[q]
    BY <1>6, <2>0 DEF Fill, IInv, CurInv, OwnInv
  <2>2. \A y \in Buf : blockno[y] = b => y = z
    BY <2>0, BufFacts DEF IInv, OneBuffer
  <2>3. /\ held \in [Proc -> SUBSET Buf] /\ data \in [Buf -> Data] /\ valid \in [Buf -> BOOLEAN]
        /\ blockno \in [Buf -> Block \cup {None}]
    BY DEF IInv, TypeOK
  <2>4. UserOf(b) = None
    BY <2>0, <2>1, <2>2, <2>3, <1>b DEF ViewFacts
  <2>5. z \in held'[p] /\ blockno'[z] = b
    BY <2>0, <2>3
  <2>6. UserOf(b)' = p
    BY <2>0, <2>5, <1>b DEF ViewFacts, UserOf
  <2>7. ASSUME NEW c \in Block, c # b PROVE UserOf(c)' = UserOf(c)
    <3>1. \A q \in Proc : (\E x \in held'[q] : blockno'[x] = c) <=> (\E x \in held[q] : blockno[x] = c)
      BY <2>0, <2>3, <2>5, <2>7
    <3> QED
      BY <3>1 DEF UserOf
  <2>8. ASSUME NEW c \in Block PROVE View(c)' = View(c)
    <3>1. CASE c = b
      <4>1. c # None /\ blockno[z] = b /\ valid'[z]
        BY <3>1, <2>0, <2>3, <2>5, BufFacts
      <4>2. View(c) = IF valid[z] THEN data[z] ELSE disk[b]
        BY <3>1, <4>1, <2>0, <1>b DEF ViewFacts
      <4>3. View(c)' = data'[z]
        BY <3>1, <4>1, <2>0, <2>5, <1>b DEF ViewFacts
      <4> QED
        BY <4>2, <4>3, <2>0, <2>3
    <3>2. CASE c # b
      <4>1. \A x \in Buf : blockno[x] = c => x # z /\ valid'[x] = valid[x] /\ data'[x] = data[x]
        BY <3>2, <2>0, <2>3, <2>5
      <4>2. /\ \A x \in Buf : blockno'[x] = c /\ valid'[x] <=> blockno[x] = c /\ valid[x]
            /\ \A x \in Buf : blockno[x] = c => data'[x] = data[x]
            /\ disk' = disk
        BY <4>1, <2>0
      <4> QED
        BY <4>2 DEF View
    <3> QED
      BY <3>1, <3>2
  <2>9. Store!Take(p, b)
    BY <2>0, <2>4, <2>6, <2>7, <2>8 DEF Store!Take
  <2> QED
    BY <2>0, <2>9
<1>7. ASSUME NEW p \in Proc, NEW x \in Buf, ReleaseSleep(p, x)
      PROVE  Store!Give(p, blockno[x]) /\ blockno[x] \in Block
  <2> DEFINE b == blockno[x]
  <2>0. /\ x \in held[p] /\ UNCHANGED <<disk, blockno, valid, data>>
        /\ held' = [held EXCEPT ![p] = @ \ {x}]
    BY <1>7 DEF ReleaseSleep, bufs
  <2>1. b \in Block /\ \A y \in Buf : blockno[y] = b => y = x
    BY <2>0, <1>e
  <2>2. held \in [Proc -> SUBSET Buf]
    BY DEF IInv, TypeOK
  <2>3. UserOf(b) = p
    BY <2>0, <1>b DEF ViewFacts
  <2>4. \A q \in Proc : x \in held[q] => q = p
    BY <2>0 DEF IInv, OwnInv
  <2>5. UserOf(b)' = None
    BY <2>0, <2>1, <2>2, <2>4, <1>b DEF ViewFacts
  <2> HIDE DEF b
  <2>6. ASSUME NEW c \in Block, c # b PROVE UserOf(c)' = UserOf(c)
    <3>1. \A q \in Proc : (\E y \in held'[q] : blockno'[y] = c) <=> (\E y \in held[q] : blockno[y] = c)
      BY <2>0, <2>2, <2>6 DEF b
    <3> QED
      BY <3>1 DEF UserOf
  <2> QED
    BY <2>0, <2>1, <2>3, <2>5, <2>6, <1>d DEF Store!Give, b
<1>8. ASSUME NEW p \in Proc, NEW x \in Buf, NEW v \in Data, Modify(p, x, v)
      PROVE  Store!Change(p, blockno[x], v) /\ blockno[x] \in Block
  <2> DEFINE b == blockno[x]
  <2>0. /\ x \in held[p] /\ UNCHANGED <<disk, blockno, valid, held>>
        /\ data' = [data EXCEPT ![x] = v]
    BY <1>8 DEF Modify
  <2>1. b \in Block /\ b # None /\ valid[x] /\ \A y \in Buf : blockno[y] = b => y = x
    BY <2>0, <1>e, BufFacts
  <2>2. data \in [Buf -> Data]
    BY DEF IInv, TypeOK
  <2>3. UserOf(b) = p
    BY <2>0, <1>b DEF ViewFacts
  <2>4. View(b)' = v
    BY <2>0, <2>1, <2>2, <1>b DEF ViewFacts
  <2> HIDE DEF b
  <2>5. ASSUME NEW c \in Block, c # b PROVE View(c)' = View(c)
    <3>1. \A y \in Buf : blockno[y] = c => data'[y] = data[y]
      BY <2>0, <2>2, <2>5 DEF b
    <3> QED
      BY <3>1, <2>0 DEF View
  <2> QED
    BY <2>0, <2>1, <2>3, <2>4, <2>5, <1>c DEF Store!Change, b
<1>9. CASE UNCHANGED vars
  BY <1>9, <1>a, <1>c, <1>d DEF vars, bufs
<1> HIDE DEF Still, Idle
<1> QED
  BY <1>a, <1>1, <1>2, <1>3, <1>4, <1>5, <1>6, <1>7, <1>8, <1>9 DEF Next, Store!Next

(* The cache, with any number of buffers, is a store of blocks: recycling,  *)
(* pinning and writing back do not show.                                    *)
THEOREM BcacheImplementsBlockStore == Spec => RefinesBlockStore
<1>1. Init => Store!Init
  <2> SUFFICES ASSUME Init PROVE Store!Init
    OBVIOUS
  <2>1. \A b \in Block : View(b) = disk[b] /\ UserOf(b) = None
    BY BufFacts DEF Init, View, UserOf
  <2> QED
    BY <2>1 DEF Init, Store!Init
<1>2. IInv /\ IInv' /\ [Next]_vars => [Store!Next]_Store!vars
  BY StepRefines
<1> QED
  BY <1>1, <1>2, BcacheInvariance, PTL DEF Spec, RefinesBlockStore, Store!Spec
================================================================================
