------------------------------- MODULE LogProofs -------------------------------
(***************************************************************************)
(* Proofs about the log for any number of processes, blocks and contents,  *)
(* and any sizes that satisfy Sized: the inductive invariant IInv, the     *)
(* safety properties that follow from it, and the refinement of            *)
(* AtomicDisk.                                                             *)
(***************************************************************************)
EXTENDS Log, FiniteSetTheorems, TLAPS

--------------------------------------------------------------------------------
(* Type correctness is preserved by every step (given the rest of IInv:     *)
(* the counters stay natural numbers).                                      *)

LEMMA OpIsCounted ==
  ASSUME TypeOK, ControlInv, NEW p \in Proc, pc[p] = "op"
  PROVE  /\ outstanding >= 1
         /\ outstanding = 1 <=> Ops = {p}
         /\ IsFiniteSet(Ops)
<1>1. IsFiniteSet(Ops) /\ p \in Ops
  BY ConstAssumption, FS_Subset DEF Ops
<1>2. Cardinality(Ops \ {p}) = Cardinality(Ops) - 1 /\ IsFiniteSet(Ops \ {p})
  BY <1>1, FS_RemoveElement
<1>3. Cardinality(Ops \ {p}) \in Nat
  BY <1>2, FS_CardinalityType
<1>4. Cardinality(Ops \ {p}) = 0 <=> Ops \ {p} = {}
  BY <1>2, FS_EmptySet
<1>5. outstanding = Cardinality(Ops)
  BY DEF ControlInv
<1>6. outstanding \in Nat
  BY DEF TypeOK
<1>7. Ops = {p} <=> Ops \ {p} = {}
  BY <1>1
<1> QED
  BY <1>1, <1>2, <1>3, <1>4, <1>5, <1>6, <1>7

LEMMA TypeInit == Init => TypeOK
<1> SUFFICES ASSUME Init PROVE TypeOK
  OBVIOUS
<1>1. home \in [Block -> Data \cup {Torn}]
  BY DEF Init
<1>2. logd \in [1..LOGSIZE -> Data \cup {Torn}]
  BY DEF Init
<1>3. head \in Seq(Block) /\ lh \in Seq(Block)
  BY DEF Init, PowerOn
<1>4. pc \in [Proc -> PcValues]
  BY DEF Init, PowerOn, PcValues
<1> QED
  BY <1>1, <1>2, <1>3, <1>4 DEF Init, PowerOn, TypeOK

LEMMA TypeNext ==
  ASSUME IInv, Next
  PROVE  TypeOK'
<1> USE ConstAssumption DEF IInv, TypeOK, PcValues, disk, bufs, loghd, procs
<1>1. CASE ReadHead
  BY <1>1 DEF ReadHead
<1>2. CASE RecoverBlock
  <2>1. tail + 1 \in 1..LOGSIZE /\ lh[tail + 1] \in Block
    BY <1>2 DEF RecoverBlock, SpaceInv
  <2> QED
    BY <1>2, <2>1 DEF RecoverBlock
<1>3. CASE RecoverClear
  BY <1>3 DEF RecoverClear
<1>4. ASSUME NEW p \in Proc, BeginOp(p) PROVE TypeOK'
  <2>1. pc' \in [Proc -> PcValues]
    <3>1. \E v \in PcValues : pc' = [pc EXCEPT ![p] = v]
      BY <1>4 DEF BeginOp
    <3> QED
      BY <3>1
  <2>3. used' \in [Proc -> Nat]
    BY <1>4 DEF BeginOp
  <2>2. outstanding' \in Nat
    BY <1>4 DEF BeginOp
  <2> QED
    BY <1>4, <2>1, <2>2, <2>3 DEF BeginOp
<1>5. ASSUME NEW p \in Proc, LogWrite(p) PROVE TypeOK'
  <2>1. held' \in [Proc -> Block \cup {Nothing}] /\ panicked' \in BOOLEAN
    BY <1>5 DEF LogWrite
  <2>2. lh' \in Seq(Block) /\ pins' \in [Block -> Nat] /\ used' \in [Proc -> Nat]
    <3>1. held[p] \in Block
      BY <1>5 DEF LogWrite
    <3>2. CASE UNCHANGED <<lh, pins, used>>
      BY <3>2
    <3>3. CASE /\ lh' = Append(lh, held[p])
               /\ pins' = [pins EXCEPT ![held[p]] = @ + 1]
               /\ used' = [used EXCEPT ![p] = @ + 1]
      BY <3>1, <3>3
    <3> QED
      BY <1>5, <3>2, <3>3, Zenon DEF LogWrite
  <2> QED
    BY <1>5, <2>1, <2>2 DEF LogWrite
<1>6. ASSUME NEW p \in Proc, EndOp(p) PROVE TypeOK'
  <2>1. outstanding - 1 \in Nat
    BY <1>6, OpIsCounted DEF EndOp
  <2>2. pc' \in [Proc -> PcValues]
    <3>1. CASE outstanding = 1
      <4>1. \E v \in PcValues : pc' = [pc EXCEPT ![p] = v]
        BY <1>6, <3>1 DEF EndOp
      <4> QED
        BY <4>1
    <3>2. CASE outstanding # 1
      <4>1. pc' = Wakeup([pc EXCEPT ![p] = "user"])
        BY <1>6, <3>2 DEF EndOp
      <4>2. [pc EXCEPT ![p] = "user"] \in [Proc -> PcValues]
        OBVIOUS
      <4> QED
        BY <4>1, <4>2 DEF Wakeup
    <3> QED
      BY <3>1, <3>2
  <2>3. panicked' \in BOOLEAN /\ committing' \in BOOLEAN
    BY <1>6, Zenon DEF EndOp
  <2>4. outstanding' \in Nat /\ tail' \in Nat
    BY <1>6, <2>1 DEF EndOp
  <2>5. UNCHANGED <<home, logd, head, cache, pins, held, lh, used, boot>>
    BY <1>6 DEF EndOp
  <2> HIDE DEF PcValues
  <2> QED
    BY <2>2, <2>3, <2>4, <2>5
<1>7. ASSUME NEW p \in Proc, WriteLog(p) PROVE TypeOK'
  <2>1. tail + 1 \in 1..LOGSIZE /\ lh[tail + 1] \in Block
    BY <1>7 DEF WriteLog, SpaceInv
  <2>2. View(lh[tail + 1]) \in Data \cup {Torn}
    BY <2>1 DEF View
  <2> QED
    BY <1>7, <2>1, <2>2 DEF WriteLog
<1>8. ASSUME NEW p \in Proc, WriteHead(p) PROVE TypeOK'
  BY <1>8 DEF WriteHead
<1>9. ASSUME NEW p \in Proc, Install(p) PROVE TypeOK'
  <2>1. tail + 1 \in 1..LOGSIZE /\ lh[tail + 1] \in Block
    BY <1>9 DEF Install, SpaceInv
  <2>2. lh[tail + 1] \in Pending
    BY <1>9, <2>1 DEF Install, Pending, InPhase
  <2>3. pins[lh[tail + 1]] = 1
    BY <1>9, <2>1, <2>2 DEF Install, Running, CacheInv
  <2>4. pins' \in [Block -> Nat]
    BY <1>9, <2>1, <2>3 DEF Install
  <2>5. home' \in [Block -> Data \cup {Torn}]
    BY <1>9, <2>1 DEF Install
  <2>6. cache' \in [Block -> Data \cup {Torn, Nothing}]
    BY <1>9, <2>1 DEF Install
  <2> QED
    BY <1>9, <2>4, <2>5, <2>6 DEF Install
<1>10. ASSUME NEW p \in Proc, ClearHead(p) PROVE TypeOK'
  BY <1>10 DEF ClearHead
<1>11. ASSUME NEW p \in Proc, Finish(p) PROVE TypeOK'
  BY <1>11 DEF Finish, Wakeup
<1>12. ASSUME NEW p \in Proc, NEW b \in Block, NEW d \in Data, Modify(p, b, d)
       PROVE  TypeOK'
  BY <1>12 DEF Modify
<1>13. ASSUME NEW b \in Block, Load(b) PROVE TypeOK'
  BY <1>13 DEF Load
<1>14. ASSUME NEW b \in Block, Evict(b) PROVE TypeOK'
  BY <1>14 DEF Evict
<1>15. CASE Crash
  <2>1. home' \in [Block -> Data \cup {Torn}]
    BY <1>15 DEF Crash
  <2>2. logd' \in [1..LOGSIZE -> Data \cup {Torn}]
    BY <1>15 DEF Crash
  <2>3. lh' \in Seq(Block)
    BY <1>15 DEF Crash
  <2>4. pc' \in [Proc -> PcValues]
    BY <1>15 DEF Crash
  <2> QED
    BY <1>15, <2>1, <2>2, <2>3, <2>4 DEF Crash
<1> QED
  BY <1>1, <1>2, <1>3, <1>4, <1>5, <1>6, <1>7, <1>8, <1>9, <1>10, <1>11, <1>12,
     <1>13, <1>14, <1>15 DEF Next, Recover, Commit

--------------------------------------------------------------------------------
(* Control: who is inside an operation and who commits.                     *)

LEMMA ControlInit == Init => ControlInv
<1> SUFFICES ASSUME Init PROVE ControlInv
  OBVIOUS
<1>1. Ops = {} /\ Committers = {}
  BY DEF Init, PowerOn, Ops, Committers
<1> QED
  BY <1>1, FS_EmptySet DEF Init, PowerOn, ControlInv

(* Steps after which everybody is where they were.                          *)
LEMMA ControlSame ==
  ASSUME TypeOK, ControlInv, boot' = "up" \/ boot' = boot \/ boot # "up",
         UNCHANGED <<pc, outstanding, committing, panicked, pins>>,
         \A p \in Proc : held'[p] # Nothing => held[p] # Nothing \/ pc[p] = "op"
  PROVE  ControlInv'
<1>1. Ops' = Ops /\ Committers' = Committers
  BY DEF Ops, Committers
<1> QED
  BY <1>1 DEF ControlInv

(* A crash, or power-on: nobody runs.                                       *)
LEMMA ControlReset ==
  ASSUME pc' = [p \in Proc |-> "user"], pins' = [b \in Block |-> 0],
         held' = [p \in Proc |-> Nothing], outstanding' = 0,
         committing' = FALSE, panicked' = FALSE
  PROVE  ControlInv'
<1>1. Ops' = {} /\ Committers' = {}
  BY DEF Ops, Committers
<1> QED
  BY <1>1, FS_EmptySet DEF ControlInv

(* log_write finds room, even to absorb: the running operation still has    *)
(* two unused slots.                                                        *)
LEMMA NoPanicStep ==
  ASSUME IInv, Sized, NEW p \in Proc, LogWrite(p)
  PROVE  /\ ~panicked'
         /\ Len(lh) + 2 <= LOGSIZE
<1> DEFINE last == {<<p, MAXOPBLOCKS>>, <<p, MAXOPBLOCKS - 1>>}
<1>1. pc[p] = "op"
  BY DEF LogWrite, IInv, ControlInv
<1>2. used[p] \in Nat /\ used[p] <= OpBlocks
  BY DEF IInv, TypeOK, SpaceInv
<1>3. last \subseteq Slots
  BY <1>1, <1>2, ConstAssumption DEF Slots, Sized
<1>4. IsFiniteSet(Slots)
  <2>1. IsFiniteSet(1..MAXOPBLOCKS)
    BY ConstAssumption, FS_Interval
  <2>2. IsFiniteSet(Proc \X (1..MAXOPBLOCKS))
    BY <2>1, ConstAssumption, FS_Product
  <2> QED
    BY <2>2, FS_Subset DEF Slots
<1>5. Cardinality(last) = 2
  <2>1. Cardinality({<<p, MAXOPBLOCKS>>}) = 1 /\ IsFiniteSet({<<p, MAXOPBLOCKS>>})
    BY FS_Singleton
  <2>2. last = {<<p, MAXOPBLOCKS>>} \cup {<<p, MAXOPBLOCKS - 1>>}
    OBVIOUS
  <2>3. <<p, MAXOPBLOCKS - 1>> \notin {<<p, MAXOPBLOCKS>>}
    BY ConstAssumption
  <2> QED
    <3>1. Cardinality({<<p, MAXOPBLOCKS>>} \cup {<<p, MAXOPBLOCKS - 1>>})
            = Cardinality({<<p, MAXOPBLOCKS>>}) + 1
      BY <2>1, <2>3, FS_AddElement
    <3> HIDE DEF last
    <3> QED
      BY <2>1, <2>2, <3>1
<1>6. Cardinality(Slots) \in Nat /\ Cardinality(Slots) >= 2
  BY <1>3, <1>4, <1>5, FS_Subset, FS_CardinalityType
<1>7. Len(lh) + 2 <= LOGSIZE /\ Len(lh) \in Nat
  BY <1>6, ConstAssumption DEF IInv, SpaceInv, SpaceReserved, TypeOK
<1>8. outstanding >= 1 /\ outstanding \in Nat
  BY <1>1, OpIsCounted DEF IInv, TypeOK
<1>9. ~(Len(lh) >= LOGSIZE \/ Len(lh) + 1 >= NLOG \/ outstanding < 1)
  BY <1>7, <1>8, ConstAssumption DEF Sized
<1> QED
  BY <1>7, <1>9 DEF LogWrite, Running

LEMMA ControlNext ==
  ASSUME IInv, Sized, Next, TypeOK'
  PROVE  ControlInv'
<1> USE ConstAssumption DEF IInv, disk, bufs, loghd, procs
<1>1. CASE ReadHead
  BY <1>1, ControlSame DEF ReadHead
<1>2. CASE RecoverBlock
  BY <1>2, ControlSame DEF RecoverBlock
<1>3. CASE RecoverClear
  BY <1>3, ControlSame DEF RecoverClear
<1>4. ASSUME NEW p \in Proc, BeginOp(p) PROVE ControlInv'
  <2>1. CASE committing \/ NoRoom
    <3>1. pc' = [pc EXCEPT ![p] = "sleep"] /\ outstanding' = outstanding
      BY <1>4, <2>1 DEF BeginOp
    <3>2. Ops' = Ops /\ Committers' = Committers
      BY <1>4, <3>1 DEF BeginOp, Ops, Committers, TypeOK
    <3> QED
      BY <1>4, <3>1, <3>2 DEF BeginOp, ControlInv, TypeOK, Running
  <2>2. CASE ~(committing \/ NoRoom)
    <3>1. pc' = [pc EXCEPT ![p] = "op"] /\ outstanding' = outstanding + 1
      BY <1>4, <2>2 DEF BeginOp
    <3>2. Ops' = Ops \cup {p} /\ p \notin Ops /\ Committers' = Committers
      BY <1>4, <3>1 DEF BeginOp, Ops, Committers, TypeOK
    <3>3. IsFiniteSet(Ops)
      BY FS_Subset DEF Ops
    <3>4. outstanding' = Cardinality(Ops')
      BY <3>1, <3>2, <3>3, FS_AddElement DEF ControlInv
    <3> QED
      BY <1>4, <2>2, <3>1, <3>2, <3>4 DEF BeginOp, ControlInv, TypeOK, Running
  <2> QED
    BY <2>1, <2>2
<1>5. ASSUME NEW p \in Proc, LogWrite(p) PROVE ControlInv'
  <2>1. ~panicked'
    BY <1>5, NoPanicStep
  <2>2. UNCHANGED <<pc, outstanding, committing, boot>> /\ boot = "up"
    BY <1>5 DEF LogWrite, Running
  <2>3. Ops' = Ops /\ Committers' = Committers
    BY <2>2 DEF Ops, Committers
  <2>4. \A q \in Proc : held'[q] # Nothing => pc'[q] = "op"
    BY <1>5, <2>1, <2>2 DEF LogWrite, TypeOK, ControlInv
  <2> QED
    BY <2>1, <2>2, <2>3, <2>4 DEF ControlInv
<1>6. ASSUME NEW p \in Proc, EndOp(p) PROVE ControlInv'
  <2>1. p \in Ops /\ ~committing /\ Committers = {} /\ boot = "up"
    BY <1>6 DEF EndOp, Ops, ControlInv, Running
  <2>2. outstanding' = outstanding - 1 /\ ~panicked' /\ UNCHANGED <<held, pins, boot>>
    BY <1>6, <2>1 DEF EndOp
  <2>3. Ops' = Ops \ {p} /\ Committers' = IF outstanding = 1 THEN {p} ELSE {}
    BY <1>6, <2>1 DEF EndOp, Ops, Committers, Wakeup, TypeOK
  <2>4. outstanding' = Cardinality(Ops')
    BY <1>6, <2>1, <2>2, <2>3, OpIsCounted, FS_RemoveElement DEF EndOp, ControlInv
  <2>5. committing' <=> outstanding = 1
    BY <1>6, <2>1 DEF EndOp
  <2>6. outstanding = 1 => Ops' = {}
    BY <1>6, <2>3, OpIsCounted DEF EndOp
  <2>7. \A q \in Proc : held'[q] # Nothing => pc'[q] = "op"
    BY <1>6, <2>2 DEF EndOp, ControlInv, TypeOK, Wakeup
  <2> QED
    BY <2>1, <2>2, <2>3, <2>4, <2>5, <2>6, <2>7 DEF ControlInv
<1>7. ASSUME NEW p \in Proc, WriteLog(p) PROVE ControlInv'
  BY <1>7, ControlSame DEF WriteLog
<1>8. ASSUME NEW p \in Proc, WriteHead(p) \/ ClearHead(p) PROVE ControlInv'
  <2>1. Ops' = Ops /\ Committers' = Committers
    BY <1>8 DEF WriteHead, ClearHead, Ops, Committers, TypeOK
  <2> QED
    BY <1>8, <2>1 DEF WriteHead, ClearHead, ControlInv, TypeOK, Running
<1>9. ASSUME NEW p \in Proc, Install(p) PROVE ControlInv'
  <2>1. Ops' = Ops /\ Committers' = Committers
    BY <1>9 DEF Install, Ops, Committers
  <2> QED
    BY <1>9, <2>1 DEF Install, ControlInv, Running
<1>10. ASSUME NEW p \in Proc, Finish(p) PROVE ControlInv'
  <2>1. Ops' = Ops /\ Committers' = Committers \ {p} /\ p \in Committers
    BY <1>10 DEF Finish, Ops, Committers, Wakeup, TypeOK
  <2>2. Committers' = {}
    BY <2>1 DEF ControlInv
  <2> QED
    BY <1>10, <2>1, <2>2 DEF Finish, ControlInv, TypeOK, Running, Wakeup
<1>11. ASSUME NEW p \in Proc, NEW b \in Block, NEW d \in Data, Modify(p, b, d)
       PROVE  ControlInv'
  BY <1>11, ControlSame DEF Modify, TypeOK
<1>12. ASSUME NEW b \in Block, Load(b) \/ Evict(b) PROVE ControlInv'
  BY <1>12, ControlSame DEF Load, Evict
<1>13. CASE Crash
  BY <1>13, ControlReset DEF Crash
<1> QED
  BY <1>1, <1>2, <1>3, <1>4, <1>5, <1>6, <1>7, <1>8, <1>9, <1>10, <1>11, <1>12,
     <1>13 DEF Next, Recover, Commit

--------------------------------------------------------------------------------
(* Space: the unused reservations of the running operations.                *)

LEMMA SlotsFinite ==
  ASSUME TypeOK
  PROVE  IsFiniteSet(Slots) /\ Cardinality(Slots) \in Nat
<1>1. IsFiniteSet(1..MAXOPBLOCKS)
  BY ConstAssumption, FS_Interval
<1>2. IsFiniteSet(Proc \X (1..MAXOPBLOCKS))
  BY <1>1, ConstAssumption, FS_Product
<1> QED
  BY <1>2, FS_Subset, FS_CardinalityType DEF Slots

LEMMA NoSlots ==
  ASSUME Ops = {}
  PROVE  Slots = {} /\ Cardinality(Slots) = 0
<1>1. Slots = {}
  BY DEF Ops, Slots
<1> QED
  BY <1>1, FS_EmptySet

LEMMA SpaceInit == Init => SpaceInv
<1> SUFFICES ASSUME Init PROVE SpaceInv
  OBVIOUS
<1>1. Ops = {}
  BY DEF Init, PowerOn, Ops
<1>2. Len(lh) = 0 /\ Len(head) = 0
  BY DEF Init, PowerOn
<1> QED
  BY <1>1, <1>2, NoSlots, ConstAssumption DEF Init, PowerOn, SpaceInv, SpaceReserved

(* The block numbers of the header after an append, and their positions.    *)
LEMMA AppendRange ==
  ASSUME NEW s \in Seq(Block), NEW b \in Block
  PROVE  /\ Append(s, b) \in Seq(Block)
         /\ Len(Append(s, b)) = Len(s) + 1
         /\ \A i \in DOMAIN s : Append(s, b)[i] = s[i]
         /\ Append(s, b)[Len(s) + 1] = b
         /\ DOMAIN Append(s, b) = DOMAIN s \cup {Len(s) + 1}
         /\ Range(Append(s, b)) = Range(s) \cup {b}
<1>1. /\ Append(s, b) \in Seq(Block)
      /\ Len(Append(s, b)) = Len(s) + 1
      /\ \A i \in 1..Len(s) : Append(s, b)[i] = s[i]
      /\ Append(s, b)[Len(s) + 1] = b
  OBVIOUS
<1>2. DOMAIN s = 1..Len(s) /\ DOMAIN Append(s, b) = 1..(Len(s) + 1) /\ Len(s) \in Nat
  BY <1>1
<1>3. DOMAIN Append(s, b) = DOMAIN s \cup {Len(s) + 1}
  BY <1>2
<1> QED
  BY <1>1, <1>2, <1>3, Zenon DEF Range

(* Steps that add nothing to the log and admit no operation.                *)
LEMMA SpaceSame ==
  ASSUME TypeOK, TypeOK', SpaceInv, Len(lh') <= Len(lh), Range(lh) = Range(lh') \/ lh' = <<>>,
         Len(head') <= LOGSIZE, used' = used, Slots' \subseteq Slots,
         \A p \in Proc : held'[p] \notin Range(lh') \cup {Nothing} => used[p] < OpBlocks
  PROVE  SpaceInv'
<1>1. Cardinality(Slots') <= Cardinality(Slots) /\ Cardinality(Slots') \in Nat
  BY SlotsFinite, FS_Subset, FS_CardinalityType
<1>2. SpaceReserved'
  BY <1>1, SlotsFinite, ConstAssumption DEF SpaceInv, SpaceReserved, TypeOK
<1>3. Len(lh') <= LOGSIZE
  BY ConstAssumption DEF SpaceInv, TypeOK
<1> QED
  BY <1>2, <1>3 DEF SpaceInv

LEMMA SpaceReset ==
  ASSUME pc' = [p \in Proc |-> "user"], lh' = <<>>, UNCHANGED head, SpaceInv,
         held' = [p \in Proc |-> Nothing], used' = [p \in Proc |-> 0]
  PROVE  SpaceInv'
<1>1. Ops' = {}
  BY DEF Ops
<1>2. Cardinality(Slots') = 0
  <2>1. Slots' = {}
    BY <1>1 DEF Slots, Ops
  <2> QED
    BY <2>1, FS_EmptySet
<1>3. Len(lh') = 0
  OBVIOUS
<1> QED
  BY <1>2, <1>3, ConstAssumption DEF SpaceInv, SpaceReserved

LEMMA SpaceNext ==
  ASSUME IInv, Sized, Next, TypeOK', ControlInv'
  PROVE  SpaceInv'
<1> USE ConstAssumption DEF IInv, disk, bufs, loghd, procs
<1>1. CASE ReadHead
  <2>1. Ops' = {} /\ Slots' = {}
    BY <1>1 DEF ReadHead, ControlInv, Ops, Slots
  <2>2. Cardinality(Slots') = 0
    BY <2>1, FS_EmptySet
  <2>3. \A p \in Proc : held'[p] = Nothing
    BY <1>1 DEF ReadHead, ControlInv
  <2>4. lh' = head /\ UNCHANGED <<head, used>>
    BY <1>1 DEF ReadHead
  <2>5. Len(lh') + 0 <= LOGSIZE
    BY <2>4 DEF SpaceInv, TypeOK
  <2> QED
    BY <2>2, <2>3, <2>4, <2>5 DEF SpaceInv, SpaceReserved
<1>2. CASE RecoverBlock
  BY <1>2, SpaceSame DEF RecoverBlock, Slots, SpaceInv, TypeOK
<1>3. CASE RecoverClear
  <2>1. \A p \in Proc : held'[p] = Nothing
    BY <1>3 DEF RecoverClear, ControlInv
  <2>2. Slots' = Slots /\ lh' = <<>> /\ head' = <<>> /\ UNCHANGED used
    BY <1>3 DEF RecoverClear, Slots
  <2>3. Len(lh') = 0 /\ Len(head') = 0 /\ Len(lh) \in Nat
    BY <2>2 DEF TypeOK
  <2> QED
    BY <2>1, <2>2, <2>3, SpaceSame
<1>4. ASSUME NEW p \in Proc, BeginOp(p) PROVE SpaceInv'
  <2>1. CASE committing \/ NoRoom
    <3>1. pc' = [pc EXCEPT ![p] = "sleep"] /\ used' = used
      BY <1>4, <2>1 DEF BeginOp
    <3>2. Slots' = Slots
      BY <1>4, <3>1 DEF BeginOp, Slots, TypeOK
    <3> QED
      BY <1>4, <3>1, <3>2, SpaceSame DEF BeginOp, SpaceInv, TypeOK
  <2>2. CASE ~(committing \/ NoRoom)
    <3>1. /\ outstanding' = outstanding + 1
          /\ used' = [used EXCEPT ![p] = 0]
          /\ UNCHANGED <<lh, held, head>>
      BY <1>4, <2>2 DEF BeginOp
    <3>2. Len(lh') + outstanding' * MAXOPBLOCKS <= LOGSIZE
      BY <2>2, <3>1 DEF NoRoom, TypeOK
    <3>3. Slots' \subseteq Ops' \X (1..MAXOPBLOCKS)
      BY DEF Slots, Ops
    <3>4. /\ Cardinality(Ops' \X (1..MAXOPBLOCKS)) = outstanding' * MAXOPBLOCKS
          /\ IsFiniteSet(Ops' \X (1..MAXOPBLOCKS))
      <4>1. IsFiniteSet(Ops')
        BY FS_Subset DEF Ops
      <4>2. IsFiniteSet(1..MAXOPBLOCKS) /\ Cardinality(1..MAXOPBLOCKS) = MAXOPBLOCKS
        BY FS_Interval
      <4>3. outstanding' = Cardinality(Ops')
        BY DEF ControlInv
      <4> QED
        BY <4>1, <4>2, <4>3, FS_Product
    <3>5. /\ Cardinality(Slots') <= outstanding' * MAXOPBLOCKS
          /\ Cardinality(Slots') \in Nat
      BY <3>3, <3>4, FS_Subset, FS_CardinalityType
    <3>6. SpaceReserved'
      <4> DEFINE m == outstanding' * MAXOPBLOCKS
      <4>1. m \in Nat
        BY <3>4, FS_CardinalityType
      <4>2. Len(lh') \in Nat
        BY DEF TypeOK
      <4>3. Len(lh') + m <= LOGSIZE /\ Cardinality(Slots') <= m
        BY <3>2, <3>5
      <4> HIDE DEF m
      <4> QED
        BY <3>5, <4>1, <4>2, <4>3 DEF SpaceReserved
    <3>7. held[p] = Nothing
      BY <1>4 DEF BeginOp, ControlInv
    <3> QED
      BY <3>1, <3>6, <3>7 DEF SpaceInv, TypeOK
  <2> QED
    BY <2>1, <2>2
<1>5. ASSUME NEW p \in Proc, LogWrite(p) PROVE SpaceInv'
  <2>1. ~panicked' /\ Len(lh) + 2 <= LOGSIZE
    BY <1>5, NoPanicStep
  <2>2. CASE held[p] \in Range(lh)
    <3>1. UNCHANGED <<lh, used, pc, head>> /\ held' = [held EXCEPT ![p] = Nothing]
      BY <1>5, <2>1, <2>2 DEF LogWrite
    <3>2. Slots' = Slots
      BY <3>1 DEF Slots
    <3> QED
      BY <3>1, <3>2, SpaceSame DEF SpaceInv, TypeOK
  <2>3. CASE held[p] \notin Range(lh)
    <3>1. /\ lh' = Append(lh, held[p])
          /\ used' = [used EXCEPT ![p] = @ + 1]
          /\ held' = [held EXCEPT ![p] = Nothing]
          /\ UNCHANGED <<pc, head>>
      BY <1>5, <2>1, <2>3 DEF LogWrite
    <3>2. held[p] \in Block /\ pc[p] = "op" /\ used[p] < OpBlocks /\ used[p] \in Nat
      BY <1>5, <2>3 DEF LogWrite, TypeOK, ControlInv, SpaceInv
    <3>3. Slots' = Slots \ {<<p, used[p] + 1>>} /\ <<p, used[p] + 1>> \in Slots
      BY <3>1, <3>2, SMTT(40) DEF Slots, TypeOK, Sized
    <3>4. Cardinality(Slots') = Cardinality(Slots) - 1
      BY <3>3, SlotsFinite, FS_RemoveElement
    <3>5. Len(lh') = Len(lh) + 1 /\ Len(lh) \in Nat
      BY <3>1, <3>2 DEF TypeOK
    <3>6. SpaceReserved'
      BY <3>4, <3>5, SlotsFinite DEF SpaceInv, SpaceReserved
    <3>7. Range(lh) \subseteq Range(lh')
      BY <3>1, <3>2, AppendRange DEF TypeOK
    <3>8. \A q \in Proc : held'[q] \notin Range(lh') \cup {Nothing} => used'[q] < OpBlocks
      BY <3>1, <3>7 DEF SpaceInv, TypeOK
    <3>9. \A q \in Proc : used'[q] <= OpBlocks
      BY <3>1, <3>2 DEF SpaceInv, TypeOK
    <3> QED
      BY <2>1, <3>1, <3>5, <3>6, <3>8, <3>9 DEF SpaceInv
  <2> QED
    BY <2>2, <2>3
<1>6. ASSUME NEW p \in Proc, EndOp(p) PROVE SpaceInv'
  <2>1. Slots' \subseteq Slots
    BY <1>6 DEF EndOp, Slots, Wakeup, TypeOK
  <2> QED
    BY <1>6, <2>1, SpaceSame DEF EndOp, SpaceInv, TypeOK
<1>7. ASSUME NEW p \in Proc, WriteLog(p) PROVE SpaceInv'
  <2>1. Slots' = Slots /\ UNCHANGED <<lh, used, held, head>>
    BY <1>7 DEF WriteLog, Slots
  <2> QED
    BY <2>1, SpaceSame DEF SpaceInv, TypeOK
<1>8. ASSUME NEW p \in Proc, WriteHead(p) PROVE SpaceInv'
  <2>1. Slots' \subseteq Slots
    BY <1>8 DEF WriteHead, Slots, TypeOK
  <2> QED
    BY <1>8, <2>1, SpaceSame DEF WriteHead, SpaceInv, TypeOK
<1>9. ASSUME NEW p \in Proc, Install(p) PROVE SpaceInv'
  <2>1. Slots' = Slots /\ UNCHANGED <<lh, used, held, head>>
    BY <1>9 DEF Install, Slots
  <2> QED
    BY <2>1, SpaceSame DEF SpaceInv, TypeOK
<1>10. ASSUME NEW p \in Proc, ClearHead(p) PROVE SpaceInv'
  <2>1. Slots' \subseteq Slots
    BY <1>10 DEF ClearHead, Slots, TypeOK
  <2>2. Ops = {} /\ \A q \in Proc : held[q] = Nothing
    BY <1>10 DEF ClearHead, ControlInv, Committers, Ops
  <2>3. Len(lh') = 0 /\ Len(head') = 0 /\ Len(lh) \in Nat /\ lh' = <<>>
    BY <1>10 DEF ClearHead, TypeOK
  <2>4. UNCHANGED <<held, used>>
    BY <1>10 DEF ClearHead
  <2> QED
    BY <2>1, <2>2, <2>3, <2>4, SpaceSame
<1>11. ASSUME NEW p \in Proc, Finish(p) PROVE SpaceInv'
  <2>1. Slots' \subseteq Slots
    BY <1>11 DEF Finish, Slots, Wakeup, TypeOK
  <2>2. UNCHANGED <<lh, head, held, used>>
    BY <1>11 DEF Finish
  <2> QED
    BY <2>1, <2>2, SpaceSame DEF SpaceInv, TypeOK
<1>12. ASSUME NEW p \in Proc, NEW b \in Block, NEW d \in Data, Modify(p, b, d)
       PROVE  SpaceInv'
  BY <1>12, SpaceSame DEF Modify, Slots, SpaceInv, TypeOK
<1>13. ASSUME NEW b \in Block, Load(b) \/ Evict(b) PROVE SpaceInv'
  BY <1>13, SpaceSame DEF Load, Evict, Slots, SpaceInv, TypeOK
<1>14. CASE Crash
  BY <1>14, SpaceReset DEF Crash
<1> QED
  BY <1>1, <1>2, <1>3, <1>4, <1>5, <1>6, <1>7, <1>8, <1>9, <1>10, <1>11, <1>12,
     <1>13, <1>14 DEF Next, Recover, Commit

--------------------------------------------------------------------------------
(* The headers and the copies of the blocks.                                *)

(* At most one process commits, after the last operation and never while    *)
(* the machine boots.                                                       *)
LEMMA Phases ==
  ASSUME IInv
  PROVE  /\ boot # "up" \/ Ops # {} =>
              ~InPhase("write_log") /\ ~InPhase("install") /\ ~InPhase("finish")
         /\ InPhase("write_log") => ~InPhase("install") /\ ~InPhase("finish")
         /\ InPhase("install") => ~InPhase("finish")
  BY DEF IInv, ControlInv, InPhase, Committers

(* Steps that leave the process table alone as far as commits go.           *)
LEMMA PhasesSame ==
  ASSUME TypeOK, NEW p \in Proc, NEW v, v \notin {"write_log", "install", "finish"},
         pc[p] \notin {"write_log", "install", "finish"}, pc' = [pc EXCEPT ![p] = v],
         NEW f \in {"write_log", "install", "finish"}
  PROVE  InPhase(f)' <=> InPhase(f)
  BY DEF TypeOK, InPhase

(* Nothing on the disk and nothing in the log changed.                      *)
LEMMA HeaderSame ==
  ASSUME HeaderInv, UNCHANGED <<home, logd, head, lh, tail, boot>>,
         InPhase("write_log")' <=> InPhase("write_log"),
         InPhase("install")' <=> InPhase("install"),
         InPhase("finish")' <=> InPhase("finish"),
         \A b \in Block : View(b)' = View(b),
         lh \in Seq(Block)
  PROVE  HeaderInv'
<1>1. \A i \in DOMAIN lh : lh[i] \in Block
  OBVIOUS
<1> QED
  BY <1>1 DEF HeaderInv

(* Outside commits HeaderInv says only this.                                *)
LEMMA HeaderIdle ==
  ASSUME ~InPhase("write_log"), ~InPhase("install"), boot = "up", head = <<>>,
         \A i, j \in DOMAIN lh : lh[i] = lh[j] => i = j,
         InPhase("finish") => lh = <<>>
  PROVE  HeaderInv
  BY DEF HeaderInv

LEMMA HeaderInit == Init => HeaderInv
  BY DEF Init, PowerOn, HeaderInv, InPhase

LEMMA HeaderNext ==
  ASSUME IInv, Sized, Next, TypeOK', ControlInv'
  PROVE  HeaderInv'
<1> USE ConstAssumption DEF disk, bufs, loghd, procs
<1>0. TypeOK /\ ControlInv /\ HeaderInv
  BY DEF IInv
<1>1. CASE ReadHead
  <2>1. ~InPhase("write_log")' /\ ~InPhase("install")' /\ ~InPhase("finish")'
    BY <1>1, <1>0 DEF ReadHead, InPhase, ControlInv
  <2> QED
    BY <1>1, <2>1, <1>0 DEF ReadHead, HeaderInv, TypeOK
<1>2. CASE RecoverBlock
  <2>1. ~InPhase("write_log")' /\ ~InPhase("install")' /\ ~InPhase("finish")'
    BY <1>2, <1>0 DEF RecoverBlock, InPhase, ControlInv
  <2>2. tail + 1 \in DOMAIN lh /\ \A i \in DOMAIN lh : lh[i] \in Block /\ i \in Nat
    BY <1>2, <1>0 DEF RecoverBlock, TypeOK
  <2>3. \A i \in DOMAIN lh : i <= tail + 1 => home'[lh[i]] = logd[i]
    <3>1. /\ \A i \in DOMAIN lh : i <= tail => home[lh[i]] = logd[i]
          /\ \A i \in DOMAIN lh : lh[i] = lh[tail + 1] => i = tail + 1
      BY <1>2, <1>0, <2>2 DEF RecoverBlock, HeaderInv
    <3>2. \A b \in Block : home'[b] = IF b = lh[tail + 1] THEN logd[tail + 1] ELSE home[b]
      BY <1>2, <1>0, <2>2 DEF RecoverBlock, TypeOK
    <3>3. tail \in Nat
      BY <1>0 DEF TypeOK
    <3> QED
      BY <2>2, <3>1, <3>2, <3>3
  <2> QED
    BY <1>2, <2>1, <2>3, <1>0 DEF RecoverBlock, HeaderInv
<1>3. CASE RecoverClear
  <2>1. ~InPhase("write_log")' /\ ~InPhase("install")' /\ ~InPhase("finish")'
    BY <1>3, <1>0 DEF RecoverClear, InPhase, ControlInv
  <2> QED
    BY <1>3, <2>1, HeaderIdle DEF RecoverClear, HeaderInv
<1>4. ASSUME NEW p \in Proc, BeginOp(p) PROVE HeaderInv'
  <2>1. \E v \in {"sleep", "op"} : pc' = [pc EXCEPT ![p] = v]
    BY <1>4 DEF BeginOp
  <2>2. \A f \in {"write_log", "install", "finish"} : InPhase(f)' <=> InPhase(f)
    BY <1>4, <1>0, <2>1, PhasesSame DEF BeginOp
  <2> QED
    BY <1>4, <1>0, <2>2, HeaderSame DEF BeginOp, TypeOK, View
<1>5. ASSUME NEW p \in Proc, LogWrite(p) PROVE HeaderInv'
  <2>1. pc[p] = "op" /\ p \in Ops /\ boot = "up"
    BY <1>5, <1>0 DEF LogWrite, ControlInv, Ops, Running
  <2>2. ~InPhase("write_log")' /\ ~InPhase("install")' /\ ~InPhase("finish")'
    BY <1>5, <2>1, Phases DEF LogWrite, InPhase
  <2>3. head = <<>> /\ UNCHANGED <<head, boot>>
    BY <1>5, <1>0, <2>1, Phases DEF LogWrite, HeaderInv
  <2>4. \A i, j \in DOMAIN lh' : lh'[i] = lh'[j] => i = j
    <3>1. CASE lh' = lh
      BY <3>1, <1>0 DEF HeaderInv
    <3>2. CASE held[p] \notin Range(lh) /\ lh' = Append(lh, held[p])
      <4>1. held[p] \in Block
        BY <1>5, <1>0 DEF LogWrite, TypeOK
      <4>2. /\ \A i \in DOMAIN lh : lh'[i] = lh[i]
            /\ lh'[Len(lh) + 1] = held[p]
            /\ DOMAIN lh' = DOMAIN lh \cup {Len(lh) + 1}
        BY <3>2, <4>1, <1>0, AppendRange DEF TypeOK
      <4>3. \A i \in DOMAIN lh : lh[i] # held[p]
        BY <3>2 DEF Range
      <4> QED
        BY <4>2, <4>3, <1>0 DEF HeaderInv
    <3> QED
      BY <1>5, <3>1, <3>2 DEF LogWrite
  <2> QED
    BY <2>1, <2>2, <2>3, <2>4, HeaderIdle DEF HeaderInv
<1>6. ASSUME NEW p \in Proc, EndOp(p) PROVE HeaderInv'
  <2>1. p \in Ops /\ boot = "up"
    BY <1>6 DEF EndOp, Ops, Running
  <2>2. ~InPhase("write_log") /\ ~InPhase("install") /\ ~InPhase("finish") /\ head = <<>>
    BY <1>0, <2>1, Phases DEF HeaderInv
  <2>3. UNCHANGED <<home, logd, head, lh, boot>>
    BY <1>6 DEF EndOp
  <2>4. CASE outstanding = 1
    <3>1. pc' = [pc EXCEPT ![p] = IF lh = <<>> THEN "finish" ELSE "write_log"] /\ tail' = 0
      BY <1>6, <2>4 DEF EndOp
    <3>2. ~InPhase("install")' /\ (InPhase("finish")' => lh = <<>>)
      BY <3>1, <2>2, <1>0 DEF InPhase, TypeOK
    <3>3. \A i \in DOMAIN lh : ~(i <= tail')
      BY <3>1, <1>0 DEF TypeOK
    <3> QED
      BY <2>1, <2>2, <2>3, <3>2, <3>3, <1>0 DEF HeaderInv
  <2>5. CASE outstanding # 1
    <3>1. pc' = Wakeup([pc EXCEPT ![p] = "user"])
      BY <1>6, <2>5 DEF EndOp
    <3>2. ~InPhase("write_log")' /\ ~InPhase("install")' /\ ~InPhase("finish")'
      BY <3>1, <2>2, <1>0 DEF InPhase, TypeOK, Wakeup
    <3> QED
      BY <2>1, <2>2, <2>3, <3>2, <1>0, HeaderIdle DEF HeaderInv
  <2> QED
    BY <2>4, <2>5
<1>7. ASSUME NEW p \in Proc, WriteLog(p) PROVE HeaderInv'
  <2>1. InPhase("write_log") /\ ~InPhase("install") /\ ~InPhase("finish") /\ boot = "up"
    BY <1>7, Phases DEF WriteLog, InPhase, Running
  <2>2. \A f \in {"write_log", "install", "finish"} : InPhase(f)' <=> InPhase(f)
    BY <1>7 DEF WriteLog, InPhase
  <2>3. /\ tail + 1 \in DOMAIN lh /\ tail + 1 \in 1..LOGSIZE
        /\ \A i \in DOMAIN lh : lh[i] \in Block /\ i \in 1..LOGSIZE
    BY <1>7, <1>0 DEF WriteLog, TypeOK, IInv, SpaceInv
  <2>4. \A b \in Block : View(b)' = View(b)
    BY <1>7, <1>0, <2>3 DEF WriteLog, View, TypeOK
  <2>5. \A i \in DOMAIN lh : i <= tail + 1 => logd'[i] = View(lh[i])
    BY <1>7, <1>0, <2>1, <2>3 DEF WriteLog, HeaderInv, TypeOK
  <2>6. UNCHANGED <<head, lh, boot>> /\ tail' = tail + 1
    BY <1>7 DEF WriteLog
  <2>7. \A i \in DOMAIN lh' : i <= tail' => logd'[i] = View(lh[i])'
    BY <2>3, <2>4, <2>5, <2>6
  <2> QED
    BY <2>1, <2>2, <2>6, <2>7, <1>0 DEF HeaderInv
<1>8. ASSUME NEW p \in Proc, WriteHead(p) PROVE HeaderInv'
  <2>1. InPhase("write_log") /\ ~InPhase("install") /\ ~InPhase("finish") /\ boot = "up"
    BY <1>8, Phases DEF WriteHead, InPhase, Running
  <2>2. \A q \in Proc : pc[q] = "write_log" => q = p
    BY <1>8, <1>0 DEF WriteHead, ControlInv, Committers
  <2>3. ~InPhase("write_log")' /\ InPhase("install")' /\ ~InPhase("finish")'
    BY <1>8, <1>0, <2>1, <2>2 DEF WriteHead, InPhase, TypeOK
  <2>4. UNCHANGED <<home, logd, cache, lh, boot>> /\ head' = lh /\ tail' = 0
    BY <1>8 DEF WriteHead
  <2>5. \A i \in DOMAIN lh : i <= tail /\ ~(i <= 0)
    BY <1>8, <1>0 DEF WriteHead, TypeOK
  <2>6. \A i \in DOMAIN lh' : logd'[i] = View(lh[i])'
    BY <2>1, <2>4, <2>5, <1>0 DEF HeaderInv, View
  <2> QED
    BY <2>1, <2>3, <2>4, <2>5, <2>6, <1>0 DEF HeaderInv
<1>9. ASSUME NEW p \in Proc, Install(p) PROVE HeaderInv'
  <2>1. InPhase("install") /\ ~InPhase("write_log") /\ ~InPhase("finish") /\ boot = "up"
    BY <1>9, Phases DEF Install, InPhase, Running
  <2>2. \A f \in {"write_log", "install", "finish"} : InPhase(f)' <=> InPhase(f)
    BY <1>9 DEF Install, InPhase
  <2>3. /\ tail + 1 \in DOMAIN lh
        /\ \A i \in DOMAIN lh : lh[i] \in Block /\ i \in Nat /\ logd[i] # Nothing
    BY <1>9, <1>0 DEF Install, TypeOK, IInv, SpaceInv
  <2>4. \A i \in DOMAIN lh : i <= tail + 1 => home'[lh[i]] = logd[i]
    <3>1. home' = [home EXCEPT ![lh[tail + 1]] = logd[tail + 1]] /\ tail \in Nat
      BY <1>9, <1>0 DEF Install, TypeOK
    <3>2. \A i \in DOMAIN lh : i <= tail => home[lh[i]] = logd[i]
      BY <1>0, <2>1 DEF HeaderInv
    <3>3. \A i \in DOMAIN lh : home'[lh[i]] =
                IF lh[i] = lh[tail + 1] THEN logd[tail + 1] ELSE home[lh[i]]
      BY <1>0, <2>3, <3>1 DEF TypeOK
    <3>4. \A i \in DOMAIN lh : lh[i] = lh[tail + 1] => i = tail + 1
      BY <1>0, <2>3 DEF HeaderInv
    <3> QED
      BY <2>3, <3>1, <3>2, <3>3, <3>4
  <2>5. \A i \in DOMAIN lh : View(lh[i])' = logd[i]
    BY <1>9, <1>0, <2>1, <2>3 DEF Install, HeaderInv, View, TypeOK
  <2>6. UNCHANGED <<head, lh, logd, boot>> /\ tail' = tail + 1
    BY <1>9 DEF Install
  <2>7. \A i \in DOMAIN lh' : logd'[i] = View(lh[i])'
    BY <2>5, <2>6
  <2> QED
    BY <2>1, <2>2, <2>4, <2>6, <2>7, <1>0 DEF HeaderInv
<1>10. ASSUME NEW p \in Proc, ClearHead(p) PROVE HeaderInv'
  <2>1. ~InPhase("write_log") /\ boot = "up"
    BY <1>10, Phases DEF ClearHead, InPhase, Running
  <2>2. \A q \in Proc : pc[q] = "install" => q = p
    BY <1>10, <1>0 DEF ClearHead, ControlInv, Committers
  <2>3. ~InPhase("write_log")' /\ ~InPhase("install")'
    BY <1>10, <1>0, <2>1, <2>2 DEF ClearHead, InPhase, TypeOK
  <2>4. UNCHANGED boot /\ head' = <<>> /\ lh' = <<>>
    BY <1>10 DEF ClearHead
  <2> QED
    BY <2>1, <2>3, <2>4, HeaderIdle DEF HeaderInv
<1>11. ASSUME NEW p \in Proc, Finish(p) PROVE HeaderInv'
  <2>1. ~InPhase("write_log") /\ ~InPhase("install") /\ InPhase("finish") /\ boot = "up"
    BY <1>11, Phases DEF Finish, InPhase, Running
  <2>2. ~InPhase("write_log")' /\ ~InPhase("install")'
    BY <1>11, <1>0, <2>1 DEF Finish, InPhase, TypeOK, Wakeup
  <2>3. UNCHANGED <<boot, head, lh>>
    BY <1>11 DEF Finish
  <2> QED
    BY <2>1, <2>2, <2>3, <1>0, HeaderIdle DEF HeaderInv
<1>12. ASSUME NEW p \in Proc, NEW b \in Block, NEW d \in Data, Modify(p, b, d)
       PROVE  HeaderInv'
  <2>1. p \in Ops /\ boot = "up"
    BY <1>12 DEF Modify, Ops, Running
  <2>2. ~InPhase("write_log") /\ ~InPhase("install") /\ ~InPhase("finish") /\ head = <<>>
    BY <1>0, <2>1, Phases DEF HeaderInv
  <2>3. UNCHANGED <<pc, lh, head, boot>>
    BY <1>12 DEF Modify
  <2>4. ~InPhase("write_log")' /\ ~InPhase("install")' /\ ~InPhase("finish")'
    BY <2>2, <2>3 DEF InPhase
  <2> QED
    BY <2>1, <2>2, <2>3, <2>4, <1>0, HeaderIdle DEF HeaderInv
<1>13. ASSUME NEW b \in Block, Load(b) \/ Evict(b) PROVE HeaderInv'
  <2>1. \A a \in Block : View(a)' = View(a)
    <3>1. CASE Load(b)
      BY <3>1, <1>0 DEF Load, View, TypeOK
    <3>2. CASE Evict(b)
      <4>1. cache[b] = home[b] /\ cache' = [cache EXCEPT ![b] = Nothing]
        <5>1. cache[b] \notin {Nothing, home[b]} =>
                pins[b] > 0 \/ b \in {held[p] : p \in Proc}
          BY DEF IInv, CacheInv
        <5>2. pins[b] = 0 /\ b \notin {held[p] : p \in Proc} /\ cache[b] # Nothing
          BY <3>2 DEF Evict
        <5> QED
          BY <3>2, <5>1, <5>2 DEF Evict
      <4> QED
        BY <3>2, <4>1, <1>0 DEF Evict, View, TypeOK
    <3> QED
      BY <1>13, <3>1, <3>2
  <2>2. UNCHANGED <<home, logd, head, lh, tail, boot, pc>>
    BY <1>13 DEF Load, Evict
  <2>3. \A f \in {"write_log", "install", "finish"} : InPhase(f)' <=> InPhase(f)
    BY <2>2 DEF InPhase
  <2> QED
    BY <2>1, <2>2, <2>3, <1>0, HeaderSame DEF TypeOK
<1>14. CASE Crash
  <2>1. ~InPhase("write_log")' /\ ~InPhase("install")' /\ ~InPhase("finish")'
    BY <1>14 DEF Crash, InPhase
  <2>2. boot' = "read_head" /\ lh' = <<>> /\ head' = head
    BY <1>14 DEF Crash
  <2> QED
    BY <2>1, <2>2, <1>0 DEF HeaderInv
<1> QED
  BY <1>1, <1>2, <1>3, <1>4, <1>5, <1>6, <1>7, <1>8, <1>9, <1>10, <1>11, <1>12,
     <1>13, <1>14 DEF Next, Recover, Commit

--------------------------------------------------------------------------------
(* The cache: pins, and which blocks may be dirty.                          *)

LEMMA PendingSame ==
  ASSUME UNCHANGED <<lh, tail>>, InPhase("install")' <=> InPhase("install")
  PROVE  Pending' = Pending
  BY DEF Pending, Range

LEMMA CacheInit == Init => CacheInv
  BY DEF Init, PowerOn, CacheInv

(* Steps that touch neither pins, homes nor the cache.                      *)
LEMMA CacheSame ==
  ASSUME CacheInv, UNCHANGED <<home, cache, pins, boot>>, Pending' = Pending,
         UNCHANGED held
  PROVE  CacheInv'
  BY DEF CacheInv

LEMMA CacheNext ==
  ASSUME IInv, Sized, Next, TypeOK', ControlInv', HeaderInv'
  PROVE  CacheInv'
<1> USE ConstAssumption DEF disk, bufs, loghd, procs
<1>0. TypeOK /\ ControlInv /\ HeaderInv /\ CacheInv
  BY DEF IInv
<1>1. CASE ReadHead
  BY <1>1, <1>0 DEF ReadHead, CacheInv
<1>2. CASE RecoverBlock
  <2>1. lh[tail + 1] \in Block
    BY <1>2, <1>0 DEF RecoverBlock, TypeOK
  <2> QED
    BY <1>2, <2>1, <1>0 DEF RecoverBlock, CacheInv, TypeOK
<1>3. CASE RecoverClear
  <2>1. Pending' = {}
    BY <1>3 DEF RecoverClear, Pending, Range
  <2>2. \A b \in Block : pins'[b] = 0
    BY <1>3, <1>0 DEF RecoverClear, ControlInv
  <2>3. UNCHANGED <<home, cache, pins, held>>
    BY <1>3 DEF RecoverClear
  <2> QED
    BY <2>1, <2>2, <2>3, <1>0 DEF CacheInv
<1>4. ASSUME NEW p \in Proc, BeginOp(p) PROVE CacheInv'
  <2>1. \E v \in {"sleep", "op"} : pc' = [pc EXCEPT ![p] = v]
    BY <1>4 DEF BeginOp
  <2>2. InPhase("install")' <=> InPhase("install")
    BY <1>4, <1>0, <2>1, PhasesSame DEF BeginOp
  <2>3. UNCHANGED <<home, cache, pins, boot, held, lh, tail>>
    BY <1>4 DEF BeginOp
  <2> QED
    BY <2>2, <2>3, <1>0, PendingSame, CacheSame
<1>5. ASSUME NEW p \in Proc, LogWrite(p) PROVE CacheInv'
  <2>1. p \in Ops /\ boot = "up" /\ ~panicked' /\ held[p] \in Block
    BY <1>5, <1>0, NoPanicStep DEF LogWrite, ControlInv, Ops, Running, TypeOK
  <2>2. Pending = Range(lh) /\ Pending' = Range(lh')
    <3>1. ~InPhase("install") /\ pc' = pc
      BY <1>5, <2>1, Phases DEF LogWrite
    <3> QED
      BY <3>1 DEF Pending, InPhase
  <2>3. Range(lh') = Range(lh) \cup {held[p]}
    <3>1. CASE held[p] \in Range(lh)
      BY <1>5, <2>1, <3>1 DEF LogWrite
    <3>2. CASE held[p] \notin Range(lh)
      BY <1>5, <1>0, <2>1, <3>2, AppendRange, ZenonT(60) DEF LogWrite, TypeOK
    <3> QED
      BY <3>1, <3>2
  <2>4. pins' = IF held[p] \in Range(lh) THEN pins ELSE [pins EXCEPT ![held[p]] = @ + 1]
    BY <1>5, <2>1 DEF LogWrite
  <2>5. \A b \in Block : pins'[b] = IF b \in Pending' THEN 1 ELSE 0
    BY <1>0, <2>1, <2>2, <2>3, <2>4 DEF CacheInv, TypeOK
  <2>6. held' = [held EXCEPT ![p] = Nothing] /\ UNCHANGED <<home, cache, boot>>
    BY <1>5, <2>1 DEF LogWrite
  <2>7. ASSUME NEW b \in Block, cache'[b] \notin {Nothing, home'[b]}
        PROVE  pins'[b] > 0 \/ b \in {held'[q] : q \in Proc}
    <3>1. CASE b \in Pending'
      BY <3>1, <2>5
    <3>2. CASE b \notin Pending'
      <4>1. b # held[p] /\ pins[b] = 0
        BY <3>2, <2>1, <2>2, <2>3, <1>0 DEF CacheInv
      <4>2. PICK q \in Proc : held[q] = b
        BY <4>1, <2>6, <2>7, <1>0 DEF CacheInv
      <4>3. held'[q] = b
        BY <4>1, <4>2, <2>6, <1>0 DEF TypeOK
      <4> QED
        BY <4>3
    <3> QED
      BY <3>1, <3>2
  <2> QED
    BY <2>5, <2>7 DEF CacheInv
<1>6. ASSUME NEW p \in Proc, EndOp(p) PROVE CacheInv'
  <2>1. ~InPhase("install") /\ ~InPhase("install")'
    <3>1. p \in Ops
      BY <1>6 DEF EndOp, Ops
    <3>2. ~InPhase("install")
      BY <3>1, Phases
    <3> QED
      BY <1>6, <3>2, <1>0, ZenonT(60) DEF EndOp, InPhase, TypeOK, Wakeup
  <2>2. UNCHANGED <<home, cache, pins, boot, held, lh>>
    BY <1>6 DEF EndOp
  <2>3. Pending' = Pending
    BY <2>1, <2>2 DEF Pending, Range
  <2> QED
    BY <2>2, <2>3, <1>0, CacheSame
<1>7. ASSUME NEW p \in Proc, WriteLog(p) PROVE CacheInv'
  <2>1. lh[tail + 1] \in Block
    BY <1>7, <1>0 DEF WriteLog, TypeOK
  <2>2. UNCHANGED <<home, pins, boot, held, lh, pc>>
    BY <1>7 DEF WriteLog
  <2>3. ~InPhase("install") /\ ~InPhase("install")'
    BY <1>7, <2>2, Phases DEF WriteLog, InPhase
  <2>4. Pending' = Pending
    BY <2>2, <2>3 DEF Pending, Range
  <2>5. \A b \in Block : cache'[b] \in {cache[b], home[b]}
    BY <1>7, <2>1, <1>0 DEF WriteLog, TypeOK, View
  <2> QED
    BY <2>2, <2>4, <2>5, <1>0 DEF CacheInv
<1>8. ASSUME NEW p \in Proc, WriteHead(p) PROVE CacheInv'
  <2>1. ~InPhase("install")
    BY <1>8, Phases DEF WriteHead, InPhase
  <2>2. InPhase("install")'
    BY <1>8, <1>0 DEF WriteHead, InPhase, TypeOK
  <2>3. UNCHANGED <<home, cache, pins, boot, held, lh>> /\ tail' = 0
    BY <1>8 DEF WriteHead
  <2>4. \A i \in DOMAIN lh : i > 0
    BY <1>0 DEF TypeOK
  <2>5. Pending' = Pending
    BY <2>1, <2>2, <2>3, <2>4 DEF Pending, Range
  <2> QED
    BY <2>3, <2>5, <1>0, CacheSame
<1>9. ASSUME NEW p \in Proc, Install(p) PROVE CacheInv'
  <2>1. tail + 1 \in DOMAIN lh /\ lh[tail + 1] \in Block /\ boot = "up" /\ tail \in Nat
    BY <1>9, <1>0 DEF Install, TypeOK, Running
  <2>2. /\ home' = [home EXCEPT ![lh[tail + 1]] = logd[tail + 1]]
        /\ cache' = [cache EXCEPT ![lh[tail + 1]] = logd[tail + 1]]
        /\ pins' = [pins EXCEPT ![lh[tail + 1]] = @ - 1]
        /\ tail' = tail + 1 /\ UNCHANGED <<lh, held, pc, boot>>
    BY <1>9 DEF Install
  <2>3. InPhase("install") /\ InPhase("install")'
    BY <1>9, <2>2 DEF Install, InPhase
  <2>4. /\ Pending = {lh[i] : i \in {j \in DOMAIN lh : j > tail}}
        /\ Pending' = {lh[i] : i \in {j \in DOMAIN lh : j > tail + 1}}
    BY <2>2, <2>3 DEF Pending
  <2>5. Pending' = Pending \ {lh[tail + 1]} /\ lh[tail + 1] \in Pending
    <3>1. \A i, j \in DOMAIN lh : lh[i] = lh[j] => i = j
      BY <1>0 DEF HeaderInv
    <3>2. \A i \in DOMAIN lh : i \in Nat
      BY <1>0 DEF TypeOK
    <3> QED
      BY <2>1, <2>4, <3>1, <3>2
  <2>6. \A b \in Block : pins'[b] = IF b \in Pending' THEN 1 ELSE 0
    <3>1. \A b \in Block : pins[b] = IF b \in Pending THEN 1 ELSE 0
      BY <1>0, <2>1 DEF CacheInv
    <3>2. \A b \in Block : pins'[b] = IF b = lh[tail + 1] THEN pins[b] - 1 ELSE pins[b]
      BY <1>0, <2>1, <2>2 DEF TypeOK
    <3> QED
      BY <2>5, <3>1, <3>2
  <2>7. \A b \in Block : cache'[b] \notin {Nothing, home'[b]} =>
                           pins'[b] > 0 \/ b \in {held'[q] : q \in Proc}
    BY <2>1, <2>2, <1>0 DEF CacheInv, TypeOK
  <2> QED
    BY <2>6, <2>7 DEF CacheInv
<1>10. ASSUME NEW p \in Proc, ClearHead(p) PROVE CacheInv'
  <2>1. InPhase("install") /\ lh' = <<>>
    BY <1>10 DEF ClearHead, InPhase
  <2>2. Pending = {}
    BY <1>10, <2>1, <1>0 DEF ClearHead, Pending, TypeOK
  <2>3. Pending' = {}
    BY <2>1 DEF Pending, Range
  <2> QED
    BY <1>10, <2>2, <2>3, <1>0, CacheSame DEF ClearHead
<1>11. ASSUME NEW p \in Proc, Finish(p) PROVE CacheInv'
  <2>1. ~InPhase("install") /\ ~InPhase("install")'
    <3>1. ~InPhase("install")
      BY <1>11, Phases DEF Finish, InPhase
    <3> QED
      BY <1>11, <3>1, <1>0 DEF Finish, InPhase, TypeOK, Wakeup
  <2>2. UNCHANGED <<home, cache, pins, boot, held, lh>>
    BY <1>11 DEF Finish
  <2>3. Pending' = Pending
    BY <2>1, <2>2 DEF Pending, Range
  <2> QED
    BY <2>2, <2>3, <1>0, CacheSame
<1>12. ASSUME NEW p \in Proc, NEW b \in Block, NEW d \in Data, Modify(p, b, d)
       PROVE  CacheInv'
  <2>1. UNCHANGED <<home, pins, boot, lh, tail, pc>>
    BY <1>12 DEF Modify
  <2>2. Pending' = Pending
    BY <2>1 DEF Pending, Range, InPhase
  <2>3. \A a \in Block : \/ cache'[a] = cache[a]
                         \/ a \in {held'[q] : q \in Proc}
    BY <1>12, <1>0 DEF Modify, TypeOK
  <2>4. \A a \in Block : a \in {held[q] : q \in Proc} => a \in {held'[q] : q \in Proc}
    <3> SUFFICES ASSUME NEW q \in Proc, held[q] \in Block
                 PROVE  held'[q] = held[q]
      OBVIOUS
    <3> QED
      BY <1>12, <1>0 DEF Modify, TypeOK
  <2> QED
    BY <2>1, <2>2, <2>3, <2>4, <1>0 DEF CacheInv
<1>13. ASSUME NEW b \in Block, Load(b) \/ Evict(b) PROVE CacheInv'
  <2>1. UNCHANGED <<home, pins, boot, lh, tail, held, pc>>
    BY <1>13 DEF Load, Evict
  <2>2. Pending' = Pending
    BY <2>1 DEF Pending, Range, InPhase
  <2>3. \A a \in Block : cache'[a] \in {cache[a], home[a], Nothing}
    BY <1>13, <1>0 DEF Load, Evict, TypeOK
  <2> QED
    BY <2>1, <2>2, <2>3, <1>0 DEF CacheInv
<1>14. CASE Crash
  BY <1>14 DEF Crash, CacheInv
<1> QED
  BY <1>1, <1>2, <1>3, <1>4, <1>5, <1>6, <1>7, <1>8, <1>9, <1>10, <1>11, <1>12,
     <1>13, <1>14 DEF Next, Recover, Commit

--------------------------------------------------------------------------------
(* The invariant holds in every state, whatever the constants.              *)

LEMMA InvInit == Init => IInv
  BY TypeInit, ControlInit, SpaceInit, HeaderInit, CacheInit DEF IInv

LEMMA InvNext ==
  ASSUME Sized, IInv, [Next]_vars
  PROVE  IInv'
<1>1. CASE Next
  BY <1>1, TypeNext, ControlNext, SpaceNext, HeaderNext, CacheNext DEF IInv
<1>2. CASE UNCHANGED vars
  BY <1>2 DEF vars, disk, bufs, loghd, procs, IInv, TypeOK, ControlInv, SpaceInv,
     HeaderInv, CacheInv, SpaceReserved, Slots, Ops, Committers, InPhase, View,
     Pending, Range
<1> QED
  BY <1>1, <1>2

(* The inductive invariant: types, one committer after the last operation,  *)
(* reserved space, and how headers, log blocks, cache and home blocks       *)
(* relate at every point of a commit, a recovery or a power failure.        *)
THEOREM Invariance == ASSUME Sized PROVE Spec => []IInv
<1>1. Init => IInv
  BY InvInit
<1>2. IInv /\ [Next]_vars => IInv'
  BY InvNext
<1> QED
  BY <1>1, <1>2, PTL DEF Spec

(* Every variable of log.c keeps its type.                                  *)
THEOREM TypeCorrect == ASSUME Sized PROVE Spec => []TypeOK
<1>1. IInv => TypeOK
  BY DEF IInv
<1> QED
  BY <1>1, Invariance, PTL

(* log_write never panics with "too big a transaction" or "log_write        *)
(* outside of trans", nor end_op with "log.committing".                     *)
THEOREM NeverPanics == ASSUME Sized PROVE Spec => []NoPanic
<1>1. IInv => NoPanic
  BY DEF IInv, ControlInv, NoPanic
<1> QED
  BY <1>1, Invariance, PTL

(* The space begin_op reserved for every running operation is there.        *)
THEOREM SpaceIsReserved == ASSUME Sized PROVE Spec => []SpaceReserved
<1>1. IInv => SpaceReserved
  BY DEF IInv, SpaceInv
<1> QED
  BY <1>1, Invariance, PTL

(* No block whose only new copy is in the cache can be recycled.            *)
THEOREM DirtyBlocksAreKept == ASSUME Sized PROVE Spec => []DirtyIsKept
<1>1. IInv => DirtyIsKept
  BY DEF IInv, CacheInv, DirtyIsKept
<1> QED
  BY <1>1, Invariance, PTL

--------------------------------------------------------------------------------
(* begin_op: admission and waiting.                                         *)

LEMMA SerialNext ==
  ASSUME LOGSIZE < 2 * MAXOPBLOCKS, IInv, outstanding <= 1, [Next]_vars
  PROVE  outstanding' <= 1
<1> USE ConstAssumption DEF disk, bufs, loghd, procs
<1>1. ASSUME NEW p \in Proc, BeginOp(p) PROVE outstanding' <= 1
  <2>1. CASE committing \/ NoRoom
    BY <1>1, <2>1 DEF BeginOp
  <2>2. CASE ~(committing \/ NoRoom)
    <3>1. outstanding' = outstanding + 1
      BY <1>1, <2>2 DEF BeginOp
    <3>2. Len(lh) + (outstanding + 1) * MAXOPBLOCKS <= LOGSIZE
      BY <2>2 DEF NoRoom, IInv, TypeOK
    <3>3. CASE outstanding = 1
      BY <3>2, <3>3 DEF IInv, TypeOK
    <3>4. CASE outstanding = 0
      BY <3>1, <3>4
    <3> QED
      BY <3>3, <3>4 DEF IInv, TypeOK
  <2> QED
    BY <2>1, <2>2
<1>2. ASSUME NEW p \in Proc, EndOp(p) PROVE outstanding' <= 1
  BY <1>2 DEF EndOp, IInv, TypeOK
<1>3. CASE Crash
  BY <1>3 DEF Crash
<1>4. CASE UNCHANGED outstanding
  BY <1>4
<1> QED
  BY <1>1, <1>2, <1>3, <1>4 DEF Next, vars, Recover, Commit, ReadHead, RecoverBlock,
     RecoverClear, LogWrite, WriteLog, WriteHead, Install, ClearHead, Finish, Modify,
     Load, Evict

(* With LOGSIZE = MAXOPBLOCKS (param.h:10), log.c never has two file-system *)
(* calls between begin_op and end_op.                                       *)
THEOREM OneOperationAtATime == ASSUME Sized PROVE Spec => []Serialised
<1>1. CASE LOGSIZE < 2 * MAXOPBLOCKS
  <2>1. Init => outstanding <= 1
    BY DEF Init, PowerOn
  <2>2. IInv /\ outstanding <= 1 /\ [Next]_vars => (outstanding <= 1)'
    BY <1>1, SerialNext
  <2>3. outstanding <= 1 => Serialised
    BY DEF Serialised
  <2> QED
    BY <2>1, <2>2, <2>3, Invariance, PTL DEF Spec
<1>2. CASE ~(LOGSIZE < 2 * MAXOPBLOCKS)
  <2>1. Serialised
    BY <1>2 DEF Serialised
  <2> QED
    BY <2>1, PTL
<1> QED
  BY <1>1, <1>2

(* Between commits an idle log is empty.                                    *)
EmptyWhenIdle == boot = "up" /\ Ops = {} /\ ~committing => lh = <<>>

WaitInv == EmptyWhenIdle /\ NoLostWakeup

LEMMA IdleCounts ==
  ASSUME IInv
  PROVE  outstanding > 0 <=> Ops # {}
<1>1. outstanding = Cardinality(Ops) /\ IsFiniteSet(Ops)
  BY ConstAssumption, FS_Subset DEF IInv, ControlInv, Ops
<1>2. Cardinality(Ops) \in Nat /\ (Cardinality(Ops) = 0 <=> Ops = {})
  BY <1>1, FS_EmptySet, FS_CardinalityType
<1> QED
  BY <1>1, <1>2

LEMMA WaitNext ==
  ASSUME Sized, IInv, IInv', WaitInv, Next
  PROVE  WaitInv'
<1> USE ConstAssumption DEF disk, bufs, loghd, procs
<1>0. TypeOK /\ ControlInv /\ HeaderInv
  BY DEF IInv
<1> DEFINE Asleep == \E p \in Proc : pc[p] = "sleep"
<1>1. CASE ReadHead \/ RecoverBlock
  <2>1. boot' # "up" /\ ~Asleep'
    BY <1>1, <1>0 DEF ReadHead, RecoverBlock, ControlInv
  <2> QED
    BY <2>1 DEF WaitInv, EmptyWhenIdle, NoLostWakeup
<1>2. CASE RecoverClear
  <2>1. lh' = <<>> /\ ~Asleep'
    BY <1>2, <1>0 DEF RecoverClear, ControlInv
  <2> QED
    BY <2>1 DEF WaitInv, EmptyWhenIdle, NoLostWakeup
<1>3. ASSUME NEW p \in Proc, BeginOp(p) PROVE WaitInv'
  <2>1. boot = "up" /\ UNCHANGED <<lh, committing, boot>>
    BY <1>3 DEF BeginOp, Running
  <2>2. CASE committing \/ NoRoom
    <3>1. pc' = [pc EXCEPT ![p] = "sleep"] /\ outstanding' = outstanding
      BY <1>3, <2>2 DEF BeginOp
    <3>2. Ops' = Ops
      BY <1>3, <1>0, <3>1 DEF BeginOp, Ops, TypeOK
    <3>3. NoRoom /\ ~committing => Ops # {}
      <4> SUFFICES ASSUME NoRoom, ~committing, Ops = {} PROVE FALSE
        OBVIOUS
      <4>1. Len(lh) = 0 /\ outstanding = 0
        BY <2>1, IdleCounts, <1>0 DEF WaitInv, EmptyWhenIdle, TypeOK
      <4> QED
        BY <4>1 DEF NoRoom, Sized
    <3> QED
      BY <2>1, <2>2, <3>1, <3>2, <3>3, IdleCounts
         DEF WaitInv, EmptyWhenIdle, NoLostWakeup, NoRoom
  <2>3. CASE ~(committing \/ NoRoom)
    <3>1. pc' = [pc EXCEPT ![p] = "op"]
      BY <1>3, <2>3 DEF BeginOp
    <3>2. p \in Ops' /\ ~Asleep'
      BY <2>3, <3>1, <1>0 DEF Ops, TypeOK, WaitInv, NoLostWakeup
    <3> QED
      BY <3>2 DEF WaitInv, EmptyWhenIdle, NoLostWakeup
  <2> QED
    BY <2>2, <2>3
<1>4. ASSUME NEW p \in Proc, LogWrite(p) PROVE WaitInv'
  <2>1. p \in Ops /\ UNCHANGED <<pc, outstanding, committing>>
    BY <1>4, <1>0 DEF LogWrite, Ops, ControlInv
  <2>2. Ops' = Ops
    BY <2>1 DEF Ops
  <2>3. Len(lh') >= Len(lh) /\ Len(lh') \in Nat /\ Len(lh) \in Nat
    BY <1>4, <1>0, AppendRange DEF LogWrite, TypeOK
  <2>4. NoRoom => NoRoom'
    <3> DEFINE m == (outstanding + 1) * MAXOPBLOCKS
    <3>1. m' = m /\ m \in Int
      BY <2>1, <1>0 DEF TypeOK
    <3>2. (NoRoom <=> Len(lh) + m > LOGSIZE) /\ (NoRoom' <=> Len(lh') + m' > LOGSIZE)
      BY DEF NoRoom
    <3> HIDE DEF m
    <3> QED
      BY <2>3, <3>1, <3>2
  <2> QED
    BY <2>1, <2>2, <2>4 DEF WaitInv, EmptyWhenIdle, NoLostWakeup
<1>5. ASSUME NEW p \in Proc, EndOp(p) PROVE WaitInv'
  <2>1. CASE outstanding = 1
    BY <1>5, <2>1 DEF EndOp, WaitInv, EmptyWhenIdle, NoLostWakeup
  <2>2. CASE outstanding # 1
    <3>1. pc' = Wakeup([pc EXCEPT ![p] = "user"])
      BY <1>5, <2>2 DEF EndOp
    <3>2. ~Asleep'
      BY <3>1, <1>0 DEF Wakeup, TypeOK
    <3>3. outstanding' > 0
      BY <1>5, <2>2, <1>0, OpIsCounted DEF EndOp, TypeOK
    <3>4. Ops' # {}
      <4>1. outstanding' = Cardinality(Ops')
        BY DEF IInv, ControlInv
      <4> QED
        BY <3>3, <4>1, FS_EmptySet
    <3> QED
      BY <3>2, <3>4 DEF WaitInv, EmptyWhenIdle, NoLostWakeup
  <2> QED
    BY <2>1, <2>2
<1>6. ASSUME NEW p \in Proc,
             WriteLog(p) \/ WriteHead(p) \/ Install(p) \/ ClearHead(p)
      PROVE  WaitInv'
  <2>1. p \in Committers
    BY <1>6 DEF WriteLog, WriteHead, Install, ClearHead, Committers
  <2>2. committing' = committing /\ committing
    BY <1>6, <2>1, <1>0 DEF WriteLog, WriteHead, Install, ClearHead, ControlInv
  <2> QED
    BY <2>2 DEF WaitInv, EmptyWhenIdle, NoLostWakeup
<1>7. ASSUME NEW p \in Proc, Finish(p) PROVE WaitInv'
  <2>1. lh' = <<>>
    BY <1>7, <1>0 DEF Finish, HeaderInv, InPhase
  <2>2. ~Asleep'
    BY <1>7, <1>0 DEF Finish, Wakeup, TypeOK
  <2> QED
    BY <2>1, <2>2 DEF WaitInv, EmptyWhenIdle, NoLostWakeup
<1>8. CASE UNCHANGED <<pc, lh, outstanding, committing, boot>>
  BY <1>8 DEF WaitInv, EmptyWhenIdle, NoLostWakeup, NoRoom, Ops
<1>9. CASE Crash
  BY <1>9 DEF Crash, WaitInv, EmptyWhenIdle, NoLostWakeup
<1> QED
  BY <1>1, <1>2, <1>3, <1>4, <1>5, <1>6, <1>7, <1>8, <1>9
     DEF Next, Recover, Commit, Modify, Load, Evict

(* A process asleep in begin_op sleeps for a reason that still holds and    *)
(* has an end_op ahead that wakes it.                                       *)
THEOREM SleepersHaveAWaker == ASSUME Sized PROVE Spec => []NoLostWakeup
<1>1. Init => WaitInv
  BY DEF Init, PowerOn, WaitInv, EmptyWhenIdle, NoLostWakeup
<1>2. IInv /\ IInv' /\ WaitInv /\ [Next]_vars => WaitInv'
  <2>1. CASE Next
    BY <2>1, WaitNext
  <2>2. CASE UNCHANGED vars
    BY <2>2 DEF vars, loghd, procs, WaitInv, EmptyWhenIdle, NoLostWakeup, NoRoom, Ops
  <2> QED
    BY <2>1, <2>2
<1>3. WaitInv => NoLostWakeup
  BY DEF WaitInv
<1> QED
  BY <1>1, <1>2, <1>3, Invariance, PTL DEF Spec

--------------------------------------------------------------------------------
(* The log implements the atomic disk: what recovery would produce changes   *)
(* in one step of the commit and in no other, and every step of log.c is a   *)
(* step of AtomicDisk or invisible in it.                                    *)

(* Recovered, block by block.                                               *)

LEMMA RecoveredBlocks ==
  ASSUME IInv
  PROVE  /\ \A b \in Block : b \notin Range(head) => Recovered[b] = home[b]
         /\ \A i \in DOMAIN head : Recovered[head[i]] = logd[i]
         /\ head = <<>> => Recovered = home
<1>1. \A b \in Block : b \notin Range(head) => Recovered[b] = home[b]
  BY DEF Recovered
<1>2. ASSUME NEW i \in DOMAIN head PROVE Recovered[head[i]] = logd[i]
  <2>1. head[i] \in Block /\ head[i] \in Range(head)
    BY DEF IInv, TypeOK, Range
  <2>2. \A j \in DOMAIN head : head[j] = head[i] => j = i
    BY DEF IInv, HeaderInv
  <2>3. (CHOOSE j \in DOMAIN head : head[j] = head[i]) = i
    BY <2>2
  <2> QED
    BY <2>1, <2>3 DEF Recovered
<1>3. ASSUME head = <<>> PROVE Recovered = home
  <2>1. Recovered = [b \in Block |-> home[b]]
    BY <1>3 DEF Recovered, Range
  <2> QED
    BY <2>1 DEF IInv, TypeOK
<1> QED
  BY <1>1, <1>2, <1>3

LEMMA RecoveredSame ==
  ASSUME UNCHANGED <<home, logd, head>>
  PROVE  Recovered' = Recovered
  BY DEF Recovered, Range

(* The disk is written at one place and the header covers it.               *)
LEMMA RecoveredCovered ==
  ASSUME IInv, IInv', UNCHANGED <<logd, head>>, NEW a \in Range(head),
         \A b \in Block : b # a => home'[b] = home[b]
  PROVE  Recovered' = Recovered
<1>1. \A b \in Block : Recovered'[b] = Recovered[b]
  <2> SUFFICES ASSUME NEW b \in Block PROVE Recovered'[b] = Recovered[b]
    OBVIOUS
  <2> QED
    BY DEF Recovered, Range
<1> QED
  BY <1>1 DEF Recovered

(* The header goes, after all the blocks it names are at home.              *)
LEMMA RecoveredErased ==
  ASSUME IInv, IInv', UNCHANGED <<home, logd>>, head' = <<>>, lh = head,
         \A i \in DOMAIN lh : home[lh[i]] = logd[i]
  PROVE  Recovered' = Recovered
<1>1. Recovered' = home
  <2>1. Recovered' = [b \in Block |-> home[b]]
    BY DEF Recovered, Range
  <2> QED
    BY <2>1 DEF IInv, TypeOK
<1>2. \A b \in Block : Recovered[b] = home[b]
  BY RecoveredBlocks DEF Range
<1> QED
  BY <1>1, <1>2 DEF Recovered, IInv, TypeOK

(* The one step that is not invisible.                                      *)
LEMMA WriteHeadCommits ==
  ASSUME IInv, IInv', NEW p \in Proc, WriteHead(p)
  PROVE  /\ head = <<>>
         /\ Ops = {} /\ outstanding = 0
         /\ Recovered' = Current /\ Current' = Current
         /\ head' = <<>> => Recovered' = Recovered
<1> USE DEF disk, bufs, loghd, procs
<1>1. /\ boot = "up" /\ InPhase("write_log") /\ ~InPhase("install")
      /\ committing /\ Ops = {}
  BY Phases DEF WriteHead, Running, InPhase, IInv, ControlInv, Committers
<1>2. head = <<>>
  BY <1>1 DEF IInv, HeaderInv
<1>3. outstanding = 0
  BY <1>1, FS_EmptySet DEF IInv, ControlInv
<1>4. \A b \in Block : cache[b] \in {Nothing, home[b]} \/ b \in Range(lh)
  <2>1. \A p_1 \in Proc : held[p_1] = Nothing
    BY <1>1 DEF IInv, ControlInv, Ops
  <2>2. Pending = Range(lh)
    BY <1>1 DEF Pending
  <2>3. \A b \in Block : b \notin {held[q] : q \in Proc}
    BY <2>1, ConstAssumption
  <2> QED
    BY <1>1, <2>2, <2>3 DEF IInv, CacheInv
<1>5. /\ head' = lh /\ UNCHANGED <<home, logd, cache, lh, boot>>
      /\ \A i \in DOMAIN lh : i <= tail
  BY DEF WriteHead, IInv, TypeOK
<1>6. \A i \in DOMAIN lh : logd[i] = View(lh[i])
  BY <1>1, <1>5 DEF IInv, HeaderInv
<1>7. \A b \in Block : Recovered'[b] = View(b)
  <2> SUFFICES ASSUME NEW b \in Block PROVE Recovered'[b] = View(b)
    OBVIOUS
  <2>1. CASE b \in Range(lh)
    <3>1. PICK i \in DOMAIN lh : lh[i] = b
      BY <2>1 DEF Range
    <3>2. (CHOOSE j \in DOMAIN lh : lh[j] = b) = i
      BY <3>1 DEF IInv, HeaderInv
    <3>3. Recovered'[b] = logd[i]
      BY <1>5, <2>1, <3>2 DEF Recovered, Range
    <3> QED
      BY <1>6, <3>1, <3>3
  <2>2. CASE b \notin Range(lh)
    <3>1. Recovered'[b] = home[b]
      BY <1>5, <2>2 DEF Recovered, Range
    <3> QED
      BY <1>4, <2>2, <3>1 DEF View
  <2> QED
    BY <2>1, <2>2
<1>8. Recovered' = Current
  BY <1>1, <1>7 DEF Recovered, Current
<1>9. Current' = Current
  BY <1>1, <1>5 DEF Current, View
<1>10. ASSUME head' = <<>> PROVE Recovered' = Recovered
  BY <1>2, <1>5, <1>10, RecoveredSame
<1> QED
  BY <1>1, <1>2, <1>3, <1>8, <1>9, <1>10

--------------------------------------------------------------------------------
(* Every other step leaves Recovered alone.                                 *)

LEMMA EmptyHeader ==
  ASSUME IInv, IInv', head = <<>>, UNCHANGED <<head, home>>
  PROVE  Recovered' = Recovered
<1>1. Recovered' = [b \in Block |-> home'[b]] /\ Recovered = [b \in Block |-> home[b]]
  BY DEF Recovered, Range
<1> QED
  BY <1>1

LEMMA CrashKeeps ==
  ASSUME IInv, IInv', Crash
  PROVE  Recovered' = Recovered
<1>1. CASE UNCHANGED <<home, logd>>
  BY <1>1, RecoveredSame DEF Crash
<1>2. CASE LogWriteInFlight /\ UNCHANGED home
  <2>1. InPhase("write_log")
    BY <1>2 DEF LogWriteInFlight, InPhase
  <2>2. head = <<>>
    BY <2>1, Phases DEF IInv, HeaderInv, TypeOK
  <2> QED
    BY <1>2, <2>2, EmptyHeader DEF Crash
<1>3. CASE /\ HomeWriteInFlight
           /\ home' = [home EXCEPT ![lh[tail + 1]] = Torn]
           /\ UNCHANGED logd
  <2>1. boot = "install" \/ InPhase("install")
    BY <1>3 DEF HomeWriteInFlight, InPhase
  <2>2. head = lh
    BY <2>1, Phases DEF IInv, HeaderInv, TypeOK
  <2>3. tail + 1 \in DOMAIN head
    BY <1>3, <2>2 DEF HomeWriteInFlight, IInv, TypeOK
  <2>4. lh[tail + 1] \in Range(head)
    BY <2>2, <2>3 DEF Range
  <2>5. \A b \in Block : b # lh[tail + 1] => home'[b] = home[b]
    BY <1>3 DEF IInv, TypeOK
  <2> QED
    BY <1>3, <2>4, <2>5, RecoveredCovered DEF Crash
<1> QED
  BY <1>1, <1>2, <1>3 DEF Crash

LEMMA RecoverBlockKeeps ==
  ASSUME IInv, IInv', RecoverBlock
  PROVE  Recovered' = Recovered
<1>1. lh = head /\ tail + 1 \in DOMAIN head
  BY DEF RecoverBlock, IInv, HeaderInv, TypeOK
<1>2. lh[tail + 1] \in Range(head)
  BY <1>1 DEF Range
<1>3. \A b \in Block : b # lh[tail + 1] => home'[b] = home[b]
  BY DEF RecoverBlock, IInv, TypeOK
<1> QED
  BY <1>2, <1>3, RecoveredCovered DEF RecoverBlock

LEMMA RecoverClearKeeps ==
  ASSUME IInv, IInv', RecoverClear
  PROVE  Recovered' = Recovered
<1>1. \A i \in DOMAIN lh : i <= tail
  BY DEF RecoverClear, IInv, TypeOK
<1>2. lh = head /\ \A i \in DOMAIN lh : home[lh[i]] = logd[i]
  BY <1>1 DEF RecoverClear, IInv, HeaderInv
<1> QED
  BY <1>2, RecoveredErased DEF RecoverClear

LEMMA InstallKeeps ==
  ASSUME IInv, IInv', NEW p \in Proc, Install(p)
  PROVE  Recovered' = Recovered /\ Current' = Current
<1>1. boot = "up" /\ InPhase("install")
  BY DEF Install, InPhase, Running
<1>2. head = lh /\ tail + 1 \in DOMAIN head
  BY <1>1 DEF Install, IInv, HeaderInv, TypeOK
<1>3. lh[tail + 1] \in Range(head) /\ lh[tail + 1] \in Block
  BY <1>2 DEF Range, IInv, TypeOK
<1>4. \A b \in Block : b # lh[tail + 1] => home'[b] = home[b]
  BY DEF Install, IInv, TypeOK
<1>5. Recovered' = Recovered
  BY <1>3, <1>4, RecoveredCovered DEF Install
<1>6. View(lh[tail + 1]) = logd[tail + 1] /\ logd[tail + 1] # Nothing
  <2>1. View(lh[tail + 1]) = logd[tail + 1]
    BY <1>1, <1>2 DEF IInv, HeaderInv
  <2>2. tail + 1 \in 1..LOGSIZE
    BY <1>2, ConstAssumption DEF IInv, TypeOK, SpaceInv
  <2>3. logd[tail + 1] \in Data \cup {Torn}
    BY <2>2 DEF IInv, TypeOK
  <2> QED
    BY <2>1, <2>3, ConstAssumption
<1>7. \A b \in Block : View(b)' = View(b)
  BY <1>3, <1>6 DEF Install, IInv, TypeOK, View
<1> QED
  BY <1>1, <1>5, <1>7 DEF Install, Current

LEMMA ClearHeadKeeps ==
  ASSUME IInv, IInv', NEW p \in Proc, ClearHead(p)
  PROVE  Recovered' = Recovered
<1>1. \A i \in DOMAIN lh : i <= tail
  BY DEF ClearHead, IInv, TypeOK
<1>2. InPhase("install") /\ boot = "up"
  BY DEF ClearHead, InPhase, Running
<1>3. lh = head /\ \A i \in DOMAIN lh : home[lh[i]] = logd[i]
  BY <1>1, <1>2 DEF IInv, HeaderInv
<1> QED
  BY <1>3, RecoveredErased DEF ClearHead

LEMMA WriteLogKeeps ==
  ASSUME IInv, IInv', NEW p \in Proc, WriteLog(p)
  PROVE  Recovered' = Recovered /\ Current' = Current
<1>1. boot = "up" /\ InPhase("write_log")
  BY DEF WriteLog, InPhase, Running
<1>2. head = <<>>
  BY <1>1, Phases DEF IInv, HeaderInv
<1>3. Recovered' = Recovered
  BY <1>2, EmptyHeader DEF WriteLog
<1>4. lh[tail + 1] \in Block
  BY DEF WriteLog, IInv, TypeOK
<1>5. \A b \in Block : View(b)' = View(b)
  BY <1>4 DEF WriteLog, IInv, TypeOK, View
<1> QED
  BY <1>1, <1>3, <1>5 DEF WriteLog, Current

(* The header write that commits is the only step that changes what a       *)
(* power failure would leave.                                               *)
LEMMA OnlyWriteHead ==
  ASSUME IInv, IInv', Next, Recovered' # Recovered
  PROVE  \E p \in Proc : WriteHead(p)
<1> USE DEF disk, bufs, loghd, procs
<1>1. ~ReadHead
  BY RecoveredSame DEF ReadHead
<1>2. ~RecoverBlock /\ ~RecoverClear
  BY RecoverBlockKeeps, RecoverClearKeeps
<1>3. \A p \in Proc : ~BeginOp(p) /\ ~LogWrite(p) /\ ~EndOp(p) /\ ~Finish(p)
  BY RecoveredSame DEF BeginOp, LogWrite, EndOp, Finish
<1>4. \A p \in Proc : ~WriteLog(p) /\ ~Install(p) /\ ~ClearHead(p)
  BY WriteLogKeeps, InstallKeeps, ClearHeadKeeps
<1>5. \A p \in Proc, b \in Block, d \in Data : ~Modify(p, b, d)
  BY RecoveredSame DEF Modify
<1>6. \A b \in Block : ~Load(b) /\ ~Evict(b)
  BY RecoveredSame DEF Load, Evict
<1>7. ~Crash
  BY CrashKeeps
<1> QED
  BY <1>1, <1>2, <1>3, <1>4, <1>5, <1>6, <1>7 DEF Next, Recover, Commit

(* What a power failure would leave changes only when write_head writes a   *)
(* header over an empty one, with no operation in progress.                 *)
THEOREM SingleCommitPoint == ASSUME Sized PROVE Spec => CommitPoint
<1>1. ASSUME IInv, IInv', [Next]_vars, Recovered' # Recovered
      PROVE  head = <<>> /\ head' # <<>> /\ outstanding = 0
  <2>1. CASE Next
    <3>1. PICK p \in Proc : WriteHead(p)
      BY <1>1, <2>1, OnlyWriteHead
    <3> QED
      BY <1>1, <3>1, WriteHeadCommits
  <2>2. CASE UNCHANGED vars
    BY <1>1, <2>2, RecoveredSame DEF vars, disk
  <2> QED
    BY <1>1, <2>1, <2>2
<1>2. IInv /\ IInv' /\ [Next]_vars =>
        [Recovered' # Recovered =>
           head = <<>> /\ head' # <<>> /\ outstanding = 0]_vars
  BY <1>1
<1> QED
  BY <1>2, Invariance, PTL DEF Spec, CommitPoint

--------------------------------------------------------------------------------
(* Step simulation.                                                         *)

(* A step that shows neither in the contents nor in the operations.         *)
LEMMA Invisible ==
  ASSUME Recovered' = Recovered, Current' = Current, Ops' = Ops,
         committing' = committing
  PROVE  UNCHANGED Atomic!vars
  BY DEF Atomic!vars

LEMMA InitRefines == Init => Atomic!Init
<1> SUFFICES ASSUME Init PROVE Atomic!Init
  OBVIOUS
<1>1. IInv
  BY InvInit
<1>2. Recovered = home
  BY <1>1, RecoveredBlocks DEF Init
<1>3. Current = Recovered /\ Ops = {}
  BY DEF Init, PowerOn, Current, Ops
<1> QED
  BY <1>2, <1>3 DEF Init, PowerOn, Atomic!Init

LEMMA StepRefines ==
  ASSUME IInv, IInv', Next
  PROVE  [Atomic!Next]_Atomic!vars
<1> USE DEF disk, bufs, loghd, procs
<1>0. TypeOK /\ ControlInv
  BY DEF IInv
<1>1. CASE ReadHead
  <2>1. Recovered' = Recovered /\ Current = Recovered /\ Current' = Recovered'
    BY <1>1, RecoveredSame DEF ReadHead, Current
  <2> QED
    BY <1>1, <2>1, Invisible DEF ReadHead, Ops
<1>2. CASE RecoverBlock
  <2>1. Recovered' = Recovered /\ Current = Recovered /\ Current' = Recovered'
    BY <1>2, RecoverBlockKeeps DEF RecoverBlock, Current
  <2> QED
    BY <1>2, <2>1, Invisible DEF RecoverBlock, Ops
<1>3. CASE RecoverClear
  <2>1. Recovered' = Recovered
    BY <1>3, RecoverClearKeeps
  <2>2. Recovered' = home
    <3>1. Recovered' = [b \in Block |-> home[b]]
      BY <1>3 DEF RecoverClear, Recovered, Range
    <3> QED
      BY <3>1, <1>0 DEF TypeOK
  <2>3. \A b \in Block : View(b)' = home[b]
    <3> SUFFICES ASSUME NEW b \in Block PROVE View(b)' = home[b]
      OBVIOUS
    <3>1. UNCHANGED <<cache, home>>
      BY <1>3 DEF RecoverClear
    <3>2. pins[b] = 0 /\ b \notin {held[p] : p \in Proc}
      <4>1. pins[b] = 0
        BY <1>3, <1>0 DEF RecoverClear, ControlInv
      <4>2. \A p \in Proc : held[p] = Nothing
        BY <1>3, <1>0 DEF RecoverClear, ControlInv
      <4> QED
        BY <4>1, <4>2, ConstAssumption
    <3>3. cache[b] \in {Nothing, home[b]}
      BY <3>2 DEF IInv, CacheInv
    <3> QED
      BY <3>1, <3>3 DEF View
  <2>4. Current' = home
    <3>1. Current' = [b \in Block |-> home[b]]
      BY <1>3, <2>3 DEF RecoverClear, Current
    <3> QED
      BY <3>1, <1>0 DEF TypeOK
  <2>5. Current = Recovered
    BY <1>3 DEF RecoverClear, Current
  <2> QED
    BY <1>3, <2>1, <2>2, <2>4, <2>5, Invisible DEF RecoverClear, Ops
<1>4. ASSUME NEW p \in Proc, BeginOp(p) PROVE [Atomic!Next]_Atomic!vars
  <2>1. Recovered' = Recovered /\ Current' = Current /\ committing' = committing
    BY <1>4, RecoveredSame DEF BeginOp, Current, View
  <2>2. CASE committing \/ NoRoom
    <3>1. pc' = [pc EXCEPT ![p] = "sleep"]
      BY <1>4, <2>2 DEF BeginOp
    <3>2. Ops' = Ops
      BY <1>4, <3>1, <1>0 DEF BeginOp, Ops, TypeOK
    <3> QED
      BY <2>1, <3>2, Invisible
  <2>3. CASE ~(committing \/ NoRoom)
    <3>1. pc' = [pc EXCEPT ![p] = "op"]
      BY <1>4, <2>3 DEF BeginOp
    <3>2. Ops' = Ops \cup {p} /\ p \notin Ops
      BY <1>4, <3>1, <1>0 DEF BeginOp, Ops, TypeOK
    <3>3. Atomic!Begin(p)
      BY <2>1, <2>3, <3>2 DEF Atomic!Begin
    <3> QED
      BY <3>3 DEF Atomic!Next
  <2> QED
    BY <2>2, <2>3
<1>5. ASSUME NEW p \in Proc, LogWrite(p) PROVE [Atomic!Next]_Atomic!vars
  <2>1. Recovered' = Recovered /\ Current' = Current
    BY <1>5, RecoveredSame DEF LogWrite, Current, View
  <2> QED
    BY <1>5, <2>1, Invisible DEF LogWrite, Ops
<1>6. ASSUME NEW p \in Proc, EndOp(p) PROVE [Atomic!Next]_Atomic!vars
  <2>1. Recovered' = Recovered /\ Current' = Current
    BY <1>6, RecoveredSame DEF EndOp, Current, View
  <2>2. p \in Ops /\ ~committing
    BY <1>6, <1>0 DEF EndOp, Ops, ControlInv
  <2>3. Ops' = Ops \ {p}
    BY <1>6, <1>0 DEF EndOp, Ops, Wakeup, TypeOK
  <2>4. committing' = (Ops = {p})
    <3>1. outstanding = 1 <=> Ops = {p}
      BY <1>6, <1>0, OpIsCounted DEF EndOp
    <3>2. CASE outstanding = 1
      BY <1>6, <3>1, <3>2 DEF EndOp
    <3>3. CASE outstanding # 1
      <4>1. committing' = committing
        BY <1>6, <3>3 DEF EndOp
      <4>2. committing = FALSE
        BY <2>2, <1>0 DEF TypeOK
      <4> QED
        BY <3>1, <3>3, <4>1, <4>2
    <3> QED
      BY <3>2, <3>3
  <2>5. Atomic!End(p)
    BY <2>1, <2>2, <2>3, <2>4 DEF Atomic!End
  <2> QED
    BY <2>5 DEF Atomic!Next
<1>7. ASSUME NEW p \in Proc, WriteLog(p) \/ Install(p) PROVE [Atomic!Next]_Atomic!vars
  <2>1. Recovered' = Recovered /\ Current' = Current
    BY <1>7, WriteLogKeeps, InstallKeeps
  <2> QED
    BY <1>7, <2>1, Invisible DEF WriteLog, Install, Ops
<1>8. ASSUME NEW p \in Proc, WriteHead(p) PROVE [Atomic!Next]_Atomic!vars
  <2>1. Recovered' = Current /\ Current' = Current /\ Ops = {}
    BY <1>8, WriteHeadCommits
  <2>2. committing /\ committing' = committing
    BY <1>8, <1>0 DEF WriteHead, ControlInv, Committers
  <2>3. Ops' = Ops
    BY <1>8, <1>0 DEF WriteHead, Ops, TypeOK
  <2>4. Atomic!Commit
    BY <2>1, <2>2, <2>3 DEF Atomic!Commit
  <2> QED
    BY <2>4 DEF Atomic!Next
<1>9. ASSUME NEW p \in Proc, ClearHead(p) PROVE [Atomic!Next]_Atomic!vars
  <2>1. Recovered' = Recovered
    BY <1>9, ClearHeadKeeps
  <2>2. Current' = Current /\ committing' = committing
    BY <1>9 DEF ClearHead, Running, Current, View
  <2>3. Ops' = Ops
    BY <1>9, <1>0 DEF ClearHead, Ops, TypeOK
  <2> QED
    BY <2>1, <2>2, <2>3, Invisible
<1>10. ASSUME NEW p \in Proc, Finish(p) PROVE [Atomic!Next]_Atomic!vars
  <2>1. Recovered' = Recovered /\ Current' = Current
    BY <1>10, RecoveredSame DEF Finish, Current, View
  <2>2. /\ committing /\ ~committing' /\ Ops = {} /\ Ops' = Ops
        /\ boot = "up" /\ InPhase("finish") /\ ~InPhase("install")
    BY <1>10, <1>0, Phases
       DEF Finish, ControlInv, Committers, Ops, Wakeup, TypeOK, Running, InPhase
  <2>3. head = <<>> /\ lh = <<>>
    BY <2>2 DEF IInv, HeaderInv
  <2>4. \A b \in Block : View(b) = home[b]
    <3>1. Pending = {}
      BY <2>2, <2>3 DEF Pending, Range
    <3>2. \A b \in Block : b \notin {held[q] : q \in Proc}
      <4>1. \A q \in Proc : held[q] = Nothing
        BY <2>2, <1>0 DEF ControlInv, Ops
      <4> QED
        BY <4>1, ConstAssumption
    <3> QED
      BY <2>2, <3>1, <3>2 DEF IInv, CacheInv, View
  <2>5. Current = home
    <3>1. Current = [b \in Block |-> home[b]]
      BY <2>2, <2>4 DEF Current
    <3> QED
      BY <3>1, <1>0 DEF TypeOK
  <2>6. Recovered = home
    BY <2>3, RecoveredBlocks
  <2>7. Atomic!Return
    BY <2>1, <2>2, <2>5, <2>6 DEF Atomic!Return
  <2> QED
    BY <2>7 DEF Atomic!Next
<1>11. ASSUME NEW p \in Proc, NEW b \in Block, NEW d \in Data, Modify(p, b, d)
       PROVE  [Atomic!Next]_Atomic!vars
  <2>1. Recovered' = Recovered
    BY <1>11, RecoveredSame DEF Modify
  <2>2. boot = "up" /\ boot' = "up" /\ d # Nothing
    BY <1>11, ConstAssumption DEF Modify, Running
  <2>3. Current' = [Current EXCEPT ![b] = d]
    BY <1>11, <1>0, <2>2 DEF Modify, Current, View, TypeOK
  <2>4. p \in Ops /\ Ops' = Ops /\ committing' = committing
    BY <1>11 DEF Modify, Ops
  <2>5. Atomic!Write(p, b, d)
    BY <2>1, <2>3, <2>4 DEF Atomic!Write
  <2> QED
    BY <2>5 DEF Atomic!Next
<1>12. ASSUME NEW b \in Block, Load(b) \/ Evict(b) PROVE [Atomic!Next]_Atomic!vars
  <2>1. Recovered' = Recovered
    BY <1>12, RecoveredSame DEF Load, Evict
  <2>2. \A a \in Block : View(a)' = View(a)
    <3>1. CASE Load(b)
      BY <3>1, <1>0 DEF Load, View, TypeOK
    <3>2. CASE Evict(b)
      <4>1. pins[b] = 0 /\ b \notin {held[p] : p \in Proc} /\ cache[b] # Nothing
        BY <3>2 DEF Evict
      <4>2. cache[b] = home[b]
        BY <4>1 DEF IInv, CacheInv
      <4>3. cache' = [cache EXCEPT ![b] = Nothing] /\ UNCHANGED home
        BY <3>2 DEF Evict
      <4> QED
        BY <4>2, <4>3, <1>0 DEF View, TypeOK
    <3> QED
      BY <1>12, <3>1, <3>2
  <2>3. Current' = Current
    BY <1>12, <2>2 DEF Load, Evict, Running, Current
  <2> QED
    BY <1>12, <2>1, <2>3, Invisible DEF Load, Evict, Ops
<1>13. CASE Crash
  <2>1. Recovered' = Recovered
    BY <1>13, CrashKeeps
  <2>2. Current' = Recovered'
    BY <1>13 DEF Crash, Current
  <2>3. Ops' = {} /\ ~committing' /\ committing' = FALSE
    BY <1>13 DEF Crash, Ops
  <2>4. Atomic!PowerFailure
    BY <2>1, <2>2, <2>3 DEF Atomic!PowerFailure
  <2> QED
    BY <2>4 DEF Atomic!Next
<1> QED
  BY <1>1, <1>2, <1>3, <1>4, <1>5, <1>6, <1>7, <1>8, <1>9, <1>10, <1>11, <1>12,
     <1>13 DEF Next, Recover, Commit

(* The log implements the atomic disk: a power failure at any point loses   *)
(* exactly the operations whose group had not committed.                    *)
THEOREM LogImplementsAtomicDisk == ASSUME Sized PROVE Spec => RefinesAtomicDisk
<1>1. Init => Atomic!Init
  BY InitRefines
<1>2. IInv /\ IInv' /\ [Next]_vars => [Atomic!Next]_Atomic!vars
  <2>1. CASE UNCHANGED vars
    <3>1. Recovered' = Recovered /\ Current' = Current /\ Ops' = Ops
      BY <2>1, RecoveredSame DEF vars, disk, bufs, procs, Current, View, Ops
    <3> QED
      BY <2>1, <3>1, Invisible DEF vars, loghd
  <2> QED
    BY <2>1, StepRefines
<1> QED
  BY <1>1, <1>2, Invariance, PTL DEF Spec, RefinesAtomicDisk, Atomic!Spec
================================================================================
