------------------------------ MODULE SyncptProofs ------------------------------
(***************************************************************************)
(* Proofs about Syncpt for every modulus, every number of threads and jobs *)
(* and every number of increments a job makes.                             *)
(***************************************************************************)
EXTENDS Syncpt, TLAPS

(***************************************************************************)
(* What the racing readers rely on.  Distances are measured round the      *)
(* counter's circle from the value a thread holds in old: the shadow and   *)
(* the value it read lie between old and the register, and nobody is Half  *)
(* increments behind.                                                      *)
(***************************************************************************)
OffIsIdle == power = "off" => HostIdle

Near == power = "on" => Window(hw, 0)

HeldValues(t) ==
    /\ pc[t] \in UpdatePcs => Sub(min_val, old[t]) <= Sub(hw, old[t])
    /\ pc[t] = "cmpxchg" => Sub(live[t], old[t]) <= Sub(hw, old[t])
    /\ pc[t] = "return" => Sub(live[t], old[t]) <= Sub(min_val, old[t])

ReadersInv ==
    /\ TypeOK
    /\ OffIsIdle
    /\ Near
    /\ \A t \in Threads : HeldValues(t)

(***************************************************************************)
(* What a host managed point adds: the register lies between every held    *)
(* value and the promised one, and as long as the shadow is short of the   *)
(* promise, the job that promised it is in flight.                         *)
(***************************************************************************)
Promise ==
    /\ Window(max_val, 0)
    /\ power = "on" => Sub(hw, min_val) <= Sub(max_val, min_val)
    /\ \A t \in Threads :
          pc[t] \in UpdatePcs => Sub(hw, old[t]) <= Sub(max_val, old[t])

LastJob == min_eq_max \/ \E j \in inflight : fence[j] = max_val

(* every job in flight is ahead of the shadow, or a thread that has read   *)
(* its completion is about to retire it                                    *)
Retiring(j) ==
    \E t \in Threads : /\ pc[t] = "return"
                       /\ Sub(fence[j], old[t]) <= Sub(live[t], old[t])

JobsAhead ==
    \A j \in inflight :
        \/ fence[j] # min_val /\ Sub(fence[j], min_val) <= Sub(max_val, min_val)
        \/ Retiring(j)

HostInv ==
    /\ ReadersInv
    /\ Promise
    /\ LastJob
    /\ JobsAhead
    /\ \A t \in Threads : pc[t] \notin IncrPcs

-----------------------------------------------------------------------------
(* Arithmetic on the circle *)

(* Distances between words are words. *)
LEMMA SubWord == \A a, b \in Word : Sub(a, b) \in Word
BY HalfAssumption DEF Sub, Word, M

(* Sums of a word and a distance below M are words. *)
LEMMA AddWord == \A a \in Word, n \in 0 .. M - 1 : Add(a, n) \in Word
BY HalfAssumption DEF Add, Word, M

(* Two words at distance zero are the same word. *)
LEMMA SubZero == \A a, b \in Word : Sub(a, b) = 0 <=> a = b
BY HalfAssumption DEF Sub, Word, M

(* Moving the far end n further, without lapping, adds n to the distance. *)
LEMMA SubAdd ==
    ASSUME NEW a \in Word, NEW b \in Word, NEW n \in Nat, Sub(a, b) + n < M
    PROVE  Sub(Add(a, n), b) = Sub(a, b) + n
BY HalfAssumption DEF Sub, Add, Word, M

(* Distances add up along the circle: if b comes no later than c when      *)
(* starting from a, then going from b to c is the rest of the way.         *)
LEMMA SubChain ==
    ASSUME NEW a \in Word, NEW b \in Word, NEW c \in Word,
           Sub(b, a) <= Sub(c, a)
    PROVE  Sub(c, b) = Sub(c, a) - Sub(b, a)
BY HalfAssumption DEF Sub, Word, M

(* Conversely, two distances that do not lap add up. *)
LEMMA SubJoin ==
    ASSUME NEW a \in Word, NEW b \in Word, NEW c \in Word,
           Sub(b, a) + Sub(c, b) < M
    PROVE  Sub(c, a) = Sub(b, a) + Sub(c, b)
BY HalfAssumption DEF Sub, Word, M

-----------------------------------------------------------------------------
(* Every step keeps the types. *)
LEMMA TypeStep == TypeOK /\ [Next]_vars => TypeOK'
<1> SUFFICES ASSUME TypeOK, [Next]_vars PROVE TypeOK'
  OBVIOUS
<1>0. 1 \in 0 .. M - 1 /\ 0 \in Word
  BY HalfAssumption DEF M, Word
<1>1. ASSUME NEW t \in Threads, ReadMin(t) PROVE TypeOK'
  BY <1>1 DEF ReadMin, TypeOK, UpdatePcs
<1>2. ASSUME NEW t \in Threads, ReadLive(t) PROVE TypeOK'
  BY <1>2 DEF ReadLive, TypeOK, UpdatePcs
<1>3. ASSUME NEW t \in Threads, CmpxchgHit(t) PROVE TypeOK'
  BY <1>3 DEF CmpxchgHit, TypeOK, UpdatePcs
<1>4. ASSUME NEW t \in Threads, CmpxchgMiss(t) PROVE TypeOK'
  BY <1>4 DEF CmpxchgMiss, TypeOK, UpdatePcs
<1>5. ASSUME NEW t \in Threads, Return(t) PROVE TypeOK'
  BY <1>5, <1>0 DEF Return, TypeOK
<1>6. ASSUME NEW t \in Threads, IncrMaxStep(t) PROVE TypeOK'
  BY <1>6, <1>0, AddWord DEF IncrMaxStep, TypeOK, IncrPcs
<1>7. ASSUME NEW t \in Threads, IncrCheck(t) PROVE TypeOK'
  BY <1>7 DEF IncrCheck, TypeOK, IncrPcs
<1>8. ASSUME NEW t \in Threads, IncrWrite(t) PROVE TypeOK'
  BY <1>8, <1>0, AddWord DEF IncrWrite, TypeOK
<1>9. ASSUME NEW j \in Jobs, NEW n \in 1 .. MaxJobIncrs, Submit(j, n)
      PROVE TypeOK'
  <2>1. Sub(max_val, min_val) \in Word
    BY SubWord DEF TypeOK
  <2>2. n \in 0 .. M - 1
    BY <2>1, <1>9, SyncptAssumption, HalfAssumption DEF Submit, Window, M, Word
  <2>3. Add(max_val, n) \in Word
    BY <2>2, AddWord DEF TypeOK
  <2> QED BY <2>3, <1>9 DEF Submit, TypeOK
<1>10. CASE EngineIncr
  BY <1>10, <1>0, AddWord DEF EngineIncr, TypeOK
<1>11. CASE PowerOff
  BY <1>11 DEF PowerOff, TypeOK
<1>12. CASE PowerOn
  BY <1>12 DEF PowerOn, TypeOK
<1>13. CASE UNCHANGED vars
  BY <1>13 DEF vars, TypeOK
<1> QED
  BY <1>1, <1>2, <1>3, <1>4, <1>5, <1>6, <1>7, <1>8, <1>9, <1>10, <1>11,
     <1>12, <1>13 DEF Next, Step

(* The type invariant: registers, shadows and locals stay u32 words, and   *)
(* every thread stays within the code it may execute.                      *)
THEOREM TypeCorrect == Spec => []TypeOK
<1>1. Init => TypeOK
  BY HalfAssumption DEF Init, TypeOK, Word, M
<1> QED BY <1>1, TypeStep, PTL DEF Spec


-----------------------------------------------------------------------------
(* The racing readers *)

(* Initially no thread holds a value and all three counters are equal. *)
LEMMA ReadersInit == Init => ReadersInv
<1> SUFFICES ASSUME Init PROVE ReadersInv
  OBVIOUS
<1>1. TypeOK
  BY HalfAssumption DEF Init, TypeOK, Word, M
<1>2. OffIsIdle /\ \A t \in Threads : HeldValues(t)
  BY DEF Init, OffIsIdle, HostIdle, HeldValues, UpdatePcs
<1>3. Near
  BY HalfAssumption DEF Init, Near, Window, Sub, UpdatePcs, Word, M
<1> QED BY <1>1, <1>2, <1>3 DEF ReadersInv

(* A counter increment that stays within the window moves only the far end *)
(* of every distance.                                                      *)
LEMMA IncrKeepsReaders ==
    ASSUME ReadersInv, power = "on", Window(hw, 1), hw' = Add(hw, 1),
           UNCHANGED <<min_val, power, old, live>>, TypeOK',
           \A t \in Threads : pc'[t] \in UpdatePcs => pc'[t] = pc[t]
    PROVE  ReadersInv'
<1>0. 1 \in Nat /\ M \in Nat /\ Half < M
  BY HalfAssumption DEF M
<1>1. Sub(hw', min_val) = Sub(hw, min_val) + 1
  <2>1. hw \in Word /\ min_val \in Word /\ Sub(hw, min_val) + 1 < Half
    BY DEF ReadersInv, TypeOK, Window
  <2>2. Sub(hw, min_val) + 1 < M
    <3>1. Sub(hw, min_val) \in Word
      BY <2>1, SubWord
    <3>2. Sub(hw, min_val) \in Int
      BY <3>1 DEF Word
    <3> QED BY <3>2, <2>1, <1>0, HalfAssumption
  <2> QED BY <2>1, <2>2, SubAdd
<1>2. ASSUME NEW t \in Threads, pc[t] \in UpdatePcs
      PROVE  /\ Sub(hw', old[t]) = Sub(hw, old[t]) + 1
             /\ Sub(hw', old[t]) < Half
             /\ Sub(hw, old[t]) \in Word
  <2>1. hw \in Word /\ old[t] \in Word /\ Sub(hw, old[t]) + 1 < Half
    BY <1>2 DEF ReadersInv, TypeOK, Window
  <2>2. Sub(hw, old[t]) \in Word /\ Sub(hw, old[t]) + 1 < M
    <3>1. Sub(hw, old[t]) \in Word
      BY <2>1, SubWord
    <3>2. Sub(hw, old[t]) \in Int
      BY <3>1 DEF Word
    <3> QED BY <3>1, <3>2, <2>1, <1>0, HalfAssumption
  <2>3. Sub(Add(hw, 1), old[t]) = Sub(hw, old[t]) + 1
    BY <2>1, <2>2, SubAdd
  <2> QED BY <2>1, <2>2, <2>3
<1>3. Near'
  <2>1. Sub(hw', min_val) + 0 < Half
    BY <1>1, SubWord DEF Window, ReadersInv, TypeOK, Word
  <2>2. ASSUME NEW t \in Threads, pc'[t] \in UpdatePcs
        PROVE  Sub(hw', old[t]) + 0 < Half
    BY <2>2, <1>2, HalfAssumption DEF Word, M
  <2> QED BY <2>1, <2>2 DEF Near, Window
<1>4. ASSUME NEW t \in Threads PROVE HeldValues(t)'
  <2>1. CASE pc'[t] \in UpdatePcs
    <3>1. pc'[t] = pc[t] /\ HeldValues(t) /\ min_val \in Word
          /\ old[t] \in Word /\ live[t] \in Word
      BY <2>1 DEF ReadersInv, TypeOK
    <3>2. Sub(min_val, old[t]) \in Word /\ Sub(live[t], old[t]) \in Word
      BY <3>1, SubWord
    <3> QED BY <2>1, <3>1, <3>2, <1>2, HalfAssumption
            DEF HeldValues, UpdatePcs, Word, M
  <2>2. CASE pc'[t] \notin UpdatePcs
    BY <2>2 DEF HeldValues, UpdatePcs
  <2> QED BY <2>1, <2>2
<1>5. OffIsIdle'
  BY DEF OffIsIdle
<1> QED BY <1>3, <1>4, <1>5 DEF ReadersInv

(* Every step of the readers, the increments and the power transitions     *)
(* keeps the values that threads hold in order.                            *)
LEMMA ReadersNext == ReadersInv /\ [Next]_vars => ReadersInv'
<1> SUFFICES ASSUME ReadersInv, [Next]_vars PROVE ReadersInv'
  OBVIOUS
<1>0. TypeOK /\ TypeOK'
  BY TypeStep DEF ReadersInv
<1>a. 0 \in Word /\ Half \in Nat /\ M \in Nat /\ Half < M /\ 0 < Half
  BY HalfAssumption DEF M, Word
<1>1. ASSUME NEW t \in Threads, ReadMin(t) PROVE ReadersInv'
  <2>1. Near'
    BY <1>1, <1>0 DEF ReadMin, ReadersInv, Near, Window, UpdatePcs, TypeOK
  <2>2. ASSUME NEW u \in Threads PROVE HeldValues(u)'
    <3>1. Sub(min_val, min_val) = 0 /\ Sub(hw, min_val) \in Word
      BY <1>0, SubZero, SubWord DEF TypeOK
    <3>2. CASE u = t
      BY <3>1, <3>2, <1>1, <1>0 DEF ReadMin, HeldValues, TypeOK, Word, UpdatePcs
    <3>3. CASE u # t
      BY <3>3, <1>1, <1>0 DEF ReadMin, HeldValues, TypeOK, ReadersInv
    <3> QED BY <3>2, <3>3
  <2>3. OffIsIdle'
    BY <1>1 DEF ReadMin, OffIsIdle
  <2> QED BY <2>1, <2>2, <2>3, <1>0 DEF ReadersInv
<1>2. ASSUME NEW t \in Threads, ReadLive(t) PROVE ReadersInv'
  <2>1. Near'
    BY <1>2, <1>0 DEF ReadLive, ReadersInv, Near, Window, UpdatePcs, TypeOK
  <2>2. ASSUME NEW u \in Threads PROVE HeldValues(u)'
    <3>1. Sub(hw, old[t]) \in Word
      BY <1>0, SubWord DEF TypeOK
    <3>2. CASE u = t
      BY <3>1, <3>2, <1>2, <1>0
         DEF ReadLive, HeldValues, TypeOK, Word, UpdatePcs, ReadersInv
    <3>3. CASE u # t
      BY <3>3, <1>2, <1>0 DEF ReadLive, HeldValues, TypeOK, ReadersInv
    <3> QED BY <3>2, <3>3
  <2>3. OffIsIdle'
    BY <1>2, <1>0 DEF ReadLive, OffIsIdle, HostIdle, ReadersInv
  <2> QED BY <2>1, <2>2, <2>3, <1>0 DEF ReadersInv
<1>3. ASSUME NEW t \in Threads, CmpxchgHit(t) PROVE ReadersInv'
  <2>0. /\ min_val' = live[t] /\ old[t] = min_val /\ power = "on"
        /\ hw \in Word /\ min_val \in Word /\ live[t] \in Word
        /\ hw' = hw /\ old' = old /\ live' = live
    BY <1>3, <1>0 DEF CmpxchgHit, ReadersInv, OffIsIdle, HostIdle, TypeOK
  <2>1. Sub(live[t], min_val) <= Sub(hw, min_val) /\ Sub(hw, min_val) < Half
    BY <1>3, <2>0, SubWord
       DEF CmpxchgHit, ReadersInv, HeldValues, Near, Window, TypeOK, UpdatePcs,
           Word
  <2>2. Sub(hw, live[t]) = Sub(hw, min_val) - Sub(live[t], min_val)
    BY <2>0, <2>1, SubChain
  <2>3. Near'
    <3>0. Sub(hw, min_val) \in Word /\ Sub(live[t], min_val) \in Word
      BY <2>0, SubWord
    <3>1. Sub(hw, live[t]) + 0 < Half
      BY <3>0, <2>1, <2>2, <1>a DEF Word
    <3> QED BY <3>1, <2>0, <1>3, <1>0
            DEF CmpxchgHit, ReadersInv, Near, Window, UpdatePcs, TypeOK
  <2>4. ASSUME NEW u \in Threads, pc[u] \in UpdatePcs
        PROVE  /\ Sub(live[t], old[u]) <= Sub(hw, old[u])
               /\ Sub(min_val, old[u]) <= Sub(live[t], old[u])
    <3>1. /\ old[u] \in Word /\ Sub(min_val, old[u]) <= Sub(hw, old[u])
          /\ Sub(hw, old[u]) < Half
      BY <2>4, <2>0, SubWord DEF ReadersInv, HeldValues, Near, Window, TypeOK, Word
    <3>2. Sub(hw, min_val) = Sub(hw, old[u]) - Sub(min_val, old[u])
      BY <3>1, <2>0, SubChain
    <3>3. /\ Sub(min_val, old[u]) \in Word /\ Sub(hw, old[u]) \in Word
          /\ Sub(live[t], min_val) \in Word /\ Sub(live[t], old[u]) \in Word
      BY <3>1, <2>0, SubWord
    <3>4. Sub(min_val, old[u]) + Sub(live[t], min_val) < M
      BY <3>1, <3>2, <3>3, <2>1, <1>a DEF Word
    <3>5. Sub(live[t], old[u]) = Sub(min_val, old[u]) + Sub(live[t], min_val)
      BY <3>1, <3>4, <2>0, SubJoin
    <3> QED BY <3>5, <3>3, <3>2, <2>1, <1>a DEF Word
  <2>5. ASSUME NEW u \in Threads PROVE HeldValues(u)'
    <3>1. CASE u = t
      BY <3>1, <2>4, <2>0, <1>3, <1>0, <2>1, SubWord
         DEF CmpxchgHit, HeldValues, TypeOK, UpdatePcs, Word
    <3>2. CASE u # t /\ pc[u] \in UpdatePcs
      <4>1. pc'[u] = pc[u] /\ HeldValues(u)
        BY <3>2, <1>3, <1>0 DEF CmpxchgHit, TypeOK, ReadersInv
      <4>2. pc[u] = "return" => Sub(live[u], old[u]) <= Sub(live[t], old[u])
        <5>1. /\ Sub(live[u], old[u]) \in Word /\ Sub(min_val, old[u]) \in Word
              /\ Sub(live[t], old[u]) \in Word
          BY <1>0, SubWord DEF TypeOK
        <5> QED BY <5>1, <4>1, <2>4, <3>2, <1>a DEF HeldValues, Word
      <4> QED BY <4>1, <4>2, <2>4, <2>0, <3>2 DEF HeldValues
    <3>3. CASE u # t /\ pc[u] \notin UpdatePcs
      BY <3>3, <1>3, <1>0 DEF CmpxchgHit, HeldValues, TypeOK, UpdatePcs
    <3> QED BY <3>1, <3>2, <3>3
  <2>6. OffIsIdle'
    BY <2>0, <1>3 DEF CmpxchgHit, OffIsIdle
  <2> QED BY <2>3, <2>5, <2>6, <1>0 DEF ReadersInv
<1>4. ASSUME NEW t \in Threads, CmpxchgMiss(t) PROVE ReadersInv'
  <2>1. Near'
    BY <1>4, <1>0 DEF CmpxchgMiss, ReadersInv, Near, Window, UpdatePcs, TypeOK
  <2>2. ASSUME NEW u \in Threads PROVE HeldValues(u)'
    <3>1. Sub(min_val, min_val) = 0 /\ Sub(hw, min_val) \in Word
      BY <1>0, SubZero, SubWord DEF TypeOK
    <3>2. CASE u = t
      BY <3>1, <3>2, <1>4, <1>0
         DEF CmpxchgMiss, HeldValues, TypeOK, Word, UpdatePcs
    <3>3. CASE u # t
      BY <3>3, <1>4, <1>0 DEF CmpxchgMiss, HeldValues, TypeOK, ReadersInv
    <3> QED BY <3>2, <3>3
  <2>3. OffIsIdle'
    BY <1>4, <1>0 DEF CmpxchgMiss, OffIsIdle, HostIdle, ReadersInv
  <2> QED BY <2>1, <2>2, <2>3, <1>0 DEF ReadersInv
<1>5. ASSUME NEW t \in Threads, Return(t) PROVE ReadersInv'
  <2>1. Near'
    BY <1>5, <1>0 DEF Return, ReadersInv, Near, Window, UpdatePcs, TypeOK
  <2>2. ASSUME NEW u \in Threads PROVE HeldValues(u)'
    BY <1>5, <1>0 DEF Return, HeldValues, TypeOK, ReadersInv, UpdatePcs
  <2>3. OffIsIdle'
    BY <1>5, <1>0 DEF Return, OffIsIdle, HostIdle, ReadersInv
  <2> QED BY <2>1, <2>2, <2>3, <1>0 DEF ReadersInv
<1>6. ASSUME NEW t \in Threads, IncrMaxStep(t) \/ IncrCheck(t)
      PROVE ReadersInv'
  <2>0. /\ UNCHANGED <<hw, min_val, power, old, live, inflight>>
        /\ power = "on" /\ pc'[t] \notin UpdatePcs
        /\ \A u \in Threads \ {t} : pc'[u] = pc[u]
    BY <1>6, <1>0 DEF IncrMaxStep, IncrCheck, TypeOK, UpdatePcs, ReadersInv,
                      OffIsIdle, HostIdle
  <2>1. Near'
    BY <2>0 DEF ReadersInv, Near, Window
  <2>2. ASSUME NEW u \in Threads PROVE HeldValues(u)'
    BY <2>0 DEF HeldValues, ReadersInv, UpdatePcs
  <2> QED BY <2>0, <2>1, <2>2, <1>0 DEF ReadersInv, OffIsIdle
<1>7. ASSUME NEW t \in Threads, IncrWrite(t) PROVE ReadersInv'
  <2>1. power = "on"
    BY <1>7, <1>0 DEF IncrWrite, ReadersInv, OffIsIdle, HostIdle, TypeOK
  <2>2. \A u \in Threads : pc'[u] \in UpdatePcs => pc'[u] = pc[u]
    BY <1>7, <1>0 DEF IncrWrite, TypeOK, UpdatePcs
  <2> QED BY <2>1, <2>2, <1>7, <1>0, IncrKeepsReaders DEF IncrWrite
<1>8. ASSUME NEW j \in Jobs, NEW n \in 1 .. MaxJobIncrs, Submit(j, n)
      PROVE ReadersInv'
  BY <1>8, <1>0 DEF Submit, ReadersInv, OffIsIdle, Near, Window, HeldValues
<1>9. CASE EngineIncr
  BY <1>9, <1>0, IncrKeepsReaders DEF EngineIncr
<1>10. CASE PowerOff
  BY <1>10, <1>0 DEF PowerOff, ReadersInv, OffIsIdle, HostIdle, Near,
                     HeldValues, UpdatePcs
<1>11. CASE PowerOn
  <2>1. Sub(min_val, min_val) = 0
    BY <1>0, SubZero DEF TypeOK
  <2> QED BY <2>1, <1>11, <1>0, <1>a
          DEF PowerOn, ReadersInv, OffIsIdle, HostIdle, Near, Window,
              HeldValues, UpdatePcs
<1>12. CASE UNCHANGED vars
  BY <1>12, <1>0 DEF vars, ReadersInv, OffIsIdle, HostIdle, Near, Window,
                     HeldValues
<1> QED
  BY <1>1, <1>2, <1>3, <1>4, <1>5, <1>6, <1>7, <1>8, <1>9, <1>10, <1>11, <1>12
     DEF Next, Step

(* The inductive invariant behind t20_syncpt_update_min: what every thread *)
(* holds lies, in order, between its old shadow value and the register.    *)
THEOREM ReadersCorrect == Spec => []ReadersInv
BY ReadersInit, ReadersNext, PTL DEF Spec

(* However many threads race in t20_syncpt_update_min, the shadow never    *)
(* moves back and never overtakes the register.                            *)
THEOREM ShadowMonotone == Spec => ShadowNeverBack
<1>1. ReadersInv /\ [Next]_vars
        => [power = "on" => Sub(min_val', min_val) <= Sub(hw, min_val)]_vars
  <2> SUFFICES ASSUME ReadersInv, Next, power = "on"
               PROVE  Sub(min_val', min_val) <= Sub(hw, min_val)
    BY DEF vars
  <2>0. /\ hw \in Word /\ min_val \in Word /\ Sub(min_val, min_val) = 0
        /\ Sub(hw, min_val) \in Word
    BY SubZero, SubWord DEF ReadersInv, TypeOK
  <2>1. CASE min_val' = min_val
    BY <2>0, <2>1 DEF Word
  <2>2. ASSUME NEW t \in Threads, CmpxchgHit(t)
        PROVE  Sub(min_val', min_val) <= Sub(hw, min_val)
    BY <2>2 DEF CmpxchgHit, ReadersInv, HeldValues
  <2>3. CASE PowerOff
    BY <2>0, <2>1, <2>3 DEF PowerOff, Word
  <2> QED
    BY <2>1, <2>2, <2>3
       DEF Next, Step, ReadMin, ReadLive, CmpxchgMiss, Return, IncrMaxStep,
           IncrCheck, IncrWrite, Submit, EngineIncr, PowerOn
<1> QED BY <1>1, ReadersCorrect, PTL DEF Spec, ShadowNeverBack

-----------------------------------------------------------------------------
(* Host managed points: only submitted work increments them *)

(* The signed reading of a word is an integer. *)
LEMMA S32Int == \A w \in Word : S32(w) \in Int
BY HalfAssumption DEF S32, Word, M

(* A value at most Half - 1 behind is not ahead in the signed comparison. *)
LEMMA S32Behind ==
    ASSUME NEW a \in Word, NEW b \in Word, Sub(b, a) < Half
    PROVE  S32(Sub(a, b)) <= 0
BY HalfAssumption DEF S32, Sub, Word, M

(* A value less than Half ahead is ahead in the signed comparison. *)
LEMMA S32Ahead ==
    ASSUME NEW a \in Word, NEW b \in Word, a # b, Sub(a, b) < Half
    PROVE  S32(Sub(a, b)) > 0
BY HalfAssumption DEF S32, Sub, Word, M

(* Going round from a, the words a, l, s, h, f are met in that order, as   *)
(* the values held by a thread that returns from update_min are: what the  *)
(* distances between them are.                                             *)
LEMMA HeldOrder ==
    ASSUME HostInv, NEW t \in Threads, pc[t] = "return"
    PROVE  /\ Sub(live[t], old[t]) \in Word
           /\ Sub(min_val, old[t]) \in Word
           /\ Sub(max_val, old[t]) \in Word
           /\ Sub(live[t], old[t]) <= Sub(min_val, old[t])
           /\ Sub(min_val, old[t]) <= Sub(max_val, old[t])
           /\ Sub(max_val, old[t]) < Half
<1>1. /\ Sub(live[t], old[t]) \in Word /\ Sub(min_val, old[t]) \in Word
      /\ Sub(max_val, old[t]) \in Word /\ Sub(hw, old[t]) \in Word
  BY SubWord DEF HostInv, ReadersInv, TypeOK
<1>2. /\ Sub(live[t], old[t]) <= Sub(min_val, old[t])
      /\ Sub(min_val, old[t]) <= Sub(hw, old[t])
  BY DEF HostInv, ReadersInv, HeldValues, UpdatePcs
<1>3. /\ Sub(hw, old[t]) <= Sub(max_val, old[t])
      /\ Sub(max_val, old[t]) + 0 < Half
  BY DEF HostInv, Promise, Window, UpdatePcs
<1> QED BY <1>1, <1>2, <1>3, HalfAssumption DEF Word, M

(* Initially nothing is promised and nothing is in flight. *)
LEMMA HostInit == Init => HostInv
<1> SUFFICES ASSUME Init PROVE HostInv
  OBVIOUS
<1>1. ReadersInv
  BY ReadersInit
<1>2. min_val \in Word /\ hw = min_val /\ max_val = min_val
      /\ Sub(min_val, min_val) = 0 /\ 0 + 0 < Half
  BY SubZero, HalfAssumption DEF Init
<1>3. Promise
  BY <1>2 DEF Init, Promise, Window, UpdatePcs
<1> QED BY <1>1, <1>2, <1>3
        DEF Init, HostInv, LastJob, JobsAhead, min_eq_max, IncrPcs

(* Submitting pushes the promise further, within the window. *)
LEMMA SubmitKeepsHost ==
    ASSUME HostInv, ReadersInv', NEW j \in Jobs, NEW n \in 1 .. MaxJobIncrs,
           Submit(j, n)
    PROVE  HostInv'
<1>0. /\ n \in Nat /\ n >= 1 /\ Half \in Nat /\ Half < M
      /\ max_val \in Word /\ min_val \in Word /\ max_val' \in Word
  BY SyncptAssumption, HalfAssumption DEF HostInv, ReadersInv, TypeOK, M
<1>1. ASSUME NEW h \in Word, Sub(max_val, h) + n < Half
      PROVE  /\ Sub(max_val', h) = Sub(max_val, h) + n
             /\ Sub(max_val, h) \in Word
             /\ Sub(max_val', h) < Half
  <2>1. Sub(max_val, h) \in Word /\ Sub(max_val, h) + n < M
    BY <1>0, <1>1, SubWord DEF Word, M
  <2>2. Sub(Add(max_val, n), h) = Sub(max_val, h) + n
    BY <1>0, <2>1, SubAdd
  <2> QED BY <2>1, <2>2, <1>1 DEF Submit
<1>2. /\ Sub(max_val', min_val) = Sub(max_val, min_val) + n
      /\ Sub(max_val, min_val) \in Word /\ Sub(max_val', min_val) < Half
  BY <1>0, <1>1 DEF Submit, Window
<1>3. ASSUME NEW t \in Threads, pc[t] \in UpdatePcs
      PROVE  /\ Sub(max_val', old[t]) = Sub(max_val, old[t]) + n
             /\ Sub(max_val, old[t]) \in Word /\ Sub(max_val', old[t]) < Half
  BY <1>0, <1>1, <1>3 DEF Submit, Window, HostInv, ReadersInv, TypeOK
<1>4. Promise'
  <2>1. Sub(max_val', min_val) + 0 < Half
        /\ (power = "on" => Sub(hw, min_val) <= Sub(max_val', min_val))
    <3>1. Sub(hw, min_val) \in Word
      BY SubWord DEF HostInv, ReadersInv, TypeOK
    <3> QED BY <3>1, <1>0, <1>2 DEF HostInv, Promise, Word, M
  <2>2. ASSUME NEW t \in Threads, pc[t] \in UpdatePcs
        PROVE  /\ Sub(max_val', old[t]) + 0 < Half
               /\ Sub(hw, old[t]) <= Sub(max_val', old[t])
    <3>1. Sub(hw, old[t]) \in Word
      BY SubWord DEF HostInv, ReadersInv, TypeOK
    <3> QED BY <3>1, <1>0, <1>3, <2>2 DEF HostInv, Promise, Word, M
  <2> QED BY <2>1, <2>2 DEF Submit, Promise, Window
<1>5. LastJob'
  BY DEF Submit, LastJob, HostInv, ReadersInv, TypeOK
<1>6. JobsAhead'
  <2> SUFFICES ASSUME NEW k \in inflight'
               PROVE  \/ /\ fence'[k] # min_val'
                         /\ Sub(fence'[k], min_val') <= Sub(max_val', min_val')
                      \/ Retiring(k)'
    BY DEF JobsAhead
  <2>0. min_val' = min_val
    BY DEF Submit
  <2>1. CASE k = j
    <3>1. fence'[k] = max_val'
      BY <2>1 DEF Submit, HostInv, ReadersInv, TypeOK
    <3>2. Sub(max_val', min_val) # 0 /\ Sub(max_val', min_val) <= Sub(max_val', min_val)
      BY <1>0, <1>2 DEF Word, M
    <3>3. max_val' # min_val
      BY <3>2, <1>0, SubZero
    <3> QED BY <2>0, <3>1, <3>2, <3>3
  <2>2. CASE k # j
    <3>1. k \in inflight /\ fence'[k] = fence[k]
      BY <2>2 DEF Submit, HostInv, ReadersInv, TypeOK
    <3>2. CASE Retiring(k)
      BY <3>1, <3>2 DEF Submit, Retiring
    <3>3. CASE fence[k] # min_val /\ Sub(fence[k], min_val) <= Sub(max_val, min_val)
      <4>1. Sub(fence[k], min_val) \in Word
        BY <3>1, SubWord DEF HostInv, ReadersInv, TypeOK
      <4>2. Sub(fence[k], min_val) <= Sub(max_val', min_val)
        BY <4>1, <3>3, <1>0, <1>2 DEF Word, M
      <4> QED BY <4>2, <3>1, <3>3, <2>0
    <3> QED BY <3>1, <3>2, <3>3 DEF HostInv, JobsAhead
  <2> QED BY <2>1, <2>2
<1> QED BY <1>4, <1>5, <1>6 DEF HostInv, Submit

(* The engine runs at most up to the promise. *)
LEMMA EngineKeepsHost ==
    ASSUME HostInv, ReadersInv', EngineIncr, ~ClientManaged
    PROVE  HostInv'
<1>0. /\ hw \in Word /\ max_val \in Word /\ min_val \in Word
      /\ Half \in Nat /\ Half < M /\ hw # max_val /\ power = "on"
  BY HalfAssumption DEF HostInv, ReadersInv, TypeOK, M, EngineIncr
<1>1. ASSUME NEW h \in Word, Sub(hw, h) + 1 < Half,
             Sub(hw, h) <= Sub(max_val, h)
      PROVE  Sub(hw', h) <= Sub(max_val, h)
  <2>1. Sub(hw, h) \in Word /\ Sub(max_val, h) \in Word /\ Sub(hw, h) + 1 < M
    BY <1>0, <1>1, SubWord DEF Word, M
  <2>2. Sub(Add(hw, 1), h) = Sub(hw, h) + 1
    BY <1>0, <2>1, SubAdd
  <2>3. Sub(max_val, hw) = Sub(max_val, h) - Sub(hw, h) /\ Sub(max_val, hw) # 0
    BY <1>0, <1>1, SubChain, SubZero
  <2> QED BY <2>1, <2>2, <2>3, <1>1 DEF EngineIncr, Word, M
<1>2. Promise'
  <2>1. Sub(hw', min_val) <= Sub(max_val, min_val)
    BY <1>0, <1>1 DEF EngineIncr, Window, HostInv, Promise
  <2>2. ASSUME NEW t \in Threads, pc[t] \in UpdatePcs
        PROVE  Sub(hw', old[t]) <= Sub(max_val, old[t])
    BY <1>1, <2>2 DEF EngineIncr, Window, HostInv, Promise, ReadersInv, TypeOK
  <2> QED BY <2>1, <2>2 DEF EngineIncr, HostInv, Promise, Window
<1> QED BY <1>2 DEF HostInv, EngineIncr, LastJob, JobsAhead, Retiring,
                    min_eq_max

(* A successful exchange: jobs the new shadow has reached are left to the  *)
(* thread that read their completion.                                      *)
LEMMA HitKeepsHost ==
    ASSUME HostInv, ReadersInv', NEW t \in Threads, CmpxchgHit(t)
    PROVE  HostInv'
<1>0. /\ min_val' = live[t] /\ old[t] = min_val /\ power = "on"
      /\ hw \in Word /\ min_val \in Word /\ live[t] \in Word /\ max_val \in Word
      /\ UNCHANGED <<hw, max_val, old, live, inflight, fence, power>>
      /\ pc'[t] = "return" /\ \A u \in Threads \ {t} : pc'[u] = pc[u]
      /\ pc[t] = "cmpxchg"
  BY DEF CmpxchgHit, HostInv, ReadersInv, OffIsIdle, HostIdle, TypeOK
<1>1. /\ Sub(live[t], min_val) \in Word /\ Sub(hw, min_val) \in Word
      /\ Sub(max_val, min_val) \in Word
      /\ Half \in Nat /\ Half < M
  BY <1>0, SubWord, HalfAssumption DEF M
<1>2. /\ Sub(live[t], min_val) <= Sub(hw, min_val)
      /\ Sub(hw, min_val) <= Sub(max_val, min_val)
      /\ Sub(max_val, min_val) + 0 < Half
  BY <1>0 DEF HostInv, ReadersInv, HeldValues, Promise, Window
<1>3. Sub(live[t], min_val) <= Sub(max_val, min_val)
  BY <1>1, <1>2 DEF Word, M
<1>4. /\ Sub(max_val, live[t]) = Sub(max_val, min_val) - Sub(live[t], min_val)
      /\ Sub(hw, live[t]) = Sub(hw, min_val) - Sub(live[t], min_val)
  BY <1>0, <1>2, <1>3, SubChain
<1>5. Promise'
  <2>1. /\ Sub(max_val, live[t]) + 0 < Half
        /\ Sub(hw, live[t]) <= Sub(max_val, live[t])
    BY <1>1, <1>2, <1>3, <1>4 DEF Word, M
  <2>2. ASSUME NEW u \in Threads, pc'[u] \in UpdatePcs PROVE pc[u] \in UpdatePcs
    BY <1>0, <2>2 DEF UpdatePcs
  <2> QED BY <1>0, <2>1, <2>2 DEF Promise, Window, HostInv
<1>6. LastJob'
  <2>1. CASE min_val = max_val
    <3>1. Sub(max_val, min_val) = 0
      BY <2>1, <1>0, SubZero
    <3>2. Sub(live[t], min_val) = 0
      BY <3>1, <1>1, <1>3 DEF Word, M
    <3> QED BY <3>2, <2>1, <1>0, SubZero DEF LastJob, min_eq_max
  <2>2. CASE \E j \in inflight : fence[j] = max_val
    BY <2>2, <1>0 DEF LastJob
  <2> QED BY <2>1, <2>2 DEF HostInv, LastJob, min_eq_max
<1>7. JobsAhead'
  <2> SUFFICES ASSUME NEW j \in inflight
               PROVE  \/ /\ fence[j] # live[t]
                         /\ Sub(fence[j], live[t]) <= Sub(max_val, live[t])
                      \/ Retiring(j)'
    BY <1>0 DEF JobsAhead
  <2>0. fence[j] \in Word /\ Sub(fence[j], min_val) \in Word
    BY <1>0, SubWord DEF HostInv, ReadersInv, TypeOK
  <2>1. CASE Retiring(j)
    BY <2>1, <1>0 DEF Retiring
  <2>2. CASE Sub(fence[j], min_val) <= Sub(live[t], min_val)
    BY <2>2, <1>0 DEF Retiring
  <2>3. CASE /\ ~(Sub(fence[j], min_val) <= Sub(live[t], min_val))
             /\ Sub(fence[j], min_val) <= Sub(max_val, min_val)
    <3>1. Sub(live[t], min_val) <= Sub(fence[j], min_val)
      BY <2>3, <2>0, <1>1 DEF Word, M
    <3>2. Sub(fence[j], live[t]) = Sub(fence[j], min_val) - Sub(live[t], min_val)
      BY <3>1, <2>0, <1>0, SubChain
    <3>3. Sub(fence[j], live[t]) # 0
          /\ Sub(fence[j], live[t]) <= Sub(max_val, live[t])
      BY <3>2, <2>3, <2>0, <1>1, <1>4 DEF Word, M
    <3> QED BY <3>3, <2>0, <1>0, SubZero
  <2> QED BY <2>1, <2>2, <2>3 DEF HostInv, JobsAhead
<1>8. \A u \in Threads : pc'[u] \notin IncrPcs
  BY <1>0 DEF HostInv, IncrPcs
<1> QED BY <1>5, <1>6, <1>7, <1>8 DEF HostInv

(* Retiring: the job that promised max_val goes only when the shadow is    *)
(* there, and no job this thread has seen complete is left behind.         *)
LEMMA ReturnKeepsHost ==
    ASSUME HostInv, ReadersInv', NEW t \in Threads, Return(t)
    PROVE  HostInv'
<1>0. /\ UNCHANGED <<hw, min_val, max_val, fence, power>>
      /\ pc[t] = "return" /\ pc'[t] = "idle"
      /\ \A u \in Threads \ {t} : /\ pc'[u] = pc[u] /\ old'[u] = old[u]
                                  /\ live'[u] = live[u]
      /\ inflight' = {j \in inflight : S32(Sub(fence[j], live[t])) > 0}
      /\ old[t] \in Word /\ live[t] \in Word /\ min_val \in Word /\ max_val \in Word
  BY DEF Return, HostInv, ReadersInv, TypeOK
<1>1. Promise'
  BY <1>0 DEF HostInv, Promise, Window, UpdatePcs
<1>2. LastJob'
  <2>1. CASE min_val = max_val
    BY <2>1, <1>0 DEF LastJob, min_eq_max
  <2>2. ASSUME min_val # max_val, NEW j \in inflight, fence[j] = max_val
        PROVE  j \in inflight'
    <3>1. /\ Sub(max_val, live[t]) = Sub(max_val, old[t]) - Sub(live[t], old[t])
          /\ Sub(max_val, min_val) = Sub(max_val, old[t]) - Sub(min_val, old[t])
      BY <1>0, HeldOrder, SubChain, HalfAssumption DEF Word, M
    <3>2. Sub(max_val, min_val) # 0 /\ Sub(max_val, min_val) \in Word
      BY <1>0, <2>2, SubZero, SubWord
    <3>3. Sub(max_val, live[t]) # 0 /\ Sub(max_val, live[t]) < Half
      BY <3>1, <3>2, <1>0, HeldOrder, HalfAssumption DEF Word, M
    <3>4. max_val # live[t]
      BY <3>3, <1>0, SubZero
    <3> QED BY <3>3, <3>4, <2>2, <1>0, S32Ahead
  <2> QED BY <2>1, <2>2, <1>0 DEF HostInv, LastJob, min_eq_max
<1>3. JobsAhead'
  <2> SUFFICES ASSUME NEW j \in inflight', Retiring(j) PROVE Retiring(j)'
    BY <1>0 DEF HostInv, JobsAhead
  <2>1. PICK u \in Threads : /\ pc[u] = "return"
                             /\ Sub(fence[j], old[u]) <= Sub(live[u], old[u])
    BY DEF Retiring
  <2>2. CASE u # t
    BY <2>1, <2>2, <1>0 DEF Retiring
  <2>3. CASE u = t
    <3>1. fence[j] \in Word
      BY <1>0 DEF HostInv, ReadersInv, TypeOK
    <3>2. Sub(live[t], fence[j]) = Sub(live[t], old[t]) - Sub(fence[j], old[t])
          /\ Sub(fence[j], old[t]) \in Word
      BY <2>1, <2>3, <3>1, <1>0, SubChain, SubWord
    <3>3. Sub(live[t], fence[j]) < Half
      BY <3>2, <1>0, HeldOrder, HalfAssumption DEF Word, M
    <3>4. S32(Sub(fence[j], live[t])) <= 0
      BY <3>1, <3>3, <1>0, S32Behind
    <3>5. S32(Sub(fence[j], live[t])) > 0
      BY <1>0
    <3>6. Sub(fence[j], live[t]) \in Word
      BY <1>0, <3>1, SubWord
    <3>7. S32(Sub(fence[j], live[t])) \in Int
      BY <3>6, S32Int
    <3> QED BY <3>4, <3>5, <3>7
  <2> QED BY <2>2, <2>3
<1>4. \A u \in Threads : pc'[u] \notin IncrPcs
  BY <1>0 DEF HostInv, IncrPcs
<1> QED BY <1>1, <1>2, <1>3, <1>4 DEF HostInv

(* Every step of a host managed point without user increments keeps        *)
(* promise, shadow and jobs in flight consistent.                          *)
LEMMA HostNext ==
    ASSUME ~ClientManaged, Incrementers = {}, HostInv, [Next]_vars
    PROVE  HostInv'
<1>0. ReadersInv'
  BY ReadersNext DEF HostInv
<1>1. ASSUME NEW t \in Threads, ReadMin(t) \/ ReadLive(t) \/ CmpxchgMiss(t)
      PROVE  HostInv'
  <2>0. /\ UNCHANGED <<hw, min_val, max_val, power, inflight, fence>>
        /\ pc[t] # "return" /\ pc'[t] \in UpdatePcs \ {"return"}
        /\ old'[t] = min_val \/ (pc[t] \in UpdatePcs /\ old'[t] = old[t])
        /\ \A u \in Threads \ {t} : /\ pc'[u] = pc[u] /\ old'[u] = old[u]
                                    /\ live'[u] = live[u]
        /\ power = "on"
    BY <1>1 DEF ReadMin, ReadLive, CmpxchgMiss, HostInv, ReadersInv, TypeOK,
                UpdatePcs, OffIsIdle, HostIdle
  <2>1. Promise'
    BY <2>0 DEF HostInv, Promise, Window
  <2>2. JobsAhead'
    BY <2>0 DEF HostInv, JobsAhead, Retiring, UpdatePcs
  <2>3. \A u \in Threads : pc'[u] \notin IncrPcs
    BY <2>0 DEF HostInv, IncrPcs, UpdatePcs
  <2> QED BY <2>0, <2>1, <2>2, <2>3, <1>0 DEF HostInv, LastJob, min_eq_max
<1>2. ASSUME NEW t \in Threads, CmpxchgHit(t) PROVE HostInv'
  BY <1>0, <1>2, HitKeepsHost
<1>3. ASSUME NEW t \in Threads, Return(t) PROVE HostInv'
  BY <1>0, <1>3, ReturnKeepsHost
<1>4. ASSUME NEW t \in Threads, IncrMaxStep(t) \/ IncrCheck(t) \/ IncrWrite(t)
      PROVE  HostInv'
  BY <1>4 DEF IncrMaxStep, IncrCheck, IncrWrite, HostInv, IncrPcs
<1>5. ASSUME NEW j \in Jobs, NEW n \in 1 .. MaxJobIncrs, Submit(j, n)
      PROVE  HostInv'
  BY <1>0, <1>5, SubmitKeepsHost
<1>6. CASE EngineIncr
  BY <1>0, <1>6, EngineKeepsHost
<1>7. CASE PowerOff
  BY <1>0, <1>7 DEF PowerOff, HostIdle, HostInv, Promise, Window, LastJob,
                    JobsAhead, min_eq_max, UpdatePcs
<1>8. CASE PowerOn
  <2>1. Sub(min_val, min_val) = 0 /\ Sub(max_val, min_val) \in Word
    BY SubZero, SubWord DEF HostInv, ReadersInv, TypeOK
  <2>2. 0 <= Sub(max_val, min_val)
    BY <2>1 DEF Word
  <2>3. HostIdle
    BY <1>8 DEF PowerOn, HostInv, ReadersInv, OffIsIdle
  <2> QED BY <2>1, <2>2, <2>3, <1>0, <1>8
          DEF PowerOn, HostIdle, HostInv, Promise, Window, LastJob, JobsAhead,
              min_eq_max, UpdatePcs
<1>9. CASE UNCHANGED vars
  BY <1>0, <1>9 DEF vars, HostInv, Promise, Window, LastJob, JobsAhead,
                    Retiring, min_eq_max
<1> QED
  BY <1>1, <1>2, <1>3, <1>4, <1>5, <1>6, <1>7, <1>8, <1>9 DEF Next, Step

-----------------------------------------------------------------------------
(* A host managed point that only submitted work increments: the register  *)
(* stays between shadow and promise, which is what the unsigned expiry     *)
(* test of nvhost_syncpt_is_expired presupposes.                           *)
THEOREM HostChasesMax ==
    ASSUME ~ClientManaged, Incrementers = {}
    PROVE  Spec => []ChasesMax
<1>1. Init => HostInv
  BY HostInit
<1>2. HostInv /\ [Next]_vars => HostInv'
  BY HostNext
<1>3. HostInv => ChasesMax
  BY DEF HostInv, Promise, ChasesMax
<1> QED BY <1>1, <1>2, <1>3, PTL DEF Spec

(* Under the same assumptions the assertion in nvhost_syncpt_save, that    *)
(* the point is at rest, holds whenever the host may lose power: the last  *)
(* reference goes only with the last promised increment seen.              *)
THEOREM HostSaveIsSafe ==
    ASSUME ~ClientManaged, Incrementers = {}
    PROVE  Spec => []SaveIsSafe
<1>1. Init => HostInv
  BY HostInit
<1>2. HostInv /\ [Next]_vars => HostInv'
  BY HostNext
<1>3. HostInv => SaveIsSafe
  BY DEF HostInv, LastJob, SaveIsSafe, HostIdle
<1> QED BY <1>1, <1>2, <1>3, PTL DEF Spec

(* Under the same assumptions the unsigned comparison of                   *)
(* nvhost_syncpt_is_expired and the signed one by which the wait list      *)
(* drops waiters agree on every fence in flight.                           *)
THEOREM HostExpiryAgrees ==
    ASSUME ~ClientManaged, Incrementers = {}
    PROVE  Spec => []ExpiryTestsAgree
<1>1. Init => HostInv
  BY HostInit
<1>2. HostInv /\ [Next]_vars => HostInv'
  BY HostNext
<1>3. HostInv => ExpiryTestsAgree
  <2> SUFFICES ASSUME HostInv, NEW j \in inflight
               PROVE  is_expired(fence[j]) <=> S32(Sub(fence[j], min_val)) <= 0
    BY DEF ExpiryTestsAgree
  <2> DEFINE f == fence[j]
  <2>0. /\ f \in Word /\ min_val \in Word /\ max_val \in Word
        /\ Half \in Nat /\ Half < M
    BY HalfAssumption DEF HostInv, ReadersInv, TypeOK, M
  <2> HIDE DEF f
  <2>1. /\ Sub(f, min_val) \in Word /\ Sub(min_val, f) \in Word
        /\ Sub(max_val, f) \in Word /\ Sub(max_val, min_val) \in Word
        /\ S32(Sub(f, min_val)) \in Int
    BY <2>0, SubWord, S32Int
  <2>2. is_expired(f) <=> Sub(max_val, f) >= Sub(min_val, f)
    BY DEF is_expired, ExpiredAt
  <2>3. CASE f # min_val /\ Sub(f, min_val) <= Sub(max_val, min_val)
    <3>1. Sub(max_val, min_val) + 0 < Half
      BY DEF HostInv, Promise, Window
    <3>2. Sub(f, min_val) < Half /\ Sub(max_val, min_val) < Half
      BY <2>0, <2>1, <2>3, <3>1 DEF Word, M
    <3>3. S32(Sub(f, min_val)) > 0
      BY <3>2, <2>0, <2>3, S32Ahead
    <3>4. Sub(max_val, f) = Sub(max_val, min_val) - Sub(f, min_val)
      BY <2>0, <2>3, SubChain
    <3>5. Sub(min_val, f) = M - Sub(f, min_val)
      BY <2>0, <2>3, HalfAssumption DEF Sub, Word, M
    <3>6. ~(Sub(max_val, f) >= Sub(min_val, f))
      BY <3>2, <3>4, <3>5, <2>0, <2>1 DEF Word, M
    <3> QED BY <3>3, <3>6, <2>1, <2>2 DEF f
  <2>4. CASE Retiring(j)
    <3>1. PICK t \in Threads : /\ pc[t] = "return"
                               /\ Sub(f, old[t]) <= Sub(live[t], old[t])
      BY <2>4 DEF Retiring, f
    <3>2. old[t] \in Word /\ Sub(f, old[t]) \in Word
      BY <2>0, SubWord DEF HostInv, ReadersInv, TypeOK
    <3>3. /\ Sub(f, old[t]) <= Sub(min_val, old[t])
          /\ Sub(f, old[t]) <= Sub(max_val, old[t])
      BY <3>1, <3>2, HeldOrder DEF Word, M
    <3>4. /\ Sub(min_val, f) = Sub(min_val, old[t]) - Sub(f, old[t])
          /\ Sub(max_val, f) = Sub(max_val, old[t]) - Sub(f, old[t])
      BY <3>2, <3>3, <2>0, SubChain
    <3>5. Sub(max_val, f) >= Sub(min_val, f) /\ Sub(min_val, f) < Half
      BY <3>1, <3>2, <3>4, <2>0, HeldOrder DEF Word, M
    <3>6. S32(Sub(f, min_val)) <= 0
      BY <3>5, <2>0, S32Behind
    <3> QED BY <3>5, <3>6, <2>2 DEF f
  <2> QED BY <2>3, <2>4 DEF HostInv, JobsAhead, f
<1> QED BY <1>1, <1>2, <1>3, PTL DEF Spec

(* Under the same assumptions a power cycle writes back exactly the value  *)
(* the counter had, although nvhost_syncpt_save does not read it.          *)
THEOREM HostCounterSurvives ==
    ASSUME ~ClientManaged, Incrementers = {}
    PROVE  Spec => CounterSurvives
<1>1. Init => HostInv
  BY HostInit
<1>2. HostInv /\ [Next]_vars => HostInv'
  BY HostNext
<1>3. HostInv => [PowerOff => min_val' = hw]_vars
  <2> SUFFICES ASSUME HostInv, PowerOff PROVE min_val' = hw
    OBVIOUS
  <2>1. min_val' = min_val /\ min_val = max_val /\ power = "on"
    BY DEF PowerOff, HostIdle, HostInv, LastJob, min_eq_max
  <2>2. Sub(hw, min_val) <= Sub(min_val, min_val)
    BY <2>1 DEF HostInv, Promise
  <2>3. hw \in Word /\ min_val \in Word
    BY DEF HostInv, ReadersInv, TypeOK
  <2>4. Sub(hw, min_val) = 0
    BY <2>2, <2>3, SubZero, SubWord DEF Word
  <2> QED BY <2>1, <2>3, <2>4, SubZero
<1> QED BY <1>1, <1>2, <1>3, PTL DEF Spec, CounterSurvives

================================================================================
