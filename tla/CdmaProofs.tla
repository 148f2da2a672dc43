------------------------------- MODULE CdmaProofs -------------------------------
(***************************************************************************)
(* Proofs about the waits of Cdma, for any number of clients, any ring and *)
(* any modulus.                                                            *)
(***************************************************************************)
EXTENDS Cdma, FiniteSetTheorems, TLAPS

DownPcs == {"push_down", "flush_down", "stop_down"}
Pcs == {"idle", "lock"} \cup SubmitPcs \cup FlushPcs \cup StopPcs

WaitTypes ==
    /\ pc \in [Clients -> Pcs]
    /\ event \in {"none", "space", "empty"}
    /\ sem \in Nat

(* The client that closes the channel is alone in it *)
CloserAlone ==
    \A c, d \in Clients : pc[c] \in StopPcs /\ d # c => pc[d] = "idle"

(***************************************************************************)
(* WakeupsBalance alone is not inductive: Close resets the semaphore, and  *)
(* that is harmless only because nobody sleeps on it then.                 *)
(***************************************************************************)
WakeInv == WaitTypes /\ CloserAlone /\ WakeupsBalance

-----------------------------------------------------------------------------
(* The three ways in which a step of client c changes who is asleep: it    *)
(* stays awake, falls asleep in nvhost_cdma_wait_locked, or wakes up.      *)
LEMMA AsleepFinite == IsFiniteSet(Asleep) /\ Cardinality(Asleep) \in Nat
BY CdmaAssumption, FS_Subset, FS_CardinalityType DEF Asleep

(* A client that moves between two places where it is awake. *)
LEMMA StaysAwake ==
    ASSUME WaitTypes, NEW c \in Clients, c \notin Asleep,
           NEW l, l \notin DownPcs, Goto(c, l)
    PROVE  Asleep' = Asleep
BY DEF WaitTypes, Asleep, Goto, DownPcs

(* A client that goes to sleep adds one to the number of sleepers. *)
LEMMA FallsAsleep ==
    ASSUME WaitTypes, NEW c \in Clients, c \notin Asleep,
           NEW l \in DownPcs, Goto(c, l)
    PROVE  Cardinality(Asleep') = Cardinality(Asleep) + 1
<1>1. Asleep' = Asleep \cup {c}
  BY DEF WaitTypes, Asleep, Goto, DownPcs
<1> QED BY <1>1, AsleepFinite, FS_AddElement

(* A client that wakes up takes one away. *)
LEMMA WakesUp ==
    ASSUME WaitTypes, NEW c \in Clients, c \in Asleep,
           NEW l, l \notin DownPcs, Goto(c, l)
    PROVE  Cardinality(Asleep') = Cardinality(Asleep) - 1
<1>1. Asleep' = Asleep \ {c}
  BY DEF WaitTypes, Asleep, Goto, DownPcs
<1> QED BY <1>1, AsleepFinite, FS_RemoveElement

(* nvhost_cdma_wait_locked keeps the balance: a client that sleeps has set *)
(* the event that will wake it.                                            *)
LEMMA WaitLockedBalance ==
    ASSUME WakeInv, NEW c \in Clients, c \notin Asleep,
           NEW ev \in {"space", "empty"}, NEW retry, retry \notin DownPcs,
           NEW down \in DownPcs, WaitLocked(c, ev, retry, down), sem' = sem
    PROVE  WakeupsBalance'
<1>0. Cardinality(Asleep) \in Nat /\ sem \in Nat
  BY AsleepFinite DEF WakeInv, WaitTypes
<1>1. CASE event # "none"
  <2>1. Goto(c, retry) /\ event' = event
    BY <1>1 DEF WaitLocked
  <2>2. Asleep' = Asleep
    BY <2>1, StaysAwake DEF WakeInv
  <2> QED BY <2>1, <2>2 DEF WakeInv, WakeupsBalance
<1>2. CASE event = "none"
  <2>1. Goto(c, down) /\ event' = ev
    BY <1>2 DEF WaitLocked
  <2>2. Cardinality(Asleep') = Cardinality(Asleep) + 1
    BY <2>1, FallsAsleep DEF WakeInv
  <2>3. WakeupsBalance
    BY DEF WakeInv
  <2> QED BY <1>0, <1>2, <2>1, <2>2, <2>3 DEF WakeupsBalance
<1> QED BY <1>1, <1>2

(* A step that moves client c from awake to awake and leaves event and     *)
(* semaphore alone keeps the balance.                                      *)
LEMMA AwakeBalance ==
    ASSUME WakeInv, NEW c \in Clients, c \notin Asleep,
           NEW l, l \notin DownPcs, Goto(c, l), event' = event, sem' = sem
    PROVE  WakeupsBalance'
<1>1. Asleep' = Asleep
  BY StaysAwake DEF WakeInv
<1> QED BY <1>1 DEF WakeInv, WakeupsBalance

(* When a client closes the channel nobody sleeps. *)
LEMMA ClosingNobodyAsleep ==
    ASSUME WakeInv, NEW c \in Clients, Closing(c)
    PROVE  Asleep = {}
BY DEF WakeInv, WaitTypes, CloserAlone, Closing, Asleep, StopPcs

-----------------------------------------------------------------------------
(* The wait state stays well typed. *)
LEMMA WaitTypesNext == WaitTypes /\ [Next]_vars => WaitTypes'
<1> SUFFICES ASSUME WaitTypes, [Next]_vars PROVE WaitTypes'
  OBVIOUS
<1> USE DEF Pcs, SubmitPcs, FlushPcs, StopPcs, WaitTypes, waitVars
<1>1. ASSUME NEW c \in Clients, ClientStep(c) PROVE WaitTypes'
  <2>1. CASE Submit(c) BY <2>1 DEF Submit, Goto, AfterCheck
  <2>2. CASE Flush(c) BY <2>2 DEF Flush, Goto, AfterCheck, WaitLocked
  <2>3. CASE FlushTimeout(c) BY <2>3 DEF FlushTimeout, Goto, AfterCheck
  <2>4. CASE Down(c) BY <2>4 DEF Down, Goto, Asleep, Awoken
  <2>5. CASE \E n \in 1 .. MaxSlots : Begin(c, n) BY <2>5 DEF Begin, Goto
  <2>6. CASE Push(c) BY <2>6 DEF Push
  <2>7. CASE PushFull(c) BY <2>7 DEF PushFull, Goto, WaitLocked
  <2>8. CASE PushRetry(c) BY <2>8 DEF PushRetry, Goto, WaitLocked
  <2>9. CASE End(c) BY <2>9 DEF End, Goto
  <2>10. CASE StopWait(c) BY <2>10 DEF StopWait, Goto, WaitLocked
  <2>11. CASE Close(c) BY <2>11 DEF Close, Goto
  <2>12. CASE Reopen(c) BY <2>12 DEF Reopen
  <2> QED BY <1>1, <2>1, <2>2, <2>3, <2>4, <2>5, <2>6, <2>7, <2>8, <2>9, <2>10,
             <2>11, <2>12 DEF ClientStep
<1>2. CASE \E n \in 0 .. Len(queue) : Update(n) BY <1>2 DEF Update
<1>3. CASE Suspend BY <1>3 DEF Suspend
<1>4. CASE DmaFetch BY <1>4 DEF DmaFetch
<1>5. CASE EngineIncr BY <1>5 DEF EngineIncr
<1>6. CASE TimerFire BY <1>6 DEF TimerFire
<1>7. CASE HandlerReturns BY <1>7 DEF HandlerReturns
<1>8. CASE HandlerStops BY <1>8 DEF HandlerStops
<1>9. CASE Teardown BY <1>9 DEF Teardown
<1>10. CASE UNCHANGED vars BY <1>10 DEF vars
<1> QED BY <1>1, <1>2, <1>3, <1>4, <1>5, <1>6, <1>7, <1>8, <1>9, <1>10 DEF Next

(* Whoever closes the channel stays alone: others start only from idle, and *)
(* not while somebody closes.                                              *)
LEMMA CloserAloneNext == WaitTypes /\ CloserAlone /\ [Next]_vars => CloserAlone'
<1> SUFFICES ASSUME WaitTypes, CloserAlone, [Next]_vars PROVE CloserAlone'
  OBVIOUS
<1> USE DEF CloserAlone, WaitTypes, StopPcs
<1>1. ASSUME NEW c \in Clients, ClientStep(c) PROVE CloserAlone'
  <2>1. CASE Submit(c) BY <2>1 DEF Submit, Goto, AfterCheck
  <2>2. CASE Flush(c) BY <2>2 DEF Flush, Goto, AfterCheck, WaitLocked
  <2>3. CASE FlushTimeout(c) BY <2>3 DEF FlushTimeout, Goto, AfterCheck
  <2>4. CASE Down(c) BY <2>4 DEF Down, Goto, Asleep, Awoken
  <2>5. CASE \E n \in 1 .. MaxSlots : Begin(c, n) BY <2>5 DEF Begin, Goto
  <2>6. CASE Push(c) BY <2>6 DEF Push
  <2>7. CASE PushFull(c) BY <2>7 DEF PushFull, Goto, WaitLocked
  <2>8. CASE PushRetry(c) BY <2>8 DEF PushRetry, Goto, WaitLocked
  <2>9. CASE End(c) BY <2>9 DEF End, Goto
  <2>10. CASE StopWait(c) BY <2>10 DEF StopWait, Closing, Goto, WaitLocked
  <2>11. CASE Close(c) BY <2>11 DEF Close, Goto
  <2>12. CASE Reopen(c) BY <2>12 DEF Reopen
  <2> QED BY <1>1, <2>1, <2>2, <2>3, <2>4, <2>5, <2>6, <2>7, <2>8, <2>9, <2>10,
             <2>11, <2>12 DEF ClientStep
<1>2. ASSUME UNCHANGED pc PROVE CloserAlone'
  BY <1>2
<1>3. CASE \E n \in 0 .. Len(queue) : Update(n) BY <1>2, <1>3 DEF Update
<1>4. CASE Suspend BY <1>2, <1>4 DEF Suspend
<1>5. CASE DmaFetch \/ EngineIncr BY <1>2, <1>5 DEF DmaFetch, EngineIncr
<1>6. CASE TimerFire \/ HandlerReturns \/ HandlerStops
  BY <1>2, <1>6 DEF TimerFire, HandlerReturns, HandlerStops
<1>7. CASE Teardown BY <1>2, <1>7 DEF Teardown
<1>8. CASE UNCHANGED vars BY <1>2, <1>8 DEF vars
<1> QED BY <1>1, <1>3, <1>4, <1>5, <1>6, <1>7, <1>8 DEF Next

(* A step that moves nobody and leaves event and semaphore alone *)
LEMMA QuietBalance ==
    ASSUME WakeInv, UNCHANGED <<pc, event, sem>> PROVE WakeupsBalance'
BY DEF WakeInv, WakeupsBalance, Asleep

(* Every step keeps the signals and the sleepers in balance. *)
LEMMA BalanceNext == WakeInv /\ [Next]_vars => WakeupsBalance'
<1> SUFFICES ASSUME WakeInv, [Next]_vars PROVE WakeupsBalance'
  OBVIOUS
<1>0. Cardinality(Asleep) \in Nat /\ sem \in Nat /\ WakeupsBalance
  BY AsleepFinite DEF WakeInv, WaitTypes
<1>1. ASSUME NEW c \in Clients, ClientStep(c) PROVE WakeupsBalance'
  <2> USE DEF waitVars
  <2>1. CASE Submit(c)
    <3>1. c \notin Asleep /\ event' = event /\ sem' = sem
      BY <2>1 DEF Submit, Asleep
    <3>2. \E l \in {"idle", "lock", "flush_retry"} : Goto(c, l)
      BY <2>1 DEF Submit, AfterCheck
    <3> QED BY <3>1, <3>2, AwakeBalance DEF DownPcs
  <2>2. CASE Flush(c)
    <3>0. c \notin Asleep /\ sem' = sem
      BY <2>2 DEF Flush, Asleep
    <3>1. CASE WaitLocked(c, "empty", "flush_retry", "flush_down")
      BY <3>0, <3>1, WaitLockedBalance DEF DownPcs
    <3>2. CASE Goto(c, AfterCheck(c)) /\ event' = event
      <4>1. AfterCheck(c) \notin DownPcs
        BY DEF AfterCheck, DownPcs
      <4> QED BY <3>0, <3>2, <4>1, AwakeBalance
    <3> QED BY <2>2, <3>1, <3>2 DEF Flush
  <2>3. CASE FlushTimeout(c)
    <3>0. Goto(c, AfterCheck(c)) /\ event' = event /\ sem' = sem
          /\ AfterCheck(c) \notin DownPcs
      BY <2>3 DEF FlushTimeout, AfterCheck, DownPcs
    <3>1. CASE c \notin Asleep
      BY <3>0, <3>1, AwakeBalance
    <3>2. CASE c \in Asleep
      <4>1. sem = 0
        BY <2>3, <3>2 DEF FlushTimeout, Asleep
      <4>2. Cardinality(Asleep') = Cardinality(Asleep) - 1
        BY <3>0, <3>2, WakesUp DEF WakeInv
      <4>3. Cardinality(Asleep') \in Nat
        BY <3>0, <3>2, <4>2, <1>0, FS_EmptySet, AsleepFinite
      <4> QED BY <1>0, <3>0, <4>1, <4>2, <4>3 DEF WakeupsBalance
    <3> QED BY <3>1, <3>2
  <2>4. CASE Down(c)
    <3>1. Cardinality(Asleep') = Cardinality(Asleep) - 1
      <4>1. Awoken(pc[c]) \notin DownPcs
        BY DEF Awoken, DownPcs
      <4> QED BY <2>4, <4>1, WakesUp DEF Down, WakeInv
    <3>2. sem' = sem - 1 /\ event' = event
      BY <2>4 DEF Down
    <3> QED BY <1>0, <3>1, <3>2 DEF WakeupsBalance
  <2>5. CASE \E n \in 1 .. MaxSlots : Begin(c, n)
    <3>1. c \notin Asleep /\ event' = event /\ sem' = sem /\ Goto(c, "push")
      BY <2>5 DEF Begin, Asleep
    <3> QED BY <3>1, AwakeBalance DEF DownPcs
  <2>6. CASE Push(c)
    BY <2>6, QuietBalance DEF Push
  <2>7. CASE PushFull(c)
    <3>1. c \notin Asleep /\ sem' = sem
          /\ WaitLocked(c, "space", "push_retry", "push_down")
      BY <2>7 DEF PushFull, Asleep
    <3> QED BY <3>1, WaitLockedBalance DEF DownPcs
  <2>8. CASE PushRetry(c)
    <3>0. c \notin Asleep /\ sem' = sem
      BY <2>8 DEF PushRetry, Asleep
    <3>1. CASE WaitLocked(c, "space", "push_retry", "push_down")
      BY <3>0, <3>1, WaitLockedBalance DEF DownPcs
    <3>2. CASE Goto(c, "push") /\ event' = event
      BY <3>0, <3>2, AwakeBalance DEF DownPcs
    <3> QED BY <2>8, <3>1, <3>2 DEF PushRetry
  <2>9. CASE End(c)
    <3>1. c \notin Asleep /\ event' = event /\ sem' = sem /\ Goto(c, "idle")
      BY <2>9 DEF End, Asleep
    <3> QED BY <3>1, AwakeBalance DEF DownPcs
  <2>10. CASE StopWait(c)
    <3>1. c \notin Asleep /\ sem' = sem
          /\ WaitLocked(c, "empty", "stop_retry", "stop_down")
      BY <2>10 DEF StopWait, Closing, Asleep
    <3> QED BY <3>1, WaitLockedBalance DEF DownPcs
  <2>11. CASE Close(c)
    <3>1. Asleep = {} /\ c \notin Asleep
      BY <2>11, ClosingNobodyAsleep DEF Close
    <3>2. Asleep' = {}
      BY <2>11, <3>1, StaysAwake DEF Close, WakeInv, DownPcs
    <3>3. event' = "none" /\ sem' = 0
      BY <2>11 DEF Close
    <3> QED BY <3>2, <3>3, FS_EmptySet DEF WakeupsBalance
  <2>12. CASE Reopen(c)
    BY <2>12, QuietBalance DEF Reopen
  <2> QED BY <1>1, <2>1, <2>2, <2>3, <2>4, <2>5, <2>6, <2>7, <2>8, <2>9, <2>10,
             <2>11, <2>12 DEF ClientStep
<1>2. ASSUME NEW n \in 0 .. Len(queue), Update(n) PROVE WakeupsBalance'
  <2>1. Asleep' = Asleep
    BY <1>2 DEF Update, Asleep
  <2>2. CASE Signal(n)
    <3>1. event # "none" /\ event' = "none" /\ sem' = sem + 1
      BY <1>2, <2>2 DEF Update, Signal
    <3> QED BY <1>0, <2>1, <3>1 DEF WakeupsBalance
  <2>3. CASE ~Signal(n)
    BY <1>2, <2>3, QuietBalance DEF Update, waitVars
  <2> QED BY <2>2, <2>3
<1>3. CASE Suspend BY <1>3, QuietBalance DEF Suspend, waitVars
<1>4. CASE DmaFetch \/ EngineIncr
  BY <1>4, QuietBalance DEF DmaFetch, EngineIncr, waitVars
<1>5. CASE TimerFire \/ HandlerReturns \/ HandlerStops
  BY <1>5, QuietBalance DEF TimerFire, HandlerReturns, HandlerStops, waitVars
<1>6. CASE Teardown
  <2>1. UNCHANGED <<pc, event, sem>>
    BY <1>6 DEF Teardown, waitVars
  <2> QED BY <2>1, QuietBalance
<1>7. CASE UNCHANGED vars BY <1>7, QuietBalance DEF vars, waitVars
<1> QED BY <1>1, <1>2, <1>3, <1>4, <1>5, <1>6, <1>7 DEF Next

(* A freshly opened channel has no sleepers and no signals. *)
LEMMA WakeInit == Init => WakeInv
<1> SUFFICES ASSUME Init PROVE WakeInv
  OBVIOUS
<1>1. WaitTypes /\ CloserAlone
  BY DEF Init, WaitTypes, CloserAlone, Pcs, StopPcs
<1>2. Asleep = {} /\ sem = 0 /\ event = "none"
  BY DEF Init, Asleep
<1> QED BY <1>1, <1>2, FS_EmptySet DEF WakeInv, WakeupsBalance

(***************************************************************************)
(* However many clients submit, flush and close, and whatever the module   *)
(* and the timeout do: a thread asleep on cdma->sem has a signal coming,   *)
(* and at most one signal of an abandoned flush is left over.              *)
(***************************************************************************)
THEOREM WakeupsCorrect == Spec => []WakeupsBalance
<1>1. Init => WakeInv
  BY WakeInit
<1>2. WakeInv /\ [Next]_vars => WakeInv'
  BY WaitTypesNext, CloserAloneNext, BalanceNext DEF WakeInv
<1>3. WakeInv => WakeupsBalance
  BY DEF WakeInv
<1> QED BY <1>1, <1>2, <1>3, PTL DEF Spec

================================================================================
