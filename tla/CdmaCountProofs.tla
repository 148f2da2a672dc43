---------------------------- MODULE CdmaCountProofs ----------------------------
(***************************************************************************)
(* Proofs about the sync point of Cdma: every promised increment is        *)
(* performed exactly once, the DMA stays in the ring, and the channel      *)
(* implements JobQueue.  The counter is a position in the ring as well:    *)
(* Done is where the last executed increment was, and a job is finished    *)
(* when Done is at its end.                                                *)
(*                                                                         *)
(* Two hypotheses describe the hardware: the DMA passes the NOOPs of a     *)
(* replayed job before their slots are reused (PromptFetch), and at most   *)
(* one increment lands while the handler stops the channel (MaxLate <= 1). *)
(* The second bound is exact: with two, TLC finds the increments of a job  *)
(* counted twice.                                                          *)
(***************************************************************************)
EXTENDS CdmaRingProofs

Done == Pos(pb.cur) + todo - Sub(max_val, hw)

(* What is missing from the counter is in the ring or not yet pushed, and   *)
(* the fence of a job is where its slots end.                               *)
Ledger ==
    /\ Done \in 0 .. Pos(pb.cur)
    /\ Sub(max_val, hw) < Half
    /\ \A i \in 1 .. Len(queue) :
        Sub(max_val, queue[i].syncpt_end) = Pos(pb.cur) + todo - Pos(Front(i + 1))

(* The slots not yet executed are all increments. *)
Incrs == \A k \in Slots : Done <= Pos(k) /\ Pos(k) < Pos(pb.cur) => pb.op[k] = "incr"

(* The pipe is what lies between the counter and DMAGET. *)
Fetched ==
    /\ running /\ ~lost =>
        Pos(get) = Done + pipe /\ Pos(get) <= Pos(last_put) /\ Pos(last_put) <= Pos(pb.cur)
    /\ lost => pipe = 0
    /\ ~running => pipe = 0 /\ hw = max_val

(* When the handler stopped the channel, the head of the queue was not     *)
(* finished.                                                               *)
HeadWasLate ==
    /\ work = "stopping" => Done - late < Pos(Front(2))
    /\ work # "stopping" => late = 0

CountInv == Ledger /\ Incrs /\ Fetched /\ HeadWasLate

(* The hypotheses on the hardware *)
Prompt == PromptFetch /\ MaxLate <= 1

-----------------------------------------------------------------------------
(* The counter's arithmetic *)

(* A fence has been passed when it is at least as far from the promised    *)
(* value as the counter is.                                                *)
LEMMA ExpiredArith ==
    ASSUME NEW m \in Word, NEW h \in Word, NEW e \in Word
    PROVE  Sub(m, e) >= Sub(h, e) <=> Sub(m, e) >= Sub(m, h)
BY HalfAssumption DEF Sub, Word, M

LEMMA CompletedArith ==
    ASSUME NEW m \in Word, NEW h \in Word, NEW e \in Word, Sub(m, e) < Half, Sub(m, h) < Half
    PROVE  S32(Sub(h, e)) >= 0 <=> Sub(m, e) >= Sub(m, h)
BY HalfAssumption DEF Sub, S32, Word, M

(* If a fence ahead of the counter looks passed to an unsigned comparison, *)
(* then it wrapped, and so did every later fence.                          *)
LEMMA WrapTogether ==
    ASSUME NEW m \in Word, NEW h \in Word, NEW a \in Word, NEW b \in Word,
           Sub(m, b) < Sub(m, a), Sub(m, a) < Sub(m, h), ~(h < a)
    PROVE  ~(h < b)
BY HalfAssumption DEF Sub, Word, M

LEMMA PromiseArith ==
    ASSUME NEW m \in Word, NEW h \in Word, NEW n \in Nat, Sub(m, h) + n < M
    PROVE  Sub(Add(m, n), h) = Sub(m, h) + n
BY HalfAssumption DEF Add, Sub, Word, M

LEMMA WorkArith ==
    ASSUME NEW m \in Word, NEW h \in Word, Sub(m, h) > 0
    PROVE  Sub(m, Add(h, 1)) = Sub(m, h) - 1
BY HalfAssumption DEF Add, Sub, Word, M

LEMMA SubSelf ==
    ASSUME NEW m \in Word, NEW h \in Word
    PROVE  Sub(m, m) = 0 /\ (Sub(m, h) = 0 => m = h)
BY HalfAssumption DEF Sub, Word, M

-----------------------------------------------------------------------------
(* Facts about one state *)

(* The numbers the invariant is about are integers, within the ring. *)
LEMMA Numbers ==
    ASSUME TypeOK, RingInv
    PROVE  /\ Len(queue) \in Nat /\ Pos(pb.cur) \in 0 .. Size - 1 /\ todo \in 0 .. MaxSlots
           /\ \A i \in 1 .. Len(queue) + 1 : Pos(Front(i)) \in 0 .. Pos(pb.cur)
           /\ \A i \in 1 .. Len(queue) : 1 <= Pos(Front(i + 1))
           /\ Sub(max_val, hw) \in 0 .. M - 1 /\ max_val \in Word /\ hw \in Word
           /\ Done \in Int /\ late \in 0 .. MaxLate /\ pipe \in 0 .. PipeDepth
           /\ Size \in Nat /\ Half \in Nat /\ MaxSlots \in Nat /\ Size + MaxSlots <= Half + 1
           /\ PipeDepth \in Nat /\ MaxLate \in Nat
<1>1. Len(queue) \in Nat /\ Pos(pb.cur) \in 0 .. Size - 1
      /\ \A i \in 1 .. Len(queue) + 1 : Front(i) \in Slots /\ Pos(Front(i)) \in 0 .. Size - 1
  BY Positions
<1>2. Size \in Nat /\ Half \in Nat /\ MaxSlots \in Nat /\ Size + MaxSlots <= Half + 1
      /\ PipeDepth \in Nat /\ MaxLate \in Nat
  BY SizeAssumption, HalfAssumption, CdmaAssumption
<1>3. todo \in 0 .. MaxSlots /\ max_val \in Word /\ hw \in Word /\ late \in 0 .. MaxLate
      /\ pipe \in 0 .. PipeDepth
  BY DEF TypeOK
<1>4. Sub(max_val, hw) \in 0 .. M - 1
  BY <1>3, SubType
<1>5. ASSUME NEW i \in 1 .. Len(queue) + 1 PROVE Pos(Front(i)) \in 0 .. Pos(pb.cur)
  <2>1. i \in i .. Len(queue) + 1
    BY <1>1
  <2>2. Pos(Front(i)) <= Pos(pb.cur)
    BY <2>1, FrontsOrdered
  <2> QED BY <1>1, <1>2, <2>2
<1>6. ASSUME NEW i \in 1 .. Len(queue) PROVE 1 <= Pos(Front(i + 1))
  <2>1. i \in 1 .. Len(queue) + 1 /\ i + 1 \in i .. Len(queue) + 1 /\ i + 1 \in 1 .. Len(queue) + 1
        /\ (i + 1) - i = 1
    BY <1>1
  <2>2. Pos(Front(i)) + 1 <= Pos(Front(i + 1))
    BY <2>1, FrontsOrdered
  <2>3. Pos(Front(i)) \in Nat /\ Pos(Front(i + 1)) \in Nat
    BY <1>1, <2>1
  <2> QED BY <2>2, <2>3
<1>7. Done \in Int
  BY <1>1, <1>2, <1>3, <1>4, HalfAssumption DEF Done, M
<1> QED BY <1>1, <1>2, <1>3, <1>4, <1>5, <1>6, <1>7

(* Both tests for a finished job ask whether Done is at its end. *)
LEMMA ReachedIs ==
    ASSUME TypeOK, RingInv, Ledger, NEW i \in 1 .. Len(queue)
    PROVE  /\ queue[i].syncpt_end \in Word
           /\ Sub(max_val, queue[i].syncpt_end) = Pos(pb.cur) + todo - Pos(Front(i + 1))
           /\ Sub(max_val, queue[i].syncpt_end) \in 0 .. Half - 1
           /\ Expired(queue[i]) <=> Pos(Front(i + 1)) <= Done
           /\ S32(Sub(hw, queue[i].syncpt_end)) >= 0 <=> Pos(Front(i + 1)) <= Done
           /\ Sub(max_val, queue[i].syncpt_end) >= Sub(max_val, hw) <=> Pos(Front(i + 1)) <= Done
<1> DEFINE e == queue[i].syncpt_end
           P == Pos(Front(i + 1))
           C == Pos(pb.cur)
           X == Sub(max_val, hw)
           E == Sub(max_val, e)
<1>1. e \in Word
  BY QueuedJob
<1>2. E = C + todo - P /\ X < Half
  BY DEF Ledger
<1>3. i + 1 \in 1 .. Len(queue) + 1
  BY Positions
<1>4. /\ C \in 0 .. Size - 1 /\ todo \in 0 .. MaxSlots /\ P \in 0 .. C /\ 1 <= P
      /\ X \in 0 .. M - 1 /\ max_val \in Word /\ hw \in Word
      /\ Size \in Nat /\ MaxSlots \in Nat /\ Half \in Nat /\ Size + MaxSlots <= Half + 1
  BY <1>3, Numbers
<1>5. Done = C + todo - X
  BY DEF Done
<1>6. Expired(queue[i]) <=> E >= Sub(hw, e)
  BY DEF Expired
<1> HIDE DEF e, P, C, X
<1>7. E \in 0 .. Half - 1
  BY <1>2, <1>4
<1>8. E >= X <=> P <= Done
  BY <1>2, <1>4, <1>5
<1>9. Expired(queue[i]) <=> P <= Done
  BY <1>1, <1>4, <1>6, <1>8, ExpiredArith DEF X
<1>10. S32(Sub(hw, e)) >= 0 <=> P <= Done
  BY <1>1, <1>2, <1>4, <1>7, <1>8, CompletedArith DEF X
<1> QED BY <1>1, <1>2, <1>7, <1>8, <1>9, <1>10 DEF e, P, C, X

(* An empty queue without a submit is an empty ring: all work is done.     *)
LEMMA EmptyRing ==
    ASSUME ChannelInv, CountInv, queue = <<>>, ~Submitting
    PROVE  Pos(pb.cur) = 0 /\ todo = 0 /\ Done = 0 /\ hw = max_val /\ pipe = 0
<1>0. TypeOK /\ RingInv /\ SubmitInv
  BY DEF ChannelInv
<1>1. Front(1) = pb.cur /\ Front(1) = Base /\ todo = 0
  BY <1>0 DEF Front, Begun, RingInv, SubmitInv
<1>2. Pos(pb.cur) = 0
  BY <1>0, <1>1, Positions, GapZero DEF Pos
<1>3. Done \in 0 .. 0 /\ Done = 0
  BY <1>2 DEF CountInv, Ledger
<1>4. Sub(max_val, hw) = 0
  BY <1>0, <1>1, <1>2, <1>3, Numbers, HalfAssumption DEF Done, M
<1>5. hw = max_val
  BY <1>0, <1>4, Numbers, SubSelf
<1>6. pipe = 0
  <2>1. CASE running /\ ~lost
    <3>1. Pos(get) = Done + pipe /\ Pos(get) <= Pos(last_put) /\ Pos(last_put) <= Pos(pb.cur)
      BY <2>1 DEF CountInv, Fetched
    <3>2. Pos(get) \in 0 .. Size - 1 /\ Pos(last_put) \in 0 .. Size - 1
      BY <1>0, Positions DEF TypeOK
    <3> QED BY <1>0, <1>2, <1>3, <3>1, <3>2, Numbers
  <2>2. CASE ~(running /\ ~lost)
    BY <1>0, <2>2 DEF CountInv, Fetched, TypeOK
  <2> QED BY <2>1, <2>2
<1> QED BY <1>1, <1>2, <1>3, <1>5, <1>6

-----------------------------------------------------------------------------
(* The steps of a channel, by what they do to ring and counter *)

(* The ring, the counter and the DMA are left alone. *)
Quiet ==
    /\ UNCHANGED <<hwVars, max_val, pb, last_put, queue, running, slots_used, first_get, todo,
                   late, lost>>
    /\ Submitting' = Submitting
    /\ work' = "stopping" <=> work = "stopping"
    /\ timedout' = timedout \/ \E c \in Clients : Reopen(c)

LEMMA StepKinds ==
    ASSUME ChannelInv, [Next]_vars
    PROVE  \/ Quiet
           \/ \E c \in Clients : \E n \in 1 .. MaxSlots : Begin(c, n)
           \/ \E c \in Clients : Push(c) \/ PushFull(c) \/ End(c) \/ Close(c)
           \/ \E n \in 0 .. Len(queue) : Update(n)
           \/ Suspend \/ DmaFetch \/ EngineIncr \/ HandlerStops \/ Teardown
<1>0. WaitTypes
  BY DEF ChannelInv
<1> DEFINE Still == UNCHANGED <<hwVars, max_val, pb, last_put, queue, running, slots_used,
                                first_get, todo, late, lost>>
<1>1. ASSUME NEW c \in Clients, NEW l, Goto(c, l), pc[c] \in SubmitPcs <=> l \in SubmitPcs,
             Still, work' = work, timedout' = timedout
      PROVE  Quiet
  BY <1>0, <1>1, SubmittingKept DEF Quiet
<1>2. ASSUME pc' = pc, Still, work' = "stopping" <=> work = "stopping",
             timedout' = timedout \/ \E c \in Clients : Reopen(c)
      PROVE  Quiet
  BY <1>2 DEF Quiet, Submitting
<1> HIDE DEF Still
<1>3. ASSUME UNCHANGED <<hwVars, max_val, pb, last_put, queue, running, submitVars, late, lost>>
      PROVE  Still
  BY <1>3 DEF Still, submitVars
<1>4. ASSUME NEW c \in Clients, ClientStep(c)
      PROVE  \/ Quiet
             \/ \E n \in 1 .. MaxSlots : Begin(c, n)
             \/ Push(c) \/ PushFull(c) \/ End(c) \/ Close(c)
  <2>1. CASE Submit(c)
    <3>1. \E l \in {"idle", "lock", "flush_retry"} : Goto(c, l)
      BY <2>1 DEF Submit, AfterCheck
    <3> QED BY <1>1, <1>3, <2>1, <3>1 DEF Submit, SubmitPcs, timeoutVars
  <2>2. CASE Flush(c)
    <3>1. \E l \in {"idle", "lock", "flush_retry", "flush_down"} : Goto(c, l)
      BY <2>2 DEF Flush, AfterCheck, WaitLocked
    <3> QED BY <1>1, <1>3, <2>2, <3>1 DEF Flush, SubmitPcs, timeoutVars
  <2>3. CASE FlushTimeout(c)
    <3>1. \E l \in {"idle", "lock"} : Goto(c, l)
      BY <2>3 DEF FlushTimeout, AfterCheck
    <3> QED BY <1>1, <1>3, <2>3, <3>1 DEF FlushTimeout, SubmitPcs, timeoutVars
  <2>4. CASE Down(c)
    <3>1. pc[c] \in SubmitPcs <=> Awoken(pc[c]) \in SubmitPcs
      BY <2>4 DEF Down, Asleep, Awoken, SubmitPcs
    <3> QED BY <1>1, <1>3, <2>4, <3>1 DEF Down, timeoutVars
  <2>5. CASE PushRetry(c)
    <3>1. \E l \in SubmitPcs : Goto(c, l)
      BY <2>5 DEF PushRetry, WaitLocked, SubmitPcs
    <3> QED BY <1>1, <1>3, <2>5, <3>1 DEF PushRetry, SubmitPcs, timeoutVars
  <2>6. CASE StopWait(c)
    <3>1. \E l \in {"stop_retry", "stop_down"} : Goto(c, l)
      BY <2>6 DEF StopWait, WaitLocked
    <3> QED BY <1>1, <1>3, <2>6, <3>1 DEF StopWait, Closing, SubmitPcs, timeoutVars
  <2>7. CASE Reopen(c)
    BY <1>2, <1>3, <2>7 DEF Reopen
  <2> QED BY <1>4, <2>1, <2>2, <2>3, <2>4, <2>5, <2>6, <2>7 DEF ClientStep
<1>5. CASE TimerFire
  BY <1>2, <1>3, <1>5 DEF TimerFire
<1>6. CASE HandlerReturns
  BY <1>2, <1>3, <1>6 DEF HandlerReturns
<1>7. CASE UNCHANGED vars
  BY <1>2, <1>3, <1>7 DEF vars, timeoutVars
<1> QED BY <1>4, <1>5, <1>6, <1>7 DEF Next

(* A step that moves neither cur, nor the fence, the queue or the counter. *)
LEMMA CountKept ==
    ASSUME TypeOK, RingInv, Ledger, Incrs,
           pb'.fence = pb.fence, pb'.cur = pb.cur, pb'.op = pb.op,
           Begun' = Begun, UNCHANGED <<slots_used, hw, max_val, todo>>,
           Len(queue') = Len(queue),
           \A i \in 1 .. Len(queue) : /\ queue'[i].first_get = queue[i].first_get
                                      /\ queue'[i].num_slots = queue[i].num_slots
                                      /\ queue'[i].syncpt_end = queue[i].syncpt_end
    PROVE  /\ Ledger' /\ Incrs'
           /\ Done' = Done /\ Pos(pb.cur)' = Pos(pb.cur)
           /\ \A i \in 1 .. Len(queue) + 1 : Front(i)' = Front(i)
           /\ \A x \in Slots : Gap(Base', x) = Pos(x)
<1>1. /\ \A i \in 1 .. Len(queue) + 1 : Front(i)' = Front(i)
      /\ \A x \in Slots : Gap(Base', x) = Pos(x)
  BY RingKept
<1>2. pb.cur \in Slots /\ Len(queue) \in Nat /\ \A i \in 1 .. Len(queue) + 1 : Front(i) \in Slots
  BY Positions
<1>3. Gap(Base', pb'.cur) = Pos(pb.cur)
  BY <1>1, <1>2
<1>4. Pos(pb.cur)' = Pos(pb.cur)
  BY <1>3 DEF Pos
<1>5. Done' = Done
  BY <1>4 DEF Done
<1>6. Incrs'
  <2>1. ASSUME NEW k \in Slots, Done <= Gap(Base', k), Gap(Base', k) < Pos(pb.cur)
        PROVE  pb'.op[k] = "incr"
    BY <1>1, <2>1 DEF Incrs
  <2> QED BY <1>4, <1>5, <2>1 DEF Incrs, Pos
<1>7. Ledger'
  <2>1. ASSUME NEW i \in 1 .. Len(queue)
        PROVE  Sub(max_val', queue'[i].syncpt_end) = Pos(pb.cur) + todo' - Gap(Base', Front(i + 1)')
    <3>1. i + 1 \in 1 .. Len(queue) + 1
      BY <1>2
    <3>2. Gap(Base', Front(i + 1)') = Pos(Front(i + 1))
      BY <1>1, <1>2, <3>1
    <3> QED BY <3>2 DEF Ledger
  <2>2. Done' \in 0 .. Pos(pb.cur)' /\ Sub(max_val', hw') < Half
    BY <1>4, <1>5 DEF Ledger
  <2> QED BY <1>4, <2>1, <2>2 DEF Ledger, Pos
<1> QED BY <1>1, <1>4, <1>5, <1>6, <1>7

(* A stopping handler found a job at the head of the queue. *)
LEMMA StoppingHasHead ==
    ASSUME ChannelInv, work = "stopping"
    PROVE  /\ 1 \in 1 .. Len(queue) /\ 2 \in 1 .. Len(queue) + 1 /\ Front(2) \in Slots
           /\ tclient \in Clients /\ queue[1].clientid = tclient /\ queue[1].syncpt_end = tval
           /\ running
<1>1. TypeOK /\ TimerInv /\ SubmitInv /\ queue \in Seq(Job) /\ tclient \in Clients \cup {None}
  BY DEF ChannelInv, TypeOK
<1>2. tclient # None /\ queue # <<>> /\ queue[1].clientid = tclient /\ queue[1].syncpt_end = tval
      /\ running
  BY <1>1 DEF TimerInv, SubmitInv
<1>3. 1 \in 1 .. Len(queue) /\ 2 \in 1 .. Len(queue) + 1
  BY <1>1, <1>2
<1> QED BY <1>1, <1>2, <1>3, Positions

LEMMA HeadKept ==
    ASSUME ChannelInv, HeadWasLate, Done' = Done, late' = late,
           work' = "stopping" <=> work = "stopping",
           2 \in 1 .. Len(queue) + 1 => Gap(Base', Front(2)') = Pos(Front(2))
    PROVE  HeadWasLate'
<1>1. CASE work = "stopping"
  <2>1. Gap(Base', Front(2)') = Pos(Front(2)) /\ Done - late < Pos(Front(2))
    BY <1>1, StoppingHasHead DEF HeadWasLate
  <2> QED BY <1>1, <2>1 DEF HeadWasLate, Pos
<1>2. CASE work # "stopping"
  BY <1>2 DEF HeadWasLate
<1> QED BY <1>1, <1>2

(* Steps that leave ring and counter alone, or only kick the DMA. *)
LEMMA CountStill ==
    ASSUME ChannelInv, CountInv,
           UNCHANGED <<hwVars, max_val, pb, queue, running, slots_used, first_get, todo, late, lost>>,
           last_put' = last_put \/ last_put' = pb.cur,
           Submitting' = Submitting,
           work' = "stopping" <=> work = "stopping"
    PROVE  CountInv'
<1>0. TypeOK /\ RingInv /\ Ledger /\ Incrs /\ Fetched /\ HeadWasLate
      /\ get \in Slots /\ last_put \in Slots
  BY DEF ChannelInv, CountInv, TypeOK
<1>1. Begun' = Begun
  BY DEF Begun
<1>2. /\ Ledger' /\ Incrs' /\ Done' = Done /\ Pos(pb.cur)' = Pos(pb.cur)
      /\ \A i \in 1 .. Len(queue) + 1 : Front(i)' = Front(i)
      /\ \A x \in Slots : Gap(Base', x) = Pos(x)
  BY <1>0, <1>1, CountKept DEF hwVars
<1>3. HeadWasLate'
  BY <1>0, <1>2, HeadKept, Positions
<1>4. Fetched'
  <2>1. pb.cur \in Slots /\ Pos(pb.cur) \in Int /\ Pos(get) \in Int /\ Pos(last_put) \in Int
    BY <1>0, Positions
  <2>2. Gap(Base', get') = Pos(get) /\ pipe' = pipe /\ hw' = hw
        /\ (Gap(Base', last_put') = Pos(last_put) \/ Gap(Base', last_put') = Pos(pb.cur))
    BY <1>0, <1>2, <2>1 DEF hwVars
  <2>3. running' /\ ~lost' =>
          /\ Gap(Base', get') = Done' + pipe' /\ Gap(Base', get') <= Gap(Base', last_put')
          /\ Gap(Base', last_put') <= Pos(pb.cur)'
    BY <1>0, <1>2, <2>1, <2>2 DEF Fetched
  <2> QED BY <1>0, <2>2, <2>3 DEF Fetched, Pos
<1> QED BY <1>2, <1>3, <1>4 DEF CountInv

LEMMA CountQuiet ==
    ASSUME ChannelInv, CountInv,
           Quiet \/ \E c \in Clients : PushFull(c)
    PROVE  CountInv'
<1>1. CASE Quiet
  BY <1>1, CountStill DEF Quiet
<1>2. ASSUME NEW c \in Clients, PushFull(c) PROVE CountInv'
  <2>1. WaitTypes /\ \E l \in SubmitPcs : Goto(c, l)
    BY <1>2 DEF PushFull, WaitLocked, SubmitPcs, ChannelInv
  <2>2. Submitting' = Submitting
    BY <1>2, <2>1, SubmittingKept DEF PushFull, SubmitPcs
  <2> QED BY <1>2, <2>2, CountStill DEF PushFull, cdma_kick, submitVars, timeoutVars
<1> QED BY <1>1, <1>2

(* The handler stops the channel because the head is not finished. *)
LEMMA CountHandlerStops ==
    ASSUME ChannelInv, CountInv, HandlerStops
    PROVE  CountInv'
<1>0. TypeOK /\ RingInv /\ TimerInv /\ Ledger /\ Incrs /\ Fetched /\ HeadWasLate
      /\ get \in Slots /\ last_put \in Slots /\ queue \in Seq(Job)
  BY DEF ChannelInv, CountInv, TypeOK
<1>1. /\ UNCHANGED <<hwVars, max_val, pb, last_put, queue, running, slots_used, first_get, todo,
                     late, lost, pc>>
      /\ work' = "stopping" /\ work = "blocked" /\ tclient # None /\ ~Completed
  BY DEF HandlerStops, submitVars
<1>2. Begun' = Begun
  BY <1>1 DEF Begun, Submitting
<1>3. /\ Ledger' /\ Incrs' /\ Done' = Done /\ Pos(pb.cur)' = Pos(pb.cur)
      /\ \A i \in 1 .. Len(queue) + 1 : Front(i)' = Front(i)
      /\ \A x \in Slots : Gap(Base', x) = Pos(x)
  BY <1>0, <1>1, <1>2, CountKept DEF hwVars
<1>4. 1 \in 1 .. Len(queue) /\ 1 + 1 \in 1 .. Len(queue) + 1 /\ queue[1].syncpt_end = tval
      /\ 1 + 1 = 2
  BY <1>0, <1>1 DEF TimerInv
<1>5. ~(Pos(Front(2)) <= Done)
  BY <1>0, <1>1, <1>4, ReachedIs DEF Completed
<1>6. Done \in Int /\ Pos(Front(2)) \in Int /\ late = 0
  BY <1>0, <1>1, <1>4, Numbers DEF HeadWasLate
<1>7. HeadWasLate'
  <2>1. Gap(Base', Front(2)') = Pos(Front(2))
    BY <1>0, <1>3, <1>4, Positions
  <2>2. Done' - late' < Gap(Base', Front(2)')
    BY <1>1, <1>3, <1>5, <1>6, <2>1
  <2> QED BY <1>1, <2>2 DEF HeadWasLate, Pos
<1>8. Fetched'
  <2>1. Gap(Base', get') = Pos(get) /\ Gap(Base', last_put') = Pos(last_put)
        /\ pipe' = pipe /\ hw' = hw
    BY <1>0, <1>1, <1>3 DEF hwVars
  <2> QED BY <1>0, <1>1, <1>3, <2>1 DEF Fetched, Pos
<1> QED BY <1>3, <1>7, <1>8 DEF CountInv

-----------------------------------------------------------------------------
(* Submitting *)

(* A submit promises its increments: Done stays, every fence is further    *)
(* from the promised value.                                                *)
LEMMA CountBegin ==
    ASSUME ChannelInv, CountInv, NEW c \in Clients, NEW n \in 1 .. MaxSlots, Begin(c, n)
    PROVE  CountInv'
<1>0. TypeOK /\ RingInv /\ SubmitInv /\ WaitTypes /\ Ledger /\ Incrs /\ Fetched /\ HeadWasLate
      /\ get \in Slots /\ last_put \in Slots
  BY DEF ChannelInv, CountInv, TypeOK
<1>1. /\ UNCHANGED <<hw, pipe, pb, queue, late, work>> /\ work # "stopping"
      /\ ~Submitting /\ todo = 0 /\ todo' = n /\ slots_used = 0 /\ slots_used' = 0
      /\ first_get' = pb.cur /\ max_val' = Add(max_val, n) /\ Sub(max_val, hw) + n < Half
      /\ cdma_start
  BY <1>0 DEF Begin, SubmitInv, LockFree
<1>2. Submitting'
  BY <1>0 DEF Begin, Goto, Submitting, SubmitPcs, WaitTypes
<1>3. Begun' = Begun
  BY <1>1, <1>2 DEF Begun
<1>4. /\ \A i \in 1 .. Len(queue) + 1 : Front(i)' = Front(i)
      /\ \A x \in Slots : Gap(Base', x) = Pos(x)
  BY <1>0, <1>1, <1>3, RingKept
<1>5. /\ Pos(pb.cur) \in 0 .. Size - 1 /\ Sub(max_val, hw) \in 0 .. M - 1 /\ n \in Nat
      /\ max_val \in Word /\ hw \in Word /\ Size \in Nat /\ Half \in Nat /\ MaxSlots \in Nat
      /\ n <= MaxSlots /\ Size + MaxSlots <= Half + 1 /\ pb.cur \in Slots
  BY <1>0, Numbers, Positions
<1>6. Sub(max_val', hw') = Sub(max_val, hw) + n
  <2>1. Sub(max_val, hw) + n < M
    BY <1>1, <1>5 DEF M
  <2> QED BY <1>1, <1>5, <2>1, PromiseArith
<1>7. Gap(Base', pb'.cur) = Pos(pb.cur)
  BY <1>1, <1>4, <1>5
<1>8. Done' = Done /\ Done \in Int
  <2>1. Done' = Gap(Base', pb'.cur) + todo' - Sub(max_val', hw')
    BY DEF Done, Pos
  <2>2. Done = Pos(pb.cur) + 0 - Sub(max_val, hw)
    BY <1>1 DEF Done
  <2> QED BY <1>1, <1>5, <1>6, <1>7, <2>1, <2>2 DEF M
<1>9. Incrs'
  <2>1. ASSUME NEW k \in Slots, Done <= Gap(Base', k), Gap(Base', k) < Pos(pb.cur)
        PROVE  pb'.op[k] = "incr"
    BY <1>0, <1>1, <1>4, <2>1 DEF Incrs
  <2> QED BY <1>7, <1>8, <2>1 DEF Incrs, Pos
<1>10. Ledger'
  <2>1. ASSUME NEW i \in 1 .. Len(queue)
        PROVE  Sub(max_val', queue'[i].syncpt_end) = Gap(Base', pb'.cur) + todo' - Gap(Base', Front(i + 1)')
    <3>1. i + 1 \in 1 .. Len(queue) + 1 /\ Front(i + 1) \in Slots
      BY <1>0, Positions
    <3>2. Gap(Base', Front(i + 1)') = Pos(Front(i + 1)) /\ Pos(Front(i + 1)) \in Nat
      BY <1>0, <1>4, <3>1, Positions
    <3>3. queue[i].syncpt_end \in Word
          /\ Sub(max_val, queue[i].syncpt_end) = Pos(pb.cur) + 0 - Pos(Front(i + 1))
          /\ Sub(max_val, queue[i].syncpt_end) \in 0 .. Half - 1
      BY <1>0, <1>1, ReachedIs
    <3>4. Sub(max_val, queue[i].syncpt_end) + n < M
      BY <1>1, <1>5, <3>3 DEF M
    <3>5. Sub(max_val', queue[i].syncpt_end) = Sub(max_val, queue[i].syncpt_end) + n
      BY <1>1, <1>5, <3>3, <3>4, PromiseArith
    <3> QED BY <1>1, <1>5, <1>7, <3>2, <3>3, <3>5
  <2>2. Done' \in 0 .. Gap(Base', pb'.cur) /\ Sub(max_val', hw') < Half
    BY <1>0, <1>1, <1>6, <1>7, <1>8 DEF Ledger
  <2> QED BY <1>1, <2>1, <2>2 DEF Ledger, Pos
<1>11. Fetched'
  <2>1. CASE running
    <3>1. running' /\ UNCHANGED <<get, last_put, lost>>
      BY <1>1, <2>1 DEF cdma_start
    <3>2. Gap(Base', get') = Pos(get) /\ Gap(Base', last_put') = Pos(last_put)
      BY <1>0, <1>4, <3>1
    <3> QED BY <1>0, <1>1, <1>7, <1>8, <2>1, <3>1, <3>2 DEF Fetched, Pos
  <2>2. CASE ~running
    <3>1. running' /\ ~lost' /\ get' = pb.cur /\ last_put' = pb.cur /\ pipe' = 0 /\ hw = max_val
      BY <1>0, <1>1, <2>2 DEF cdma_start, Fetched
    <3>2. Done = Pos(pb.cur)
      BY <1>1, <1>5, <3>1, SubSelf DEF Done
    <3> QED BY <1>1, <1>5, <1>7, <1>8, <3>1, <3>2 DEF Fetched, Pos
  <2> QED BY <2>1, <2>2
<1>12. HeadWasLate'
  BY <1>0, <1>1 DEF HeadWasLate
<1> QED BY <1>9, <1>10, <1>11, <1>12 DEF CountInv

(* A push moves one increment from the submit into the ring. *)
LEMMA CountPush ==
    ASSUME ChannelInv, PushNeverFull, CountInv, NEW c \in Clients, Push(c)
    PROVE  CountInv'
<1>0. TypeOK /\ RingInv /\ SubmitInv /\ Ledger /\ Incrs /\ Fetched /\ HeadWasLate
      /\ get \in Slots /\ last_put \in Slots
  BY DEF ChannelInv, CountInv, TypeOK
<1>1. /\ UNCHANGED <<hwVars, max_val, queue, running, late, lost, work>> /\ todo' = todo - 1
      /\ last_put' = last_put \/ last_put' = pb.cur
  BY DEF Push, cdma_kick, timeoutVars
<1>2. /\ pb'.fence = pb.fence /\ pb'.cur = Ahead(pb.cur, 1) /\ Base' = Base /\ Begun' = Begun
      /\ pb'.op = [pb.op EXCEPT ![pb.cur] = "incr"]
  BY <1>0, PushRing
<1>3. /\ pb.cur \in Slots /\ pb.fence \in Slots /\ Base \in Slots
      /\ Pos(pb.cur) \in 0 .. Size - 1 /\ Size \in Nat /\ Len(queue) \in Nat
  BY <1>0, Positions, SizeAssumption
<1>4. Gap(Base', pb'.cur) = Pos(pb.cur) + 1
  <2>1. push_buffer_space(pb) > 0
    <3>1. slots_free \in 0 .. Size - 1 /\ slots_free <= push_buffer_space(pb)
          /\ push_buffer_space(pb) \in 0 .. Size - 1
      BY <1>0, <1>3, GapType DEF PushNeverFull, TypeOK, push_buffer_space
    <3>2. push_buffer_space(pb) > 0 \/ slots_free > 0
      BY <1>0, PushRing
    <3> QED BY <1>3, <3>1, <3>2
  <2>2. push_buffer_space(pb) = Size - 1 - Pos(pb.cur)
    BY <1>3, GapFence DEF Base, Pos, push_buffer_space
  <2>3. Pos(pb.cur) + 1 < Size
    BY <1>3, <2>1, <2>2
  <2> QED BY <1>2, <1>3, <2>3, GapPlus DEF Pos
<1>5. \A i \in 1 .. Len(queue) + 1 : Front(i)' = Front(i) /\ Gap(Base', Front(i)') = Pos(Front(i))
  BY <1>1, <1>2 DEF Front, Pos
<1>6. Sub(max_val', hw') = Sub(max_val, hw) /\ Sub(max_val, hw) \in 0 .. M - 1 /\ todo \in Int
      /\ Half \in Nat
  BY <1>0, <1>1, Numbers DEF hwVars
<1>7. Done' = Done /\ Done \in Int
  <2>1. Done' = Gap(Base', pb'.cur) + todo' - Sub(max_val', hw')
    BY DEF Done, Pos
  <2> QED BY <1>1, <1>3, <1>4, <1>6, <2>1 DEF Done, M
<1>8. Incrs'
  <2>1. ASSUME NEW k \in Slots, Done <= Gap(Base', k), Gap(Base', k) < Pos(pb.cur) + 1
        PROVE  pb'.op[k] = "incr"
    <3>1. pb.op \in [Slots -> {"noop", "incr"}]
      BY <1>0, PbFields DEF TypeOK
    <3>2. CASE k = pb.cur
      BY <1>2, <3>1, <3>2
    <3>3. CASE k # pb.cur
      <4>1. Pos(k) \in Int /\ Pos(k) # Pos(pb.cur) /\ Gap(Base', k) = Pos(k)
        BY <1>0, <1>2, <1>3, <3>3, Positions DEF Pos
      <4>2. pb.op[k] = "incr"
        BY <1>0, <1>3, <2>1, <4>1 DEF Incrs
      <4> QED BY <1>2, <3>1, <3>3, <4>2
    <3> QED BY <3>2, <3>3
  <2> QED BY <1>4, <1>7, <2>1 DEF Incrs, Pos
<1>9. Ledger'
  <2>1. ASSUME NEW i \in 1 .. Len(queue)
        PROVE  Sub(max_val', queue'[i].syncpt_end) = Gap(Base', pb'.cur) + todo' - Gap(Base', Front(i + 1)')
    <3>1. i + 1 \in 1 .. Len(queue) + 1
      BY <1>3
    <3>2. Gap(Base', Front(i + 1)') = Pos(Front(i + 1)) /\ Pos(Front(i + 1)) \in 0 .. Pos(pb.cur)
      BY <1>0, <1>5, <3>1, Numbers
    <3>3. Sub(max_val, queue[i].syncpt_end) = Pos(pb.cur) + todo - Pos(Front(i + 1))
      BY <1>0 DEF Ledger
    <3>4. Sub(max_val', queue'[i].syncpt_end) = Sub(max_val, queue[i].syncpt_end)
      BY <1>1
    <3> QED BY <1>1, <1>3, <1>4, <1>6, <3>2, <3>3, <3>4
  <2>2. Done' \in 0 .. Gap(Base', pb'.cur) /\ Sub(max_val', hw') < Half
    BY <1>0, <1>3, <1>4, <1>6, <1>7 DEF Ledger
  <2> QED BY <1>1, <2>1, <2>2 DEF Ledger, Pos
<1>10. Fetched'
  <2>1. Pos(get) \in Int /\ Pos(last_put) \in Int
    BY <1>0, Positions
  <2>2. Gap(Base', get') = Pos(get) /\ pipe' = pipe /\ hw' = hw
        /\ (Gap(Base', last_put') = Pos(last_put) \/ Gap(Base', last_put') = Pos(pb.cur))
    BY <1>1, <1>2 DEF hwVars, Pos
  <2>3. running' /\ ~lost' =>
          /\ Gap(Base', get') = Done' + pipe' /\ Gap(Base', get') <= Gap(Base', last_put')
          /\ Gap(Base', last_put') <= Gap(Base', pb'.cur)
    BY <1>0, <1>1, <1>3, <1>4, <1>7, <2>1, <2>2 DEF Fetched
  <2> QED BY <1>0, <1>1, <2>2, <2>3 DEF Fetched, Pos
<1>11. HeadWasLate'
  BY <1>0, <1>1, <1>5, <1>7, HeadKept
<1> QED BY <1>8, <1>9, <1>10, <1>11 DEF CountInv

(* The submitted job enters the queue with its fence at cur. *)
LEMMA CountEnd ==
    ASSUME ChannelInv, CountInv, NEW c \in Clients, End(c)
    PROVE  CountInv'
<1>0. TypeOK /\ RingInv /\ SubmitInv /\ WaitTypes /\ Ledger /\ Incrs /\ Fetched /\ HeadWasLate
      /\ get \in Slots /\ last_put \in Slots
  BY DEF ChannelInv, CountInv, TypeOK
<1>1. /\ UNCHANGED <<hwVars, max_val, pb, running, todo, late, lost, work>> /\ todo = 0
      /\ last_put' = pb.cur
  BY DEF End, cdma_kick
<1>2. /\ Len(queue') = Len(queue) + 1 /\ Len(queue) \in Nat
      /\ \A i \in 1 .. Len(queue) : queue'[i] = queue[i]
      /\ queue'[Len(queue) + 1] = SubmittedJob(c)
  BY <1>0, EndQueue, Positions
<1>3. Submitting /\ ~Submitting'
  <2>1. \A d \in Clients : pc'[d] \notin SubmitPcs
    BY <1>0 DEF End, Goto, WaitTypes, SubmitInv, SubmitPcs
  <2> QED BY <2>1 DEF End, Submitting, SubmitPcs
<1>4. Base' = Base /\ Begun = first_get /\ Begun' = pb.cur
  BY <1>1, <1>3 DEF Base, Begun
<1>5. SubmittedJob(c).first_get = first_get /\ SubmittedJob(c).syncpt_end = max_val
  BY <1>0, <1>3 DEF SubmittedJob, SubmitInv
<1>6. \A i \in 1 .. Len(queue) + 1 : Front(i)' = Front(i) /\ Gap(Base', Front(i)') = Pos(Front(i))
  BY <1>2, <1>4, <1>5 DEF Front, Pos
<1>7. \A k \in Nat : k = Len(queue) + 2 => Front(k)' = pb.cur
  BY <1>2, <1>4 DEF Front
<1>8. Gap(Base', pb'.cur) = Pos(pb.cur) /\ Done' = Done
  BY <1>1, <1>4 DEF Done, Pos, hwVars
<1>9. Incrs'
  BY <1>0, <1>1, <1>4, <1>8 DEF Incrs, Pos
<1>10. Ledger'
  <2>1. ASSUME NEW i \in 1 .. Len(queue')
        PROVE  Sub(max_val', queue'[i].syncpt_end) = Gap(Base', pb'.cur) + todo' - Gap(Base', Front(i + 1)')
    <3>1. CASE i \in 1 .. Len(queue)
      <4>1. i + 1 \in 1 .. Len(queue) + 1
        BY <1>2, <3>1
      <4>2. Gap(Base', Front(i + 1)') = Pos(Front(i + 1))
        BY <1>6, <4>1
      <4> QED BY <1>0, <1>1, <1>2, <1>8, <3>1, <4>2 DEF Ledger
    <3>2. CASE i = Len(queue) + 1
      <4>1. i + 1 = Len(queue) + 2 /\ i + 1 \in Nat
        BY <1>2, <3>2
      <4>2. Gap(Base', Front(i + 1)') = Pos(pb.cur)
        BY <1>4, <1>7, <4>1 DEF Pos
      <4>3. queue'[i].syncpt_end = max_val
        BY <1>2, <1>5, <3>2
      <4>4. Sub(max_val, max_val) = 0 /\ Pos(pb.cur) \in Int
        BY <1>0, Numbers, SubSelf
      <4> QED BY <1>1, <1>8, <4>2, <4>3, <4>4
    <3> QED BY <1>2, <3>1, <3>2
  <2>2. Done' \in 0 .. Gap(Base', pb'.cur) /\ Sub(max_val', hw') < Half
    BY <1>0, <1>1, <1>8 DEF Ledger, hwVars
  <2> QED BY <2>1, <2>2 DEF Ledger, Pos
<1>11. Fetched'
  <2>1. Pos(get) \in Int /\ Pos(last_put) \in Int /\ Pos(pb.cur) \in Int
    BY <1>0, Positions
  <2>2. Gap(Base', get') = Pos(get) /\ pipe' = pipe /\ hw' = hw
        /\ Gap(Base', last_put') = Pos(pb.cur)
    BY <1>1, <1>4 DEF hwVars, Pos
  <2>3. running' /\ ~lost' =>
          /\ Gap(Base', get') = Done' + pipe' /\ Gap(Base', get') <= Gap(Base', last_put')
          /\ Gap(Base', last_put') <= Gap(Base', pb'.cur)
    BY <1>0, <1>1, <1>8, <2>1, <2>2 DEF Fetched
  <2> QED BY <1>0, <1>1, <2>2, <2>3 DEF Fetched, Pos
<1>12. HeadWasLate'
  BY <1>0, <1>1, <1>6, <1>8, HeadKept
<1> QED BY <1>9, <1>10, <1>11, <1>12 DEF CountInv

-----------------------------------------------------------------------------
(* Stopping the channel *)

(* The DMA is stopped when the queue is empty, and then all is done. *)
LEMMA CountSuspend ==
    ASSUME ChannelInv, CountInv, Suspend
    PROVE  CountInv'
<1>0. TypeOK /\ RingInv /\ Ledger /\ Incrs /\ Fetched /\ HeadWasLate
  BY DEF ChannelInv, CountInv
<1>1. UNCHANGED <<hwVars, max_val, pb, last_put, queue, slots_used, first_get, todo, late, lost, work, pc>>
      /\ running' = FALSE /\ queue = <<>> /\ ~Submitting
  BY DEF Suspend, submitVars, timeoutVars, Submitting, SubmitPcs
<1>2. hw = max_val /\ pipe = 0
  BY <1>1, EmptyRing
<1>3. Begun' = Begun
  BY <1>1 DEF Begun, Submitting
<1>4. /\ Ledger' /\ Incrs' /\ Done' = Done
      /\ \A i \in 1 .. Len(queue) + 1 : Front(i)' = Front(i)
      /\ \A x \in Slots : Gap(Base', x) = Pos(x)
  BY <1>0, <1>1, <1>3, CountKept DEF hwVars
<1>5. HeadWasLate'
  BY <1>0, <1>1, <1>4, HeadKept, Positions
<1>6. Fetched'
  BY <1>1, <1>2 DEF Fetched, hwVars
<1> QED BY <1>4, <1>5, <1>6 DEF CountInv

LEMMA CountClose ==
    ASSUME ChannelInv, CountInv, NEW c \in Clients, Close(c)
    PROVE  CountInv'
<1>0. TypeOK /\ RingInv /\ SubmitInv /\ WaitTypes /\ CloserAlone /\ Ledger /\ Fetched /\ HeadWasLate
  BY DEF ChannelInv, CountInv
<1>1. /\ UNCHANGED <<hwVars, max_val, queue, todo, late, lost, work>>
      /\ running' = FALSE /\ pb' = push_buffer_init("noop") /\ work # "stopping"
      /\ Closing(c) /\ (~running \/ queue = <<>>)
  BY DEF Close, submitVars, LockFree
<1>2. queue = <<>>
  BY <1>0, <1>1 DEF SubmitInv
<1>3. ~Submitting
  BY <1>0, <1>1, ClosingNobodySubmits
<1>4. hw = max_val /\ pipe = 0 /\ todo = 0
  BY <1>2, <1>3, EmptyRing
<1>5. pb'.cur = 0 /\ Base' = 0 /\ 0 \in Slots
  BY <1>1, SizeAssumption DEF push_buffer_init, Base, Ahead, Slots
<1>6. Gap(Base', pb'.cur) = 0
  BY <1>5, GapZero
<1>7. Sub(max_val', hw') = 0
  BY <1>0, <1>1, <1>4, Numbers, SubSelf DEF hwVars
<1>8. Done' = 0
  BY <1>1, <1>4, <1>6, <1>7 DEF Done, Pos
<1>9. Ledger'
  <2>1. 1 .. Len(queue') = {}
    BY <1>1, <1>2
  <2> QED BY <1>6, <1>7, <1>8, <2>1, HalfAssumption DEF Ledger, Pos
<1>10. Incrs'
  <2>1. \A k \in Slots : Gap(Base', k) \in 0 .. Size - 1
    BY <1>5, GapType
  <2>2. \A k \in Slots : ~(Done' <= Gap(Base', k) /\ Gap(Base', k) < Gap(Base', pb'.cur))
    BY <1>6, <1>8, <2>1
  <2> QED BY <2>2 DEF Incrs, Pos
<1>11. Fetched'
  BY <1>1, <1>4 DEF Fetched, hwVars
<1>12. HeadWasLate'
  BY <1>0, <1>1 DEF HeadWasLate
<1> QED BY <1>9, <1>10, <1>11, <1>12 DEF CountInv

-----------------------------------------------------------------------------
(* The DMA, the module and the update *)

(* What is fetched is an increment, and goes into the pipe. *)
LEMMA CountFetch ==
    ASSUME ChannelInv, CountInv, DmaFetch
    PROVE  CountInv'
<1>0. TypeOK /\ RingInv /\ Ledger /\ Incrs /\ Fetched /\ HeadWasLate
      /\ get \in Slots /\ last_put \in Slots
  BY DEF ChannelInv, CountInv, TypeOK
<1>1. /\ UNCHANGED <<hw, max_val, pb, last_put, queue, running, slots_used, first_get, todo, late,
                     lost, work, pc>>
      /\ running /\ ~lost /\ get # last_put /\ get' = Ahead(get, 1)
  BY DEF DmaFetch, submitVars, timeoutVars
<1>2. Begun' = Begun
  BY <1>1 DEF Begun, Submitting
<1>3. /\ Ledger' /\ Incrs' /\ Done' = Done /\ Pos(pb.cur)' = Pos(pb.cur)
      /\ \A i \in 1 .. Len(queue) + 1 : Front(i)' = Front(i)
      /\ \A x \in Slots : Gap(Base', x) = Pos(x)
  BY <1>0, <1>1, <1>2, CountKept
<1>4. HeadWasLate'
  BY <1>0, <1>1, <1>3, HeadKept, Positions
<1>5. /\ Pos(get) \in 0 .. Size - 1 /\ Pos(last_put) \in 0 .. Size - 1 /\ Pos(get) # Pos(last_put)
      /\ Pos(pb.cur) \in 0 .. Size - 1 /\ Size \in Nat /\ pipe \in Nat /\ Done \in Nat
      /\ Base \in Slots
  <2>1. Done \in 0 .. Pos(pb.cur)
    BY <1>0 DEF Ledger
  <2> QED BY <1>0, <1>1, <2>1, Positions, Numbers
<1>6. Pos(get) = Done + pipe /\ Pos(get) <= Pos(last_put) /\ Pos(last_put) <= Pos(pb.cur)
  BY <1>0, <1>1 DEF Fetched
<1>7. pb.op[get] = "incr"
  <2>1. Done <= Pos(get) /\ Pos(get) < Pos(pb.cur)
    BY <1>5, <1>6
  <2> QED BY <1>0, <2>1 DEF Incrs
<1>8. pipe' = pipe + 1
  BY <1>7 DEF DmaFetch
<1>9. get' \in Slots /\ Gap(Base, get') = Pos(get) + 1
  <2>1. Gap(Base, get) + 1 < Size
    BY <1>5, <1>6 DEF Pos
  <2> QED BY <1>0, <1>1, <1>5, <2>1, GapPlus DEF Pos
<1>10. Gap(Base', get') = Pos(get) + 1 /\ Gap(Base', last_put') = Pos(last_put)
  BY <1>0, <1>1, <1>3, <1>9 DEF Pos
<1>11. Fetched'
  <2>1. /\ Gap(Base', get') = Done' + pipe' /\ Gap(Base', get') <= Gap(Base', last_put')
        /\ Gap(Base', last_put') <= Pos(pb.cur)'
    BY <1>3, <1>5, <1>6, <1>8, <1>10
  <2> QED BY <1>1, <2>1 DEF Fetched, Pos
<1> QED BY <1>3, <1>4, <1>11 DEF CountInv

(* The module's work: the counter moves one slot on. *)
LEMMA CountIncr ==
    ASSUME ChannelInv, CountInv, EngineIncr
    PROVE  CountInv' /\ hw # max_val
<1>0. TypeOK /\ RingInv /\ Ledger /\ Incrs /\ Fetched /\ HeadWasLate
      /\ get \in Slots /\ last_put \in Slots
  BY DEF ChannelInv, CountInv, TypeOK
<1>1. /\ UNCHANGED <<get, max_val, pb, last_put, queue, running, slots_used, first_get, todo,
                     lost, work, pc>>
      /\ pipe > 0 /\ pipe' = pipe - 1 /\ hw' = Add(hw, 1)
      /\ late' = IF work = "stopping" THEN late + 1 ELSE late
  BY DEF EngineIncr, submitVars
<1>2. running /\ ~lost
  BY <1>0, <1>1 DEF Fetched, TypeOK
<1>3. Begun' = Begun
  BY <1>1 DEF Begun, Submitting
<1>4. /\ \A i \in 1 .. Len(queue) + 1 : Front(i)' = Front(i)
      /\ \A x \in Slots : Gap(Base', x) = Pos(x)
  BY <1>0, <1>1, <1>3, RingKept
<1>5. /\ Pos(get) \in 0 .. Size - 1 /\ Pos(last_put) \in 0 .. Size - 1
      /\ Pos(pb.cur) \in 0 .. Size - 1 /\ Size \in Nat /\ pipe \in Nat /\ Done \in 0 .. Pos(pb.cur)
      /\ todo \in Nat /\ Sub(max_val, hw) \in 0 .. M - 1 /\ max_val \in Word /\ hw \in Word
      /\ late \in Nat /\ pb.cur \in Slots /\ Half \in Nat /\ Len(queue) \in Nat
  <2>1. Done \in 0 .. Pos(pb.cur)
    BY <1>0 DEF Ledger
  <2> QED BY <1>0, <2>1, Positions, Numbers
<1>6. Pos(get) = Done + pipe /\ Pos(get) <= Pos(last_put) /\ Pos(last_put) <= Pos(pb.cur)
  BY <1>0, <1>2 DEF Fetched
<1>7. Done = Pos(pb.cur) + todo - Sub(max_val, hw)
  BY DEF Done
<1>8. Sub(max_val, hw) > 0
  BY <1>1, <1>5, <1>6, <1>7 DEF M
<1>9. Sub(max_val', hw') = Sub(max_val, hw) - 1 /\ hw # max_val
  BY <1>1, <1>5, <1>8, WorkArith, SubSelf
<1>10. Gap(Base', pb'.cur) = Pos(pb.cur)
  BY <1>1, <1>4, <1>5
<1>11. Done' = Done + 1
  <2>1. Done' = Gap(Base', pb'.cur) + todo' - Sub(max_val', hw')
    BY DEF Done, Pos
  <2> QED BY <1>1, <1>5, <1>7, <1>9, <1>10, <2>1 DEF M
<1>12. Incrs'
  <2>1. ASSUME NEW k \in Slots, Done + 1 <= Gap(Base', k), Gap(Base', k) < Pos(pb.cur)
        PROVE  pb'.op[k] = "incr"
    <3>1. Done <= Pos(k) /\ Pos(k) < Pos(pb.cur)
      BY <1>0, <1>4, <1>5, <2>1, Positions
    <3> QED BY <1>0, <1>1, <3>1 DEF Incrs
  <2> QED BY <1>10, <1>11, <2>1 DEF Incrs, Pos
<1>13. Ledger'
  <2>1. ASSUME NEW i \in 1 .. Len(queue)
        PROVE  Sub(max_val', queue'[i].syncpt_end) = Gap(Base', pb'.cur) + todo' - Gap(Base', Front(i + 1)')
    <3>1. i + 1 \in 1 .. Len(queue) + 1 /\ Front(i + 1) \in Slots
      BY <1>0, Positions
    <3>2. Gap(Base', Front(i + 1)') = Pos(Front(i + 1))
      BY <1>4, <3>1
    <3> QED BY <1>0, <1>1, <1>10, <3>2 DEF Ledger
  <2>2. Done' \in 0 .. Gap(Base', pb'.cur) /\ Sub(max_val', hw') < Half
    <3>1. Sub(max_val, hw) < Half
      BY <1>0 DEF Ledger
    <3> QED BY <1>1, <1>5, <1>6, <1>9, <1>10, <1>11, <3>1 DEF M
  <2> QED BY <1>1, <2>1, <2>2 DEF Ledger, Pos
<1>14. Fetched'
  <2>1. Gap(Base', get') = Pos(get) /\ Gap(Base', last_put') = Pos(last_put)
    BY <1>0, <1>1, <1>4
  <2>2. /\ Gap(Base', get') = Done' + pipe' /\ Gap(Base', get') <= Gap(Base', last_put')
        /\ Gap(Base', last_put') <= Gap(Base', pb'.cur)
    BY <1>1, <1>5, <1>6, <1>10, <1>11, <2>1
  <2> QED BY <1>1, <1>2, <2>2 DEF Fetched, Pos
<1>15. HeadWasLate'
  <2>1. CASE work = "stopping"
    <3>1. 2 \in 1 .. Len(queue) + 1 /\ Front(2) \in Slots
      BY <2>1, StoppingHasHead
    <3>2. Gap(Base', Front(2)') = Pos(Front(2))
      BY <1>4, <3>1
    <3>3. Done - late < Pos(Front(2)) /\ late' = late + 1
      BY <1>0, <1>1, <2>1 DEF HeadWasLate
    <3>4. Done' - late' = Done - late
      BY <1>5, <1>11, <3>3
    <3> QED BY <1>1, <2>1, <3>2, <3>3, <3>4 DEF HeadWasLate, Pos
  <2>2. CASE work # "stopping"
    BY <1>0, <1>1, <2>2 DEF HeadWasLate
  <2> QED BY <2>1, <2>2
<1> QED BY <1>9, <1>12, <1>13, <1>14, <1>15 DEF CountInv

(* Only finished jobs are popped, so that Done moves with the oldest slot. *)
LEMMA CountUpdate ==
    ASSUME ChannelInv, CountInv, NEW n \in 0 .. Len(queue), Update(n)
    PROVE  CountInv'
<1> DEFINE D == Pos(Front(n + 1))
<1>0. TypeOK /\ RingInv /\ Ledger /\ Incrs /\ Fetched /\ HeadWasLate
      /\ get \in Slots /\ last_put \in Slots
  BY DEF ChannelInv, CountInv, TypeOK
<1>1. UNCHANGED <<hwVars, max_val, last_put, running, todo, late, lost, work>>
      /\ work # "stopping" /\ n <= Finished
  BY DEF Update, submitVars, LockFree
<1>2. /\ Base' = Front(n + 1) /\ pb'.cur = pb.cur /\ pb'.op = pb.op
      /\ \A i \in 1 .. Len(queue) - n + 1 : Front(i)' = Front(i + n)
      /\ \A x \in Slots : D <= Pos(x) => Gap(Base', x) = Pos(x) - D
  BY <1>0, UpdateRing
<1>3. /\ Len(queue') = Len(queue) - n
      /\ \A i \in 1 .. Len(queue) - n : queue'[i] = queue[i + n]
  BY <1>0, UpdateQueue
<1>4. /\ Len(queue) \in Nat /\ n \in Nat /\ n + 1 \in 1 .. Len(queue) + 1 /\ D \in 0 .. Pos(pb.cur)
      /\ Pos(pb.cur) \in 0 .. Size - 1 /\ Size \in Nat /\ todo \in Nat
      /\ Sub(max_val, hw) \in 0 .. M - 1 /\ Half \in Nat /\ pb.cur \in Slots /\ Base \in Slots
      /\ Front(n + 1) \in Slots
  <2>1. Len(queue) \in Nat /\ n \in Nat /\ n + 1 \in 1 .. Len(queue) + 1
    BY <1>0, Positions
  <2>2. D \in 0 .. Pos(pb.cur) /\ Front(n + 1) \in Slots
    BY <1>0, <2>1, Numbers, Positions
  <2>3. /\ Pos(pb.cur) \in 0 .. Size - 1 /\ Size \in Nat /\ todo \in Nat
        /\ Sub(max_val, hw) \in 0 .. M - 1 /\ Half \in Nat /\ pb.cur \in Slots /\ Base \in Slots
    BY <1>0, Numbers, Positions
  <2> QED BY <2>1, <2>2, <2>3
<1>5. Done \in 0 .. Pos(pb.cur) /\ Done = Pos(pb.cur) + todo - Sub(max_val, hw)
  BY <1>0 DEF Ledger, Done
<1>6. D <= Done
  <2>1. CASE n = 0
    <3>1. D = 0
      BY <1>0, <1>4, <2>1, GapZero DEF RingInv, Pos
    <3> QED BY <1>5, <3>1
  <2>2. CASE n # 0
    <3>1. n \in 1 .. Len(queue) /\ n \in 1 .. Finished
      BY <1>0, <1>1, <1>4, <2>2, FinishedIs
    <3>2. Expired(queue[n])
      BY <1>0, <3>1, FinishedIs
    <3> QED BY <1>0, <3>1, <3>2, ReachedIs
  <2> QED BY <2>1, <2>2
<1> HIDE DEF D
<1>7. Gap(Base', pb'.cur) = Pos(pb.cur) - D
  BY <1>2, <1>4
<1>8. Done' = Done - D
  <2>1. Done' = Gap(Base', pb'.cur) + todo' - Sub(max_val', hw')
    BY DEF Done, Pos
  <2> QED BY <1>1, <1>4, <1>5, <1>7, <2>1 DEF hwVars, M
<1>9. Incrs'
  <2>1. ASSUME NEW k \in Slots, Done - D <= Gap(Base', k), Gap(Base', k) < Pos(pb.cur) - D
        PROVE  pb'.op[k] = "incr"
    <3>1. Pos(k) \in 0 .. Size - 1
      BY <1>0, Positions
    <3>2. Gap(Base', k) = IF D <= Pos(k) THEN Pos(k) - D ELSE Pos(k) - D + Size
      BY <1>2, <1>4, GapFrom DEF Pos, D
    <3>3. Done <= Pos(k) /\ Pos(k) < Pos(pb.cur)
      <4>1. PICK x \in 0 .. Size - 1 : x = Pos(k)
        BY <3>1
      <4>2. PICK c \in 0 .. Size - 1 : c = Pos(pb.cur)
        BY <1>4
      <4>3. PICK o \in 0 .. c : o = Done
        BY <1>5, <4>2
      <4>4. PICK a \in 0 .. c : a = D
        BY <1>4, <4>2
      <4>5. PICK g \in Int : g = Gap(Base', k)
        BY <1>2, <1>4, GapType
      <4>6. g = IF a <= x THEN x - a ELSE x - a + Size
        BY <3>2, <4>1, <4>4, <4>5
      <4>7. o - a <= g /\ g < c - a
        BY <2>1, <4>2, <4>3, <4>4, <4>5
      <4>8. o <= x /\ x < c
        BY <1>4, <4>6, <4>7
      <4> QED BY <4>1, <4>2, <4>3, <4>8
    <3> QED BY <1>0, <1>2, <3>3 DEF Incrs
  <2> QED BY <1>7, <1>8, <2>1 DEF Incrs, Pos
<1>10. Ledger'
  <2>1. ASSUME NEW i \in 1 .. Len(queue')
        PROVE  Sub(max_val', queue'[i].syncpt_end) = Gap(Base', pb'.cur) + todo' - Gap(Base', Front(i + 1)')
    <3>1. /\ i + 1 \in 1 .. Len(queue) - n + 1 /\ (i + 1) + n = (i + n) + 1 /\ i + n \in 1 .. Len(queue)
          /\ (i + n) + 1 \in 1 .. Len(queue) + 1 /\ i \in 1 .. Len(queue) - n
          /\ (i + n) + 1 \in n + 1 .. Len(queue) + 1
      <4>1. PICK L \in Nat : L = Len(queue)
        BY <1>4
      <4>2. i \in 1 .. L - n /\ n \in 0 .. L
        BY <1>3, <4>1
      <4>3. /\ i + 1 \in 1 .. L - n + 1 /\ (i + 1) + n = (i + n) + 1 /\ i + n \in 1 .. L
            /\ (i + n) + 1 \in 1 .. L + 1 /\ i \in 1 .. L - n /\ (i + n) + 1 \in n + 1 .. L + 1
        BY <4>2
      <4> QED BY <4>1, <4>3
    <3>2. Front(i + 1)' = Front((i + n) + 1)
      BY <1>2, <3>1
    <3>3. D <= Pos(Front((i + n) + 1)) /\ Pos(Front((i + n) + 1)) \in Nat
      <4>1. D + (((i + n) + 1) - (n + 1)) <= Pos(Front((i + n) + 1))
        BY <1>0, <1>4, <3>1, FrontsOrdered DEF D
      <4>2. Pos(Front((i + n) + 1)) \in 0 .. Pos(pb.cur)
        BY <1>0, <3>1, Numbers
      <4>3. ((i + n) + 1) - (n + 1) \in Nat
        BY <1>4, <3>1
      <4>4. PICK x \in Nat : x = Pos(Front((i + n) + 1))
        BY <1>4, <4>2
      <4>5. PICK y \in Nat : y = ((i + n) + 1) - (n + 1)
        BY <4>3
      <4>6. D + y <= x /\ D \in Nat
        BY <1>4, <4>1, <4>4, <4>5
      <4>7. D <= x
        BY <4>6
      <4> QED BY <4>4, <4>7
    <3>4. Gap(Base', Front(i + 1)') = Pos(Front((i + n) + 1)) - D
      BY <1>0, <1>2, <3>1, <3>2, <3>3, Positions
    <3>5. Sub(max_val, queue[i + n].syncpt_end) = Pos(pb.cur) + todo - Pos(Front((i + n) + 1))
      BY <1>0, <3>1 DEF Ledger
    <3>6. Sub(max_val', queue'[i].syncpt_end) = Sub(max_val, queue[i + n].syncpt_end)
      BY <1>1, <1>3, <3>1
    <3> QED BY <1>1, <1>4, <1>7, <3>3, <3>4, <3>5, <3>6
  <2>2. Done' \in 0 .. Gap(Base', pb'.cur) /\ Sub(max_val', hw') < Half
    BY <1>0, <1>1, <1>4, <1>5, <1>6, <1>7, <1>8 DEF Ledger, hwVars
  <2> QED BY <2>1, <2>2 DEF Ledger, Pos
<1>11. Fetched'
  <2>1. Pos(get) \in Int /\ Pos(last_put) \in Int /\ pipe \in Nat /\ pipe' = pipe /\ hw' = hw
        /\ get' = get
    BY <1>0, <1>1, Positions, Numbers DEF hwVars
  <2>2. ASSUME running, ~lost
        PROVE  /\ Gap(Base', get') = Done' + pipe' /\ Gap(Base', get') <= Gap(Base', last_put')
               /\ Gap(Base', last_put') <= Gap(Base', pb'.cur)
    <3>1. Pos(get) = Done + pipe /\ Pos(get) <= Pos(last_put) /\ Pos(last_put) <= Pos(pb.cur)
      BY <1>0, <2>2 DEF Fetched
    <3>2. D <= Pos(get) /\ D <= Pos(last_put)
      BY <1>4, <1>5, <1>6, <2>1, <3>1
    <3>3. Gap(Base', get') = Pos(get) - D /\ Gap(Base', last_put') = Pos(last_put) - D
      BY <1>0, <1>1, <1>2, <2>1, <3>2
    <3>4. pipe \in Nat /\ Done \in Nat /\ D \in Nat /\ Pos(pb.cur) \in Nat
      BY <1>4, <1>5, <2>1
    <3>5. Pos(get) - D = (Done - D) + pipe /\ Pos(get) - D <= Pos(last_put) - D
          /\ Pos(last_put) - D <= Pos(pb.cur) - D
      BY <2>1, <3>1, <3>4
    <3> QED BY <1>7, <1>8, <2>1, <3>3, <3>5
  <2> QED BY <1>0, <1>1, <2>1, <2>2 DEF Fetched, Pos
<1>12. HeadWasLate'
  BY <1>0, <1>1 DEF HeadWasLate
<1> QED BY <1>9, <1>10, <1>11, <1>12 DEF CountInv

-----------------------------------------------------------------------------
(* The teardown *)

(* The slots of job i are the positions from its front to the next. *)
LEMMA SlotsOfJob ==
    ASSUME TypeOK, RingInv, NEW i \in 1 .. Len(queue), NEW k \in Slots
    PROVE  k \in SlotsFrom(queue[i].first_get, queue[i].num_slots)
             <=> Pos(Front(i)) <= Pos(k) /\ Pos(k) < Pos(Front(i + 1))
<1> DEFINE P == Pos(Front(i))
           n == queue[i].num_slots
<1>1. Len(queue) \in Nat /\ i \in 1 .. Len(queue) + 1 /\ i + 1 \in 1 .. Len(queue) + 1
  BY Positions
<1>2. Pos(Front(i + 1)) = P + n
  BY DEF RingInv
<1>3. n \in Nat
  BY QueuedJob, CdmaAssumption
<1>4. P \in 0 .. Size - 1 /\ Pos(Front(i + 1)) \in 0 .. Size - 1 /\ Pos(k) \in 0 .. Size - 1
      /\ Front(i) \in Slots /\ Base \in Slots
  BY <1>1, Positions
<1>5. Gap(Front(i), k) = IF P <= Pos(k) THEN Pos(k) - P ELSE Pos(k) - P + Size
  BY <1>4, GapFrom DEF Pos
<1>6. Front(i) = queue[i].first_get
  BY <1>1 DEF Front
<1>7. k \in SlotsFrom(queue[i].first_get, n) <=> Gap(Front(i), k) < n
  BY <1>6 DEF SlotsFrom
<1> HIDE DEF P, n
<1>8. Gap(Front(i), k) < n <=> P <= Pos(k) /\ Pos(k) < P + n
  BY <1>2, <1>3, <1>4, <1>5, SizeAssumption
<1> QED BY <1>2, <1>7, <1>8 DEF P, n

(* A position between the fronts of two jobs is in a job between them. *)
LEMMA JobOfSlot ==
    ASSUME TypeOK, RingInv, NEW a \in 1 .. Len(queue) + 1, NEW b \in a .. Len(queue) + 1,
           NEW x \in Int, Pos(Front(a)) <= x, x < Pos(Front(b))
    PROVE  \E i \in a .. b - 1 : Pos(Front(i)) <= x /\ x < Pos(Front(i + 1))
<1> SUFFICES ASSUME ~\E i \in a .. b - 1 : Pos(Front(i)) <= x /\ x < Pos(Front(i + 1))
             PROVE  FALSE
  OBVIOUS
<1>1. Len(queue) \in Nat /\ \A i \in 1 .. Len(queue) + 1 : Pos(Front(i)) \in Int
  BY Positions
<1> DEFINE n == b - a
           S == {d \in 0 .. n : Pos(Front(a + d)) <= x}
<1>2. n \in Nat /\ a + n = b /\ a + 0 = a
  BY <1>1
<1>3. 0 \in S
  BY <1>2
<1>4. ASSUME NEW d \in 0 .. n - 1, d \in S PROVE d + 1 \in S
  <2>1. a + d \in a .. b - 1 /\ d + 1 \in 0 .. n /\ a + (d + 1) = (a + d) + 1
        /\ (a + d) + 1 \in 1 .. Len(queue) + 1
    BY <1>1, <1>2
  <2>2. Pos(Front(a + d)) <= x
    BY <1>4
  <2>3. ~(x < Pos(Front((a + d) + 1)))
    BY <2>1, <2>2
  <2>4. Pos(Front(a + (d + 1))) <= x
    BY <1>1, <2>1, <2>3
  <2> QED BY <2>1, <2>4
<1>5. \A d \in 0 .. n : d \in S
  <2> HIDE DEF S, n
  <2> QED BY <1>2, <1>3, <1>4, UpTo
<1>6. Pos(Front(b)) <= x
  <2>1. n \in 0 .. n
    BY <1>2
  <2>2. n \in S
    <3> HIDE DEF S, n
    <3> QED BY <1>5, <2>1
  <2>3. Pos(Front(a + n)) <= x
    BY <2>2
  <2> QED BY <1>2, <2>3
<1>7. Pos(Front(b)) \in Int
  BY <1>1
<1> QED BY <1>6, <1>7

(* What the teardown decides: the jobs it passes over are finished, those  *)
(* it cancels are the timed out client's, and no increment lies beyond.    *)
LEMMA TeardownReach ==
    ASSUME Prompt, ChannelInv, CountInv, work = "stopping", Rest # <<>>
    PROVE  /\ Skipped \in 0 .. Len(queue) - 1 /\ Cancelled \in 0 .. Len(queue) - Skipped
           /\ Skipped + Cancelled \in 1 .. Len(queue)
           /\ \A i \in 1 .. Skipped : Pos(Front(i + 1)) <= Done
           /\ \A i \in Skipped + 1 .. Skipped + Cancelled : queue[i].clientid = tclient
           /\ Done <= Pos(Front(Skipped + Cancelled + 1))
           /\ Cancelled = 0 => Done = Pos(Front(Skipped + 1))
           /\ Cancelled # 0 => Rest[Cancelled] = queue[Skipped + Cancelled]
           /\ Rest[1] = queue[Skipped + 1]
<1>0. TypeOK /\ RingInv /\ Ledger /\ HeadWasLate
  BY DEF ChannelInv, CountInv
<1>1. 1 \in 1 .. Len(queue) /\ 2 \in 1 .. Len(queue) + 1 /\ queue[1].clientid = tclient
  BY StoppingHasHead
<1>2. /\ Len(queue) \in Nat /\ Done \in Int /\ late \in 0 .. MaxLate /\ MaxLate \in Nat
      /\ \A i \in 1 .. Len(queue) + 1 : Pos(Front(i)) \in Nat
  <2>1. \A i \in 1 .. Len(queue) + 1 : Pos(Front(i)) \in 0 .. Size - 1
    BY <1>0, Positions
  <2> QED BY <1>0, <2>1, Numbers
<1>3. Done <= Pos(Front(2))
  <2>1. Done - late < Pos(Front(2)) /\ late \in 0 .. 1
    BY <1>0, <1>2 DEF HeadWasLate, Prompt
  <2> QED BY <1>1, <1>2, <2>1
<1>4. PICK s \in 0 .. Len(queue) - 1 : s = Skipped
  <2>1. Skipped \in 0 .. Len(queue) /\ Skipped # Len(queue)
    BY <1>0, SkippedIs, RestIs
  <2> QED BY <1>2, <2>1
<1>5. hw < queue[s + 1].syncpt_end /\ \A i \in 1 .. s : ~(hw < queue[i].syncpt_end)
  BY <1>0, <1>2, <1>4, SkippedIs
<1>6. ASSUME NEW i \in 1 .. s PROVE Pos(Front(i + 1)) <= Done
  <2> SUFFICES ASSUME ~(Pos(Front(i + 1)) <= Done) PROVE FALSE
    OBVIOUS
  <2>1. i \in 1 .. Len(queue) /\ s + 1 \in 1 .. Len(queue) /\ i + 1 \in 1 .. Len(queue) + 1
        /\ (s + 1) + 1 \in i + 1 .. Len(queue) + 1 /\ ((s + 1) + 1) - (i + 1) >= 1
        /\ (s + 1) + 1 \in 1 .. Len(queue) + 1
    BY <1>2
  <2> DEFINE a == queue[i].syncpt_end
             b == queue[s + 1].syncpt_end
  <2>2. a \in Word /\ b \in Word /\ max_val \in Word /\ hw \in Word
    BY <1>0, <2>1, QueuedJob DEF TypeOK
  <2>3. Pos(Front(i + 1)) + (((s + 1) + 1) - (i + 1)) <= Pos(Front((s + 1) + 1))
    BY <1>0, <2>1, FrontsOrdered
  <2>4. Pos(Front(i + 1)) < Pos(Front((s + 1) + 1))
    BY <1>2, <2>1, <2>3
  <2>5. Sub(max_val, a) = Pos(pb.cur) + todo - Pos(Front(i + 1))
        /\ Sub(max_val, b) = Pos(pb.cur) + todo - Pos(Front((s + 1) + 1))
        /\ ~(Sub(max_val, a) >= Sub(max_val, hw))
    BY <1>0, <2>1, ReachedIs
  <2>6. Pos(pb.cur) \in Int /\ todo \in Int /\ Sub(max_val, hw) \in Int
    BY <1>0, Numbers, HalfAssumption DEF M
  <2>7. Sub(max_val, b) < Sub(max_val, a) /\ Sub(max_val, a) < Sub(max_val, hw)
    <3>1. Pos(Front(i + 1)) \in Int /\ Pos(Front((s + 1) + 1)) \in Int
      BY <1>2, <2>1
    <3>2. Sub(max_val, a) \in Int
      BY <2>5, <2>6, <3>1
    <3> HIDE DEF a, b
    <3> QED BY <2>4, <2>5, <2>6, <3>1, <3>2
  <2>8. ~(hw < a) /\ hw < b
    BY <1>5
  <2> HIDE DEF a, b
  <2> QED BY <2>2, <2>7, <2>8, WrapTogether
<1>7. s \in 0 .. 1 /\ (s = 1 => Done = Pos(Front(2)))
  <2>1. ASSUME s >= 2 PROVE FALSE
    <3>1. 2 \in 1 .. s /\ 2 + 1 = 3 /\ 3 \in 2 .. Len(queue) + 1 /\ 3 \in 1 .. Len(queue) + 1
      BY <1>2, <2>1
    <3>2. Pos(Front(3)) <= Done
      BY <1>6, <3>1
    <3>3. Pos(Front(2)) + (3 - 2) <= Pos(Front(3))
      BY <1>0, <1>1, <3>1, FrontsOrdered
    <3>4. Pos(Front(2)) \in Nat /\ Pos(Front(3)) \in Nat
      BY <1>1, <1>2, <3>1
    <3> QED BY <1>2, <1>3, <3>2, <3>3, <3>4
  <2>2. ASSUME s = 1 PROVE Pos(Front(2)) <= Done
    <3>1. 1 \in 1 .. s /\ 1 + 1 = 2
      BY <2>2
    <3> QED BY <1>6, <3>1
  <2>3. Pos(Front(2)) \in Nat
    BY <1>1, <1>2
  <2> QED BY <1>2, <1>3, <2>1, <2>2, <2>3
<1>8. PICK m \in 0 .. Len(queue) - s : m = Cancelled
  BY <1>0, <1>4, CancelledIs, RestIs
<1>9. Len(Rest) = Len(queue) - s /\ \A i \in 1 .. Len(queue) - s : Rest[i] = queue[s + i]
  BY <1>0, <1>4, RestIs
<1>10. /\ \A i \in 1 .. m : Rest[i].clientid = tclient
       /\ m < Len(Rest) => Rest[m + 1].clientid # tclient
  BY <1>0, <1>8, CancelledIs
<1>11. s = 0 => m >= 1
  <2> SUFFICES ASSUME s = 0, m = 0 PROVE FALSE
    BY <1>8, <1>2
  <2>1. m < Len(Rest) /\ m + 1 = 1 /\ 1 \in 1 .. Len(queue) - s /\ s + 1 = 1
    BY <1>1, <1>2, <1>9
  <2>2. Rest[1] = queue[1]
    BY <1>9, <2>1
  <2> QED BY <1>1, <1>10, <2>1, <2>2
<1>12. s + m \in 1 .. Len(queue)
  BY <1>2, <1>4, <1>7, <1>8, <1>11
<1>13. ASSUME NEW i \in s + 1 .. s + m PROVE queue[i].clientid = tclient
  <2>1. i - s \in 1 .. m /\ i - s \in 1 .. Len(queue) - s /\ s + (i - s) = i
    BY <1>2, <1>4, <1>8
  <2> QED BY <1>9, <1>10, <2>1
<1>14. Done <= Pos(Front((s + m) + 1))
  <2>1. (s + m) + 1 \in 2 .. Len(queue) + 1 /\ ((s + m) + 1) - 2 \in Nat
        /\ (s + m) + 1 \in 1 .. Len(queue) + 1
    BY <1>2, <1>4, <1>8, <1>12
  <2>2. Pos(Front(2)) + (((s + m) + 1) - 2) <= Pos(Front((s + m) + 1))
    BY <1>0, <1>1, <2>1, FrontsOrdered
  <2>3. Pos(Front(2)) \in Nat /\ Pos(Front((s + m) + 1)) \in Nat
    BY <1>1, <1>2, <2>1
  <2> QED BY <1>2, <1>3, <2>1, <2>2, <2>3
<1>15. m = 0 => Done = Pos(Front(s + 1))
  <2> SUFFICES ASSUME m = 0 PROVE Done = Pos(Front(s + 1))
    OBVIOUS
  <2>1. s = 1 /\ s + 1 = 2
    BY <1>7, <1>11
  <2> QED BY <1>7, <2>1
<1>16. m # 0 => Rest[m] = queue[s + m]
  BY <1>2, <1>4, <1>8, <1>9
<1>17. Rest[1] = queue[s + 1]
  BY <1>2, <1>4, <1>9
<1> QED BY <1>4, <1>6, <1>8, <1>12, <1>13, <1>14, <1>15, <1>16, <1>17

(* The slots of the cancelled jobs become NOOPs, the counter is moved to   *)
(* the last one's fence, and the DMA restarts at the first job after.      *)
LEMMA TeardownEffect ==
    ASSUME Prompt, ChannelInv, CountInv, Teardown, Rest # <<>>
    PROVE  /\ \A k \in Slots : pb'.op[k] = IF /\ Pos(Front(Skipped + 1)) <= Pos(k)
                                              /\ Pos(k) < Pos(Front(Skipped + Cancelled + 1))
                                           THEN "noop" ELSE pb.op[k]
           /\ hw' = IF Cancelled = 0 THEN hw ELSE queue[Skipped + Cancelled].syncpt_end
           /\ get' = FirstLive(pb'.op, Front(Skipped + 1)) /\ last_put' = pb.cur
<1>0. TypeOK /\ RingInv /\ Len(queue) \in Nat /\ work = "stopping"
      /\ pb \in PushBufferType({"noop", "incr"})
  BY Positions DEF ChannelInv, Teardown, TypeOK
<1>1. PICK s \in 0 .. Len(queue) - 1 : s = Skipped
  BY <1>0, TeardownReach
<1>2. PICK m \in 0 .. Len(queue) - s : m = Cancelled
  BY <1>0, <1>1, TeardownReach
<1>3. /\ s + m \in 1 .. Len(queue) /\ m # 0 => Rest[m] = queue[s + m]
      /\ Rest[1] = queue[s + 1]
  BY <1>0, <1>1, <1>2, TeardownReach
<1> DEFINE jobs == {s + i : i \in 1 .. m}
           noops == UNION {SlotsFrom(queue[i].first_get, queue[i].num_slots) : i \in jobs}
           op == [i \in Slots |-> IF i \in noops THEN "noop" ELSE pb.op[i]]
<1>4. /\ hw' = IF m = 0 THEN hw ELSE Rest[m].syncpt_end
      /\ pb' = [pb EXCEPT !.op = op]
      /\ cdma_timeout_restart(op, Rest[1].first_get)
  <2> DEFINE jobs0 == {Skipped + i : i \in 1 .. Cancelled}
             noops0 == UNION {SlotsFrom(queue[i].first_get, queue[i].num_slots) : i \in jobs0}
             op0 == [i \in Slots |-> IF i \in noops0 THEN "noop" ELSE pb.op[i]]
  <2>1. /\ hw' = IF Cancelled = 0 THEN hw ELSE Rest[Cancelled].syncpt_end
        /\ pb' = [pb EXCEPT !.op = op0]
        /\ cdma_timeout_restart(op0, Rest[1].first_get)
    BY DEF Teardown
  <2>2. jobs0 = jobs
    BY <1>1, <1>2
  <2>3. op0 = op
    <3> HIDE DEF jobs0, jobs
    <3> QED BY <2>2
  <2> HIDE DEF op0, op
  <2> QED BY <1>2, <2>1, <2>3
<1>5. pb'.op = op
  <2>1. pb = [cur |-> pb.cur, fence |-> pb.fence, op |-> pb.op, handle |-> pb.handle]
    BY <1>0, PbFields
  <2> HIDE DEF op
  <2> QED BY <1>0, <1>4, <2>1 DEF PushBufferType
<1>6. ASSUME NEW k \in Slots
      PROVE  k \in noops <=> Pos(Front(s + 1)) <= Pos(k) /\ Pos(k) < Pos(Front((s + m) + 1))
  <2>0. /\ s + 1 \in 1 .. Len(queue) + 1 /\ (s + m) + 1 \in s + 1 .. Len(queue) + 1
        /\ ((s + m) + 1) - 1 = s + m /\ (s + m) + 1 \in 1 .. Len(queue) + 1
    BY <1>0, <1>1, <1>2, <1>3
  <2>1. Pos(k) \in Int /\ \A i \in 1 .. Len(queue) + 1 : Pos(Front(i)) \in Int
    BY <1>0, Positions
  <2>2. ASSUME k \in noops
        PROVE  Pos(Front(s + 1)) <= Pos(k) /\ Pos(k) < Pos(Front((s + m) + 1))
    <3>1. PICK i \in s + 1 .. s + m : k \in SlotsFrom(queue[i].first_get, queue[i].num_slots)
      <4>1. PICK j \in 1 .. m : k \in SlotsFrom(queue[s + j].first_get, queue[s + j].num_slots)
        BY <2>2
      <4>2. s + j \in s + 1 .. s + m
        BY <1>0, <1>1, <1>2
      <4> QED BY <4>1, <4>2
    <3>2. i \in 1 .. Len(queue) /\ i \in s + 1 .. Len(queue) + 1 /\ i + 1 \in 1 .. Len(queue) + 1
          /\ (s + m) + 1 \in i + 1 .. Len(queue) + 1 /\ i - (s + 1) \in Nat
          /\ ((s + m) + 1) - (i + 1) \in Nat /\ i \in 1 .. Len(queue) + 1
      BY <1>0, <1>1, <1>2, <1>3
    <3>3. Pos(Front(i)) <= Pos(k) /\ Pos(k) < Pos(Front(i + 1))
      BY <1>0, <3>1, <3>2, SlotsOfJob
    <3>4. Pos(Front(s + 1)) + (i - (s + 1)) <= Pos(Front(i))
      BY <1>0, <2>0, <3>2, FrontsOrdered
    <3>5. Pos(Front(i + 1)) + (((s + m) + 1) - (i + 1)) <= Pos(Front((s + m) + 1))
      BY <1>0, <2>0, <3>2, FrontsOrdered
    <3>6. /\ Pos(Front(s + 1)) \in Int /\ Pos(Front(i)) \in Int /\ Pos(Front(i + 1)) \in Int
          /\ Pos(Front((s + m) + 1)) \in Int
      BY <2>0, <2>1, <3>2
    <3> QED BY <2>1, <3>2, <3>3, <3>4, <3>5, <3>6
  <2>3. ASSUME Pos(Front(s + 1)) <= Pos(k), Pos(k) < Pos(Front((s + m) + 1))
        PROVE  k \in noops
    <3>1. PICK i \in s + 1 .. ((s + m) + 1) - 1 : Pos(Front(i)) <= Pos(k) /\ Pos(k) < Pos(Front(i + 1))
      BY <1>0, <2>0, <2>1, <2>3, JobOfSlot
    <3>2. i \in 1 .. Len(queue) /\ i - s \in 1 .. m /\ s + (i - s) = i
      BY <1>0, <1>1, <1>2, <1>3
    <3>3. k \in SlotsFrom(queue[i].first_get, queue[i].num_slots)
      BY <1>0, <3>1, <3>2, SlotsOfJob
    <3>4. i \in jobs
      BY <3>2
    <3> QED BY <3>3, <3>4
  <2> QED BY <2>2, <2>3
<1>7. \A k \in Slots : op[k] = IF Pos(Front(s + 1)) <= Pos(k) /\ Pos(k) < Pos(Front((s + m) + 1))
                               THEN "noop" ELSE pb.op[k]
  <2> HIDE DEF noops
  <2> QED BY <1>6
<1>8. Front(s + 1) = Rest[1].first_get
  BY <1>0, <1>1, <1>3 DEF Front
<1> HIDE DEF op
<1>9. last_put' = pb.cur /\ get' = FirstLive(op, Front(s + 1))
  BY <1>4, <1>8 DEF cdma_timeout_restart, Prompt
<1>10. hw' = IF m = 0 THEN hw ELSE queue[s + m].syncpt_end
  BY <1>3, <1>4
<1> QED BY <1>1, <1>2, <1>5, <1>7, <1>9, <1>10

LEMMA CountTeardown ==
    ASSUME Prompt, ChannelInv, CountInv, Teardown
    PROVE  CountInv'
<1>0. TypeOK /\ RingInv /\ Ledger /\ Incrs /\ Fetched /\ HeadWasLate /\ work = "stopping"
  BY DEF ChannelInv, CountInv, Teardown
<1>1. /\ UNCHANGED <<max_val, running, slots_used, first_get, todo, pc>> /\ pipe' = 0
      /\ work' = "idle" /\ late' = 0 /\ lost' = (Rest = <<>>)
  BY DEF Teardown, submitVars, cdma_timeout_teardown_begin
<1>2. HeadWasLate'
  BY <1>1 DEF HeadWasLate
<1>3. Begun' = Begun
  <2>1. pb'.cur = pb.cur
    BY <1>0, TeardownPb
  <2> QED BY <1>1, <2>1 DEF Begun, Submitting
<1>4. /\ Len(queue') = Len(queue)
      /\ \A i \in 1 .. Len(queue) : /\ queue'[i].first_get = queue[i].first_get
                                    /\ queue'[i].num_slots = queue[i].num_slots
                                    /\ queue'[i].syncpt_end = queue[i].syncpt_end
      /\ pb'.cur = pb.cur /\ pb'.fence = pb.fence
  BY <1>0, TeardownQueue, TeardownPb
<1>5. running
  BY <1>0, StoppingHasHead
<1>6. CASE Rest = <<>>
  <2>1. UNCHANGED <<hw, pb, queue>> /\ lost'
    BY <1>1, <1>6 DEF Teardown
  <2>2. Ledger' /\ Incrs'
    BY <1>0, <1>1, <1>3, <2>1, CountKept
  <2>3. Fetched'
    BY <1>1, <1>5, <2>1 DEF Fetched
  <2> QED BY <1>2, <2>2, <2>3 DEF CountInv
<1>7. CASE Rest # <<>>
  <2>1. /\ \A i \in 1 .. Len(queue) + 1 : Front(i)' = Front(i)
        /\ \A x \in Slots : Gap(Base', x) = Pos(x)
    BY <1>0, <1>1, <1>3, <1>4, RingKept
  <2>2. PICK s \in 0 .. Len(queue) - 1 : s = Skipped
    BY <1>0, <1>7, TeardownReach
  <2>3. PICK K \in 1 .. Len(queue) : K = Skipped + Cancelled
    BY <1>0, <1>7, TeardownReach
  <2> DEFINE F == Front(K + 1)
             p == Pos(Front(s + 1))
             P == Pos(F)
             C == Pos(pb.cur)
  <2>4. /\ Len(queue) \in Nat /\ K + 1 \in 1 .. Len(queue) + 1 /\ s + 1 \in 1 .. Len(queue) + 1
        /\ K + 1 \in s + 1 .. Len(queue) + 1 /\ (K + 1) - (s + 1) \in Nat
    <3>1. Cancelled \in Nat /\ Skipped \in Nat /\ Len(queue) \in Nat
      BY <1>0, <1>7, TeardownReach, Positions
    <3> QED BY <2>2, <2>3, <3>1
  <2>5. /\ F \in Slots /\ pb.cur \in Slots /\ Base \in Slots /\ Front(s + 1) \in Slots
        /\ C \in 0 .. Size - 1 /\ Size \in Nat /\ P \in 0 .. C /\ p \in 0 .. C
        /\ todo \in Nat /\ Sub(max_val, hw) \in 0 .. M - 1 /\ Half \in Nat
    <3>1. F \in Slots /\ pb.cur \in Slots /\ Base \in Slots /\ Front(s + 1) \in Slots
      BY <1>0, <2>4, Positions
    <3>2. C \in 0 .. Size - 1 /\ Size \in Nat /\ todo \in Nat /\ Sub(max_val, hw) \in 0 .. M - 1
          /\ Half \in Nat
      BY <1>0, Numbers
    <3>3. P \in 0 .. C /\ p \in 0 .. C
      BY <1>0, <2>4, Numbers
    <3> QED BY <3>1, <3>2, <3>3
  <2>6. p <= P
    <3>1. p + ((K + 1) - (s + 1)) <= P
      BY <1>0, <2>4, FrontsOrdered
    <3> QED BY <2>4, <2>5, <3>1
  <2>7. Done \in 0 .. C /\ Done = C + todo - Sub(max_val, hw) /\ Sub(max_val, hw) < Half
    BY <1>0 DEF Ledger, Done
  <2>8. Done <= P
    <3>1. Done <= Pos(Front((Skipped + Cancelled) + 1))
      BY <1>0, <1>7, TeardownReach
    <3> QED BY <2>3, <3>1
  <2>9. Sub(max_val', hw') = C + todo - P /\ Sub(max_val', hw') < Half
    <3>1. CASE Cancelled = 0
      <4>1. hw' = hw /\ max_val' = max_val
        BY <1>0, <1>1, <1>7, <3>1, TeardownEffect
      <4>2. Done = P
        <5>1. Done = Pos(Front(Skipped + 1)) /\ Skipped + Cancelled = Skipped
          BY <1>0, <1>7, <2>2, <2>4, <3>1, TeardownReach
        <5> QED BY <2>3, <5>1
      <4>3. Sub(max_val, hw) = C + todo - Done
        <5>1. PICK x \in Int : x = Sub(max_val, hw)
          BY <2>5
        <5> HIDE DEF C
        <5>2. Done = C + todo - x /\ Done \in Int /\ C \in Int /\ todo \in Int
          BY <2>5, <2>7, <5>1
        <5> QED BY <5>1, <5>2
      <4> QED BY <2>7, <4>1, <4>2, <4>3
    <3>2. CASE Cancelled # 0
      <4>1. hw' = queue[K].syncpt_end /\ max_val' = max_val
        BY <1>0, <1>1, <1>7, <2>3, <3>2, TeardownEffect
      <4>2. Sub(max_val, queue[K].syncpt_end) = C + todo - P
            /\ Sub(max_val, queue[K].syncpt_end) \in 0 .. Half - 1
        BY <1>0, ReachedIs
      <4> QED BY <2>5, <4>1, <4>2
    <3> QED BY <3>1, <3>2
  <2>10. Gap(Base', pb'.cur) = C
    BY <1>4, <2>1, <2>5
  <2>11. Done' = P
    <3>1. Done' = Gap(Base', pb'.cur) + todo' - Sub(max_val', hw')
      BY DEF Done, Pos
    <3> QED BY <1>1, <2>5, <2>9, <2>10, <3>1
  <2>12. \A k \in Slots : pb'.op[k] = IF p <= Pos(k) /\ Pos(k) < P THEN "noop" ELSE pb.op[k]
    <3>1. \A k \in Slots : pb'.op[k] = IF /\ Pos(Front(Skipped + 1)) <= Pos(k)
                                          /\ Pos(k) < Pos(Front((Skipped + Cancelled) + 1))
                                       THEN "noop" ELSE pb.op[k]
      BY <1>0, <1>7, TeardownEffect
    <3> QED BY <2>2, <2>3, <3>1
  <2> HIDE DEF F, p, P, C
  <2>13. ASSUME NEW k \in Slots, P <= Pos(k), Pos(k) < C PROVE pb'.op[k] = "incr"
    <3>1. Pos(k) \in Int
      BY <1>0, Positions
    <3>2. Done <= Pos(k) /\ ~(Pos(k) < P)
      BY <2>5, <2>7, <2>8, <2>13, <3>1
    <3>3. pb.op[k] = "incr"
      BY <1>0, <2>13, <3>2 DEF Incrs, C
    <3> QED BY <2>12, <3>2, <3>3
  <2>14. Incrs'
    <3>1. ASSUME NEW k \in Slots, P <= Gap(Base', k), Gap(Base', k) < C PROVE pb'.op[k] = "incr"
      BY <2>1, <2>13, <3>1
    <3> QED BY <2>10, <2>11, <3>1 DEF Incrs, Pos
  <2>15. Ledger'
    <3>1. ASSUME NEW i \in 1 .. Len(queue)
          PROVE  Sub(max_val', queue'[i].syncpt_end) = Gap(Base', pb'.cur) + todo' - Gap(Base', Front(i + 1)')
      <4>1. i + 1 \in 1 .. Len(queue) + 1 /\ Front(i + 1) \in Slots
        BY <1>0, Positions
      <4>2. Gap(Base', Front(i + 1)') = Pos(Front(i + 1))
        BY <2>1, <4>1
      <4> QED BY <1>0, <1>1, <1>4, <2>10, <4>2 DEF Ledger, C
    <3>2. Done' \in 0 .. Gap(Base', pb'.cur) /\ Sub(max_val', hw') < Half
      BY <2>5, <2>9, <2>10, <2>11
    <3> QED BY <1>4, <3>1, <3>2 DEF Ledger, Pos
  <2>16. get' = F
    <3> DEFINE g == FirstLive(pb'.op, Front(s + 1))
               G(x) == Gap(Front(s + 1), x)
    <3>1. get' = g
      BY <1>0, <1>7, <2>2, TeardownEffect
    <3>2. /\ g \in Slots /\ G(g) <= G(pb.cur)
          /\ g = pb.cur \/ pb'.op[g] # "noop"
          /\ \A j \in Slots : G(j) < G(g) => pb'.op[j] = "noop"
      BY <1>0, <2>5, FirstLiveIs
    <3>3. \A x \in Slots : /\ Pos(x) \in 0 .. Size - 1
                           /\ G(x) = IF p <= Pos(x) THEN Pos(x) - p ELSE Pos(x) - p + Size
      BY <1>0, <2>5, Positions, GapFrom DEF Pos, p
    <3> HIDE DEF g, G
    <3>4. Pos(g) \in 0 .. Size - 1 /\ G(g) <= G(pb.cur)
          /\ G(g) = IF p <= Pos(g) THEN Pos(g) - p ELSE Pos(g) - p + Size
      BY <3>2, <3>3
    <3>5. G(pb.cur) = C - p
      BY <2>5, <3>3 DEF C
    <3>6. p <= Pos(g) /\ Pos(g) <= C /\ G(g) = Pos(g) - p
      BY <2>5, <3>4, <3>5
    <3>7. ~(Pos(g) < P)
      <4> SUFFICES ASSUME Pos(g) < P PROVE FALSE
        OBVIOUS
      <4>1. pb'.op[g] = "noop"
        BY <2>12, <3>2, <3>6
      <4>2. Pos(g) # Pos(pb.cur)
        BY <2>5, <3>4 DEF C
      <4> QED BY <3>2, <4>1, <4>2
    <3>8. ~(P < Pos(g))
      <4> SUFFICES ASSUME P < Pos(g) PROVE FALSE
        OBVIOUS
      <4>1. G(F) = P - p
        BY <2>5, <2>6, <3>3 DEF P
      <4>2. G(F) < G(g)
        BY <2>5, <3>4, <3>6, <4>1
      <4>3. pb'.op[F] = "noop"
        BY <2>5, <3>2, <4>2
      <4>4. P <= Pos(F) /\ Pos(F) < C
        BY <2>5, <3>4, <3>6 DEF P
      <4>5. pb'.op[F] = "incr"
        BY <2>5, <2>13, <4>4
      <4> QED BY <4>3, <4>5
    <3>9. Pos(g) = Pos(F)
      BY <2>5, <3>4, <3>7, <3>8 DEF P
    <3> QED BY <1>0, <2>5, <3>1, <3>2, <3>9, Positions
  <2>17. Fetched'
    <3>1. last_put' = pb.cur
      BY <1>0, <1>7, TeardownEffect
    <3>2. Gap(Base', get') = P /\ Gap(Base', last_put') = C
      BY <2>1, <2>5, <2>16, <3>1 DEF P, C
    <3>3. /\ Gap(Base', get') = Done' + pipe' /\ Gap(Base', get') <= Gap(Base', last_put')
          /\ Gap(Base', last_put') <= Gap(Base', pb'.cur)
      BY <1>1, <2>5, <2>10, <2>11, <3>2
    <3> QED BY <1>1, <1>5, <1>7, <3>3 DEF Fetched, Pos
  <2> QED BY <1>2, <2>14, <2>15, <2>17 DEF CountInv
<1> QED BY <1>6, <1>7

-----------------------------------------------------------------------------
(* The invariant, and what it says *)

LEMMA CountInit == Init => CountInv
<1> SUFFICES ASSUME Init PROVE CountInv
  OBVIOUS
<1>1. pb.cur = 0 /\ pb.fence = Size - 1 /\ queue = <<>> /\ Len(queue) = 0
  BY DEF Init, push_buffer_init
<1>2. Base = 0 /\ 0 \in Slots
  BY <1>1, SizeAssumption DEF Base, Ahead, Slots
<1>3. Pos(pb.cur) = 0
  BY <1>1, <1>2, GapZero DEF Pos
<1>4. hw = max_val /\ max_val \in Word /\ todo = 0 /\ pipe = 0 /\ ~running /\ ~lost
      /\ work = "idle" /\ late = 0
  BY CdmaAssumption DEF Init
<1>5. Sub(max_val, hw) = 0 /\ Done = 0
  BY <1>3, <1>4, SubSelf DEF Done
<1>6. Ledger
  <2>1. 1 .. Len(queue) = {}
    BY <1>1
  <2> QED BY <1>3, <1>5, <2>1, HalfAssumption DEF Ledger
<1>7. Incrs
  <2>1. \A k \in Slots : Pos(k) \in 0 .. Size - 1
    BY <1>2, GapType DEF Pos
  <2> QED BY <1>3, <1>5, <2>1 DEF Incrs
<1>8. Fetched /\ HeadWasLate
  BY <1>4 DEF Fetched, HeadWasLate
<1> QED BY <1>6, <1>7, <1>8 DEF CountInv

LEMMA CountNext ==
    Prompt /\ ChannelInv /\ PushNeverFull /\ CountInv /\ [Next]_vars => CountInv'
<1> SUFFICES ASSUME Prompt, ChannelInv, PushNeverFull, CountInv, [Next]_vars PROVE CountInv'
  OBVIOUS
<1>1. CASE Quiet \/ \E c \in Clients : PushFull(c)
  BY <1>1, CountQuiet
<1>2. CASE \E c \in Clients : \E n \in 1 .. MaxSlots : Begin(c, n)
  BY <1>2, CountBegin
<1>3. CASE \E c \in Clients : Push(c) \/ End(c) \/ Close(c)
  BY <1>3, CountPush, CountEnd, CountClose
<1>4. CASE \E n \in 0 .. Len(queue) : Update(n)
  BY <1>4, CountUpdate
<1>5. CASE Suspend BY <1>5, CountSuspend
<1>6. CASE DmaFetch BY <1>6, CountFetch
<1>7. CASE EngineIncr BY <1>7, CountIncr
<1>8. CASE HandlerStops BY <1>8, CountHandlerStops
<1>9. CASE Teardown BY <1>9, CountTeardown
<1> QED BY <1>1, <1>2, <1>3, <1>4, <1>5, <1>6, <1>7, <1>8, <1>9, StepKinds

LEMMA CountAlways ==
    ASSUME Prompt
    PROVE  Spec => [](ChannelInv /\ PushNeverFull /\ CountInv)
<1>1. Init => CountInv
  BY CountInit
<1>2. (ChannelInv /\ PushNeverFull) /\ CountInv /\ [Next]_vars => CountInv'
  BY CountNext
<1> QED BY <1>1, <1>2, ChannelAlways, PTL DEF Spec

(* The slots ahead of DMAGET are the ones not yet counted. *)
LEMMA CountIsConserved ==
    ASSUME ChannelInv, CountInv
    PROVE  CountConserved
<1> SUFFICES ASSUME running, ~lost
             PROVE  Sub(max_val, hw) =
                      pipe + Cardinality({i \in Slots : Unfetched(i) /\ pb.op[i] = "incr"}) + todo
  BY DEF CountConserved
<1> DEFINE g == Pos(get)
           C == Pos(pb.cur)
           U == {i \in Slots : Unfetched(i) /\ pb.op[i] = "incr"}
<1>0. TypeOK /\ RingInv /\ Ledger /\ Incrs /\ Fetched /\ get \in Slots /\ last_put \in Slots
  BY DEF ChannelInv, CountInv, TypeOK
<1>1. g = Done + pipe /\ g <= Pos(last_put) /\ Pos(last_put) <= C
  BY <1>0 DEF Fetched
<1>2. /\ g \in 0 .. Size - 1 /\ C \in 0 .. Size - 1 /\ Pos(last_put) \in 0 .. Size - 1
      /\ pb.cur \in Slots /\ Base \in Slots
      /\ \A i \in Slots : Pos(i) \in 0 .. Size - 1
  BY <1>0, Positions
<1>3. Size \in Nat /\ pipe \in Nat /\ todo \in Nat /\ Sub(max_val, hw) \in 0 .. M - 1 /\ Half \in Nat
  BY <1>0, Numbers
<1>4. Done = C + todo - Sub(max_val, hw) /\ Done \in 0 .. C
  BY <1>0 DEF Done, Ledger
<1>5. \A i \in Slots : Gap(get, i) = IF g <= Pos(i) THEN Pos(i) - g ELSE Pos(i) - g + Size
  BY <1>0, <1>2, GapFrom DEF Pos
<1>6. \A k \in Slots : Done <= Pos(k) /\ Pos(k) < C => pb.op[k] = "incr"
  BY <1>0 DEF Incrs
<1> HIDE DEF g, C
<1>7. Gap(get, pb.cur) = C - g
  BY <1>1, <1>2, <1>5 DEF C
<1>8. ASSUME NEW i \in Slots, Gap(get, i) < C - g PROVE pb.op[i] = "incr"
  <2>1. g <= Pos(i) /\ Pos(i) < C
    BY <1>2, <1>3, <1>5, <1>8
  <2>2. Done <= Pos(i)
    BY <1>1, <1>2, <1>3, <1>4, <2>1
  <2> QED BY <1>6, <2>1, <2>2
<1>9. U = SlotsFrom(get, C - g)
  BY <1>7, <1>8 DEF Unfetched, SlotsFrom
<1>10. C - g \in 0 .. Size
  BY <1>1, <1>2, <1>3
<1>11. Cardinality(U) = C - g
  BY <1>0, <1>9, <1>10, SlotsFromCount
<1> HIDE DEF U
<1>12. Sub(max_val, hw) = pipe + Cardinality(U) + todo
  BY <1>1, <1>2, <1>3, <1>4, <1>11 DEF M
<1> QED BY <1>12 DEF U

(***************************************************************************)
(* Every promised increment is performed exactly once, also across the     *)
(* timeout handler's replay: what is missing from the sync point is in the *)
(* pipe, in the ring ahead of DMAGET or not yet pushed.                    *)
(***************************************************************************)
THEOREM CountCorrect ==
    ASSUME Prompt
    PROVE  Spec => []CountConserved
<1>1. ChannelInv /\ PushNeverFull /\ CountInv => CountConserved
  BY CountIsConserved
<1> QED BY <1>1, CountAlways, PTL

(***************************************************************************)
(* The DMA never reads a slot that was given back, whatever is popped by   *)
(* an update or restarted by a teardown.                                   *)
(***************************************************************************)
THEOREM DmaCorrect ==
    ASSUME Prompt
    PROVE  Spec => []DmaInsideRing
<1>1. ChannelInv /\ PushNeverFull /\ CountInv => DmaInsideRing
  <2> SUFFICES ASSUME ChannelInv, CountInv, running, ~lost
               PROVE  Gap(Ahead(pb.fence, 1), get) <= Gap(Ahead(pb.fence, 1), pb.cur)
    BY DEF DmaInsideRing
  <2>1. Pos(get) <= Pos(last_put) /\ Pos(last_put) <= Pos(pb.cur)
    BY DEF CountInv, Fetched
  <2>2. Pos(get) \in Int /\ Pos(last_put) \in Int /\ Pos(pb.cur) \in Int
    BY Positions DEF ChannelInv, TypeOK
  <2>3. Pos(get) <= Pos(pb.cur)
    BY <2>1, <2>2
  <2> QED BY <2>3 DEF Pos, Base
<1> QED BY <1>1, CountAlways, PTL

-----------------------------------------------------------------------------
(* The channel implements JobQueue *)

(* the jobs of the abstract queue *)
JobsOf == [i \in DOMAIN queue |-> [fence |-> queue[i].syncpt_end, owner |-> queue[i].clientid]]

LEMMA JobsAre ==
    ASSUME TypeOK
    PROVE  /\ DOMAIN queue = 1 .. Len(queue) /\ DOMAIN JobsOf = 1 .. Len(queue)
           /\ JobsOf \in Seq([fence : Word, owner : Clients]) /\ Len(JobsOf) = Len(queue)
           /\ \A i \in 1 .. Len(queue) : JobsOf[i] = [fence |-> queue[i].syncpt_end,
                                                      owner |-> queue[i].clientid]
<1>1. queue \in Seq(Job) /\ Len(queue) \in Nat /\ DOMAIN queue = 1 .. Len(queue)
  BY DEF TypeOK
<1>2. \A i \in 1 .. Len(queue) : queue[i].syncpt_end \in Word /\ queue[i].clientid \in Clients
  BY QueuedJob
<1>3. /\ JobsOf \in [1 .. Len(queue) -> [fence : Word, owner : Clients]]
      /\ \A i \in 1 .. Len(queue) : JobsOf[i] = [fence |-> queue[i].syncpt_end,
                                                 owner |-> queue[i].clientid]
  BY <1>1, <1>2 DEF JobsOf
<1>4. ASSUME NEW T, JobsOf \in [1 .. Len(queue) -> T]
      PROVE  JobsOf \in Seq(T) /\ Len(JobsOf) = Len(queue) /\ DOMAIN JobsOf = 1 .. Len(queue)
  <2>1. DOMAIN JobsOf = 1 .. Len(queue)
    BY <1>4
  <2>2. JobsOf \in Seq(T)
    BY <1>1, <1>4
  <2> QED BY <1>1, <2>1, <2>2
<1> QED BY <1>1, <1>3, <1>4

(* The abstract actions, in terms of the channel's state *)
LEMMA AbstractSteps ==
    /\ Fifo!vars = <<hw, max_val, JobsOf, timedout>>
    /\ \A n : Fifo!Promise(n) <=>
        Sub(max_val, hw) + n < Half /\ max_val' = Add(max_val, n)
        /\ UNCHANGED <<hw, JobsOf, timedout>>
    /\ \A c : Fifo!Enqueue(c) <=>
        JobsOf' = Append(JobsOf, [fence |-> max_val, owner |-> c]) /\ UNCHANGED <<hw, max_val, timedout>>
    /\ Fifo!Work <=>
        hw # max_val /\ hw' = Add(hw, 1) /\ UNCHANGED <<max_val, JobsOf, timedout>>
    /\ \A n : Fifo!Retire(n) <=>
        /\ \A i \in 1 .. n : Sub(max_val, JobsOf[i].fence) >= Sub(max_val, hw)
        /\ JobsOf' = SubSeq(JobsOf, n + 1, Len(JobsOf)) /\ UNCHANGED <<hw, max_val, timedout>>
    /\ \A c : Fifo!Return(c) <=>
        /\ c \in timedout /\ \A i \in DOMAIN JobsOf : JobsOf[i].owner # c
        /\ timedout' = timedout \ {c} /\ UNCHANGED <<hw, max_val, JobsOf>>
    /\ \A c : Fifo!Kill(c) <=>
        /\ \/ hw' = hw
           \/ \E i \in DOMAIN JobsOf :
                /\ hw' = JobsOf[i].fence
                /\ \A h \in 1 .. i : \/ Sub(max_val, JobsOf[h].fence) >= Sub(max_val, hw)
                                     \/ JobsOf[h].owner = c
        /\ Sub(max_val, hw') <= Sub(max_val, hw)
        /\ timedout' = IF HasCtx THEN timedout \cup {c} ELSE timedout
        /\ UNCHANGED <<max_val, JobsOf>>
<1>1. \A a, b : Fifo!Sub(a, b) = Sub(a, b)
  BY DEF Fifo!Sub, Sub, Fifo!M, M
<1>2. \A a, b : Fifo!Add(a, b) = Add(a, b)
  BY DEF Fifo!Add, Add, Fifo!M, M
<1>3. Fifo!vars = <<hw, max_val, JobsOf, timedout>>
  BY DEF Fifo!vars, JobsOf
<1>4. ASSUME NEW n
      PROVE  Fifo!Promise(n) <=>
        Sub(max_val, hw) + n < Half /\ max_val' = Add(max_val, n)
        /\ UNCHANGED <<hw, JobsOf, timedout>>
  BY <1>1, <1>2 DEF Fifo!Promise, JobsOf
<1>5. ASSUME NEW c
      PROVE  Fifo!Enqueue(c) <=>
        JobsOf' = Append(JobsOf, [fence |-> max_val, owner |-> c]) /\ UNCHANGED <<hw, max_val, timedout>>
  BY DEF Fifo!Enqueue, JobsOf
<1>6. Fifo!Work <=> hw # max_val /\ hw' = Add(hw, 1) /\ UNCHANGED <<max_val, JobsOf, timedout>>
  BY <1>2 DEF Fifo!Work, JobsOf
<1>7. ASSUME NEW n
      PROVE  Fifo!Retire(n) <=>
        /\ \A i \in 1 .. n : Sub(max_val, JobsOf[i].fence) >= Sub(max_val, hw)
        /\ JobsOf' = SubSeq(JobsOf, n + 1, Len(JobsOf)) /\ UNCHANGED <<hw, max_val, timedout>>
  BY <1>1 DEF Fifo!Retire, Fifo!Reached, JobsOf
<1>8. ASSUME NEW c
      PROVE  Fifo!Return(c) <=>
        /\ c \in timedout /\ \A i \in DOMAIN JobsOf : JobsOf[i].owner # c
        /\ timedout' = timedout \ {c} /\ UNCHANGED <<hw, max_val, JobsOf>>
  BY DEF Fifo!Return, JobsOf
<1>9. ASSUME NEW c
      PROVE  Fifo!Kill(c) <=>
        /\ \/ hw' = hw
           \/ \E i \in DOMAIN JobsOf :
                /\ hw' = JobsOf[i].fence
                /\ \A h \in 1 .. i : \/ Sub(max_val, JobsOf[h].fence) >= Sub(max_val, hw)
                                     \/ JobsOf[h].owner = c
        /\ Sub(max_val, hw') <= Sub(max_val, hw)
        /\ timedout' = IF HasCtx THEN timedout \cup {c} ELSE timedout
        /\ UNCHANGED <<max_val, JobsOf>>
  BY <1>1 DEF Fifo!Kill, Fifo!Reach, Fifo!Reached, JobsOf
<1> QED BY <1>3, <1>4, <1>5, <1>6, <1>7, <1>8, <1>9

(* Ring, kicks, waits and the DMA do not show. *)
LEMMA Unseen ==
    ASSUME UNCHANGED <<hw, max_val, queue, timedout>>
    PROVE  UNCHANGED Fifo!vars
<1>1. JobsOf' = JobsOf
  BY DEF JobsOf
<1> QED BY <1>1 DEF Fifo!vars, JobsOf

(* A teardown kills one client. *)
LEMMA TeardownKills ==
    ASSUME Prompt, ChannelInv, CountInv, Teardown
    PROVE  tclient \in Clients /\ Fifo!Kill(tclient)
<1>0. TypeOK /\ RingInv /\ Ledger /\ work = "stopping" /\ max_val' = max_val /\ Len(queue) \in Nat
      /\ timedout' = IF HasCtx THEN timedout \cup {tclient} ELSE timedout
  BY Positions DEF ChannelInv, CountInv, Teardown
<1>1. tclient \in Clients
  BY <1>0, StoppingHasHead
<1>2. JobsOf' = JobsOf
  <2>1. queue' \in Seq(Job) /\ Len(queue') = Len(queue)
    BY <1>0, TeardownQueue
  <2>2. DOMAIN queue' = DOMAIN queue /\ DOMAIN queue = 1 .. Len(queue)
    BY <1>0, <2>1 DEF TypeOK
  <2>3. \A i \in DOMAIN queue : queue'[i].syncpt_end = queue[i].syncpt_end
                                /\ queue'[i].clientid = queue[i].clientid
    BY <1>0, <2>2, TeardownQueue
  <2> QED BY <2>2, <2>3 DEF JobsOf
<1>3. Sub(max_val, hw) \in 0 .. M - 1 /\ Half \in Nat
  BY <1>0, Numbers
<1>4. ASSUME hw' = hw PROVE Fifo!Kill(tclient)
  <2>1. Sub(max_val, hw') <= Sub(max_val, hw)
    BY <1>3, <1>4 DEF M
  <2> QED BY <1>0, <1>2, <1>4, <2>1, AbstractSteps
<1>5. CASE Rest = <<>>
  <2>1. hw' = hw
    BY <1>5 DEF Teardown
  <2> QED BY <1>1, <1>4, <2>1
<1>6. CASE Rest # <<>> /\ Cancelled = 0
  <2>1. hw' = hw
    BY <1>6, TeardownEffect
  <2> QED BY <1>1, <1>4, <2>1
<1>7. CASE Rest # <<>> /\ Cancelled # 0
  <2>1. PICK K \in 1 .. Len(queue) : K = Skipped + Cancelled
    BY <1>0, <1>7, TeardownReach
  <2>2. hw' = queue[K].syncpt_end /\ Done <= Pos(Front(K + 1))
    BY <1>0, <1>7, <2>1, TeardownEffect, TeardownReach
  <2>3. JobsOf[K].fence = hw' /\ K \in DOMAIN JobsOf
    BY <1>0, <2>2, JobsAre
  <2>4. ASSUME NEW h \in 1 .. K
        PROVE  Sub(max_val, JobsOf[h].fence) >= Sub(max_val, hw) \/ JobsOf[h].owner = tclient
    <3>1. h \in 1 .. Len(queue) /\ (h \in 1 .. Skipped \/ h \in Skipped + 1 .. Skipped + Cancelled)
      <4>1. Skipped \in Nat /\ Cancelled \in Nat
        BY <1>0, <1>7, TeardownReach
      <4> QED BY <1>0, <2>1, <4>1
    <3>2. JobsOf[h].fence = queue[h].syncpt_end /\ JobsOf[h].owner = queue[h].clientid
      BY <1>0, <3>1, JobsAre
    <3>3. CASE h \in 1 .. Skipped
      <4>1. Pos(Front(h + 1)) <= Done
        BY <1>0, <1>7, <3>3, TeardownReach
      <4> QED BY <1>0, <3>1, <3>2, <4>1, ReachedIs
    <3>4. CASE h \in Skipped + 1 .. Skipped + Cancelled
      BY <1>0, <1>7, <3>2, <3>4, TeardownReach
    <3> QED BY <3>1, <3>3, <3>4
  <2>5. Sub(max_val, hw') <= Sub(max_val, hw)
    <3>1. Sub(max_val, hw') = Pos(pb.cur) + todo - Pos(Front(K + 1))
      BY <1>0, <2>2, ReachedIs
    <3>2. Done = Pos(pb.cur) + todo - Sub(max_val, hw)
      BY DEF Done
    <3>3. Pos(pb.cur) \in Int /\ todo \in Int /\ Pos(Front(K + 1)) \in Int
      <4>1. K + 1 \in 1 .. Len(queue) + 1
        BY <1>0
      <4> QED BY <1>0, <4>1, Numbers, Positions
    <3> QED BY <1>3, <2>2, <3>1, <3>2, <3>3 DEF M
  <2> QED BY <1>0, <1>1, <1>2, <2>3, <2>4, <2>5, AbstractSteps
<1> QED BY <1>1, <1>5, <1>6, <1>7

(* Every step of the channel is a step of the job queue, or does not show. *)
LEMMA StepRefines ==
    ASSUME Prompt, ChannelInv, CountInv, [Next]_vars
    PROVE  [Fifo!Next]_(Fifo!vars)
<1>0. TypeOK /\ RingInv /\ SubmitInv /\ Ledger /\ Len(queue) \in Nat
  BY Positions DEF ChannelInv, CountInv
<1>1. ASSUME Quiet PROVE [Fifo!Next]_(Fifo!vars)
  <2>1. UNCHANGED <<hw, max_val, queue>>
    BY <1>1 DEF Quiet, hwVars
  <2>2. CASE timedout' = timedout
    BY <2>1, <2>2, Unseen
  <2>3. ASSUME NEW c \in Clients, Reopen(c) PROVE Fifo!Next
    <3>1. \A i \in DOMAIN JobsOf : JobsOf[i].owner # c
      BY <1>0, <2>3, JobsAre DEF Reopen
    <3>2. JobsOf' = JobsOf
      BY <2>1 DEF JobsOf
    <3>3. Fifo!Return(c)
      BY <2>1, <2>3, <3>1, <3>2, AbstractSteps DEF Reopen
    <3> QED BY <3>3 DEF Fifo!Next
  <2> QED BY <1>1, <2>2, <2>3 DEF Quiet
<1>2. ASSUME NEW c \in Clients, NEW n \in 1 .. MaxSlots, Begin(c, n) PROVE Fifo!Next
  <2>1. Sub(max_val, hw) + n < Half /\ max_val' = Add(max_val, n) /\ UNCHANGED <<hw, queue, timedout>>
    BY <1>2 DEF Begin
  <2>2. JobsOf' = JobsOf
    BY <2>1 DEF JobsOf
  <2>3. Fifo!Promise(n)
    BY <2>1, <2>2, AbstractSteps
  <2>4. n \in 1 .. Half - 1
    BY SizeAssumption, HalfAssumption, CdmaAssumption
  <2> QED BY <2>3, <2>4 DEF Fifo!Next
<1>3. ASSUME NEW c \in Clients, Push(c) \/ PushFull(c) \/ Close(c) PROVE UNCHANGED Fifo!vars
  <2>1. UNCHANGED <<hw, max_val, queue, timedout>>
    BY <1>3 DEF Push, PushFull, Close, hwVars, timeoutVars
  <2> QED BY <2>1, Unseen
<1>4. ASSUME NEW c \in Clients, End(c) PROVE Fifo!Next
  <2> DEFINE j == [fence |-> max_val, owner |-> c]
             T == [fence : Word, owner : Clients]
  <2>1. UNCHANGED <<hw, max_val, timedout>> /\ Submitting
    BY <1>4 DEF End, hwVars, Submitting, SubmitPcs
  <2>2. /\ queue' \in Seq(Job) /\ Len(queue') = Len(queue) + 1
        /\ \A i \in 1 .. Len(queue) : queue'[i] = queue[i]
        /\ queue'[Len(queue) + 1] = SubmittedJob(c)
    BY <1>0, <1>4, EndQueue
  <2>3. SubmittedJob(c).syncpt_end = max_val /\ SubmittedJob(c).clientid = c
    BY <1>0, <2>1 DEF SubmittedJob, SubmitInv
  <2>4. /\ JobsOf \in Seq(T) /\ Len(JobsOf) = Len(queue) /\ j \in T
        /\ \A i \in 1 .. Len(queue) : JobsOf[i] = [fence |-> queue[i].syncpt_end, owner |-> queue[i].clientid]
    BY <1>0, JobsAre DEF TypeOK
  <2>5. /\ DOMAIN queue' = 1 .. Len(queue) + 1
        /\ JobsOf' = [i \in 1 .. Len(queue) + 1 |-> [fence |-> queue'[i].syncpt_end,
                                                     owner |-> queue'[i].clientid]]
    <3>1. DOMAIN queue' = 1 .. Len(queue) + 1
      BY <2>2
    <3> QED BY <3>1 DEF JobsOf
  <2> HIDE DEF j, T
  <2> DEFINE r == Append(JobsOf, j)
  <2>6. /\ r = [i \in 1 .. Len(queue) + 1 |-> r[i]]
        /\ \A i \in 1 .. Len(queue) : r[i] = JobsOf[i]
        /\ r[Len(queue) + 1] = j
    <3>1. /\ r \in Seq(T) /\ Len(r) = Len(queue) + 1
          /\ \A i \in 1 .. Len(queue) : r[i] = JobsOf[i]
          /\ r[Len(queue) + 1] = j
      BY <1>0, <2>4
    <3> HIDE DEF r
    <3> QED BY <1>0, <3>1
  <2> HIDE DEF r
  <2>7. ASSUME NEW i \in 1 .. Len(queue) + 1
        PROVE  r[i] = [fence |-> queue'[i].syncpt_end, owner |-> queue'[i].clientid]
    <3>1. CASE i \in 1 .. Len(queue)
      <4>1. queue'[i] = queue[i] /\ r[i] = JobsOf[i]
        BY <2>2, <2>6, <3>1
      <4> QED BY <2>4, <3>1, <4>1
    <3>2. CASE i = Len(queue) + 1
      <4>1. queue'[i].syncpt_end = max_val /\ queue'[i].clientid = c /\ r[i] = j
        BY <2>2, <2>3, <2>6, <3>2
      <4> QED BY <4>1 DEF j
    <3> QED BY <1>0, <3>1, <3>2
  <2>8. JobsOf' = r
    BY <2>5, <2>6, <2>7
  <2>9. Fifo!Enqueue(c)
    BY <2>1, <2>8, AbstractSteps DEF j, r
  <2> QED BY <2>9 DEF Fifo!Next
<1>5. ASSUME NEW n \in 0 .. Len(queue), Update(n) PROVE [Fifo!Next]_(Fifo!vars)
  <2>1. UNCHANGED <<hw, max_val, timedout>> /\ n <= Finished /\ queue' = SubSeq(queue, n + 1, Len(queue))
    BY <1>5 DEF Update, hwVars
  <2>2. CASE n = 0
    <3>1. queue' = queue
      <4>1. queue \in Seq(Job)
        BY <1>0 DEF TypeOK
      <4> QED BY <2>1, <2>2, <4>1
    <3> QED BY <2>1, <3>1, Unseen
  <2>3. CASE n # 0
    <3> DEFINE T == [fence : Word, owner : Clients]
    <3>1. /\ queue' \in Seq(Job) /\ Len(queue') = Len(queue) - n
          /\ \A i \in 1 .. Len(queue) - n : queue'[i] = queue[i + n]
      BY <1>0, <1>5, UpdateQueue
    <3>2. /\ JobsOf \in Seq(T) /\ Len(JobsOf) = Len(queue)
          /\ \A i \in 1 .. Len(queue) : JobsOf[i] = [fence |-> queue[i].syncpt_end, owner |-> queue[i].clientid]
      BY <1>0, JobsAre
    <3> HIDE DEF T
    <3>3. JobsOf' = [i \in 1 .. Len(queue) - n |-> [fence |-> queue'[i].syncpt_end,
                                                    owner |-> queue'[i].clientid]]
      <4>1. DOMAIN queue' = 1 .. Len(queue) - n
        BY <3>1
      <4> QED BY <4>1 DEF JobsOf
    <3> DEFINE r == SubSeq(JobsOf, n + 1, Len(JobsOf))
    <3>4. /\ r = [i \in 1 .. Len(queue) - n |-> r[i]]
          /\ \A i \in 1 .. Len(queue) - n : r[i] = JobsOf[i + n]
      <4>1. r \in Seq(T) /\ Len(r) = Len(queue) - n
            /\ \A i \in 1 .. Len(queue) - n : r[i] = JobsOf[i + n]
        BY <1>0, <3>2
      <4> HIDE DEF r
      <4> QED BY <1>0, <4>1
    <3> HIDE DEF r
    <3>5. ASSUME NEW i \in 1 .. Len(queue) - n
          PROVE  r[i] = [fence |-> queue'[i].syncpt_end, owner |-> queue'[i].clientid]
      <4>1. i + n \in 1 .. Len(queue)
        BY <1>0
      <4> QED BY <3>1, <3>2, <3>4, <4>1
    <3>6. JobsOf' = r
      BY <3>3, <3>4, <3>5
    <3>7. ASSUME NEW i \in 1 .. n PROVE Sub(max_val, JobsOf[i].fence) >= Sub(max_val, hw)
      <4>1. i \in 1 .. Len(queue) /\ i \in 1 .. Finished
        BY <1>0, <2>1, FinishedIs
      <4>2. Expired(queue[i])
        BY <1>0, <4>1, FinishedIs
      <4>3. Sub(max_val, queue[i].syncpt_end) >= Sub(max_val, hw)
        BY <1>0, <4>1, <4>2, ReachedIs
      <4>4. JobsOf[i].fence = queue[i].syncpt_end
        BY <1>0, <4>1, JobsAre
      <4> QED BY <4>3, <4>4
    <3>8. Fifo!Retire(n)
      BY <2>1, <3>6, <3>7, AbstractSteps DEF r
    <3>9. n \in 1 .. Len(JobsOf)
      BY <1>0, <2>3, <3>2
    <3> QED BY <3>8, <3>9 DEF Fifo!Next, JobsOf
  <2> QED BY <2>2, <2>3
<1>6. ASSUME Suspend \/ DmaFetch \/ HandlerStops PROVE UNCHANGED Fifo!vars
  <2>1. UNCHANGED <<hw, max_val, queue, timedout>>
    BY <1>6 DEF Suspend, DmaFetch, HandlerStops, hwVars, timeoutVars
  <2> QED BY <2>1, Unseen
<1>7. ASSUME EngineIncr PROVE Fifo!Next
  <2>1. hw # max_val /\ hw' = Add(hw, 1) /\ UNCHANGED <<max_val, queue, timedout>>
    BY <1>7, CountIncr DEF EngineIncr
  <2>2. JobsOf' = JobsOf
    BY <2>1 DEF JobsOf
  <2>3. Fifo!Work
    BY <2>1, <2>2, AbstractSteps
  <2> QED BY <2>3 DEF Fifo!Next
<1>8. ASSUME Teardown PROVE Fifo!Next
  BY <1>8, TeardownKills DEF Fifo!Next
<1> QED BY <1>1, <1>2, <1>3, <1>4, <1>5, <1>6, <1>7, <1>8, StepKinds

(***************************************************************************)
(* A channel is a queue of jobs (JobQueue): whatever ring, timer, waits    *)
(* and replay do, jobs leave in submission order and only at their fence,  *)
(* the counter never passes what was promised, and a timeout moves it only *)
(* over jobs of the client it punishes.                                    *)
(***************************************************************************)
THEOREM JobQueueCorrect ==
    ASSUME Prompt
    PROVE  Spec => IsJobQueue
<1>1. Init => Fifo!Init
  <2> SUFFICES ASSUME Init PROVE Fifo!Init
    OBVIOUS
  <2>1. queue = <<>> /\ hw = Start /\ max_val = Start /\ timedout = {}
    BY DEF Init
  <2>2. JobsOf = <<>>
    BY <2>1 DEF JobsOf
  <2> QED BY <2>1, <2>2 DEF Fifo!Init, JobsOf
<1>2. (ChannelInv /\ PushNeverFull /\ CountInv) /\ [Next]_vars => [Fifo!Next]_(Fifo!vars)
  BY StepRefines
<1> QED BY <1>1, <1>2, CountAlways, PTL DEF Spec, IsJobQueue, Fifo!Spec

================================================================================
