----------------------------- MODULE CdmaRingProofs -----------------------------
(***************************************************************************)
(* Proofs about the ring of Cdma, for any number of clients, any ring, any *)
(* job size and any modulus: what the push buffer holds and what the sync  *)
(* queue says of it agree, the counter accounts for every slot, and the    *)
(* channel implements JobQueue.                                            *)
(*                                                                         *)
(* Everything is measured in positions, the distance from the oldest slot  *)
(* in use.  Jobs then lie one behind the other without wrapping, pops are  *)
(* a shift, and the counter is a position as well (Done).                  *)
(***************************************************************************)
EXTENDS CdmaProofs, PushBufferProofs

Base == Ahead(pb.fence, 1)              \* the oldest slot in use
Pos(i) == Gap(Base, i)
Begun == IF Submitting THEN first_get ELSE pb.cur
Front(i) == IF i <= Len(queue) THEN queue[i].first_get ELSE Begun

(* One client submits at a time, with the lock of the channel; what it has *)
(* pushed and what it has still to push make up the job it promised.       *)
SubmitInv ==
    /\ \A c, d \in Clients : pc[c] \in SubmitPcs /\ pc[d] \in SubmitPcs => c = d
    /\ Submitting => slots_used + todo \in 1 .. MaxSlots /\ end = max_val /\ running
    /\ ~Submitting => slots_used = 0 /\ todo = 0
    /\ (\A c \in Clients : pc[c] # "push") => slots_free = 0
    /\ queue # <<>> => running

(* The jobs lie in the ring one behind the other, from the oldest slot on. *)
RingInv ==
    /\ Front(1) = Base
    /\ \A i \in 1 .. Len(queue) : Pos(Front(i + 1)) = Pos(Front(i)) + queue[i].num_slots
    /\ Pos(pb.cur) = Pos(Begun) + slots_used

(* The timer watches the head of the queue. *)
TimerInv ==
    /\ tclient # None =>
        queue # <<>> /\ queue[1].clientid = tclient /\ queue[1].syncpt_end = tval
    /\ timer \/ work = "stopping" => tclient # None

ChannelInv == TypeOK /\ WaitTypes /\ CloserAlone /\ SubmitInv /\ TimerInv /\ RingInv

-----------------------------------------------------------------------------
(* Facts about one state *)

(* A queued job is a job, and its parts have their types. *)
LEMMA QueuedJob ==
    ASSUME TypeOK, NEW i \in 1 .. Len(queue)
    PROVE  /\ queue[i] \in Job /\ queue[i].first_get \in Slots
           /\ queue[i].num_slots \in 1 .. MaxSlots /\ queue[i].syncpt_end \in Word
           /\ queue[i].clientid \in Clients /\ queue[i].timeout \in BOOLEAN
<1>1. queue \in Seq(Job)
  BY DEF TypeOK
<1>2. queue[i] \in Job
  BY <1>1
<1> QED BY <1>2 DEF Job

LEMMA PbFields ==
    ASSUME NEW Op, NEW b \in PushBufferType(Op)
    PROVE  /\ b.cur \in Slots /\ b.fence \in Slots
           /\ b.op \in [Slots -> Op] /\ b.handle \in [Slots -> BOOLEAN]
           /\ b = [cur |-> b.cur, fence |-> b.fence, op |-> b.op, handle |-> b.handle]
BY DEF PushBufferType

(* What one pop does, field by field. *)
LEMMA PopFields ==
    ASSUME NEW c, NEW f, NEW o, NEW h, NEW n
    PROVE  push_buffer_pop_from([cur |-> c, fence |-> f, op |-> o, handle |-> h], n)
             = [cur |-> c, fence |-> Ahead(f, n), op |-> o,
                handle |-> [i \in Slots |-> h[i] /\ Gap(f, i) >= n]]
<1> DEFINE r == [cur |-> c, fence |-> f, op |-> o, handle |-> h]
<1>1. r.fence = f /\ r.handle = h
  OBVIOUS
<1>2. ASSUME NEW x, NEW y
      PROVE  [r EXCEPT !.handle = x, !.fence = y] = [cur |-> c, fence |-> y, op |-> o, handle |-> x]
  <2>1. [r EXCEPT !.handle = x] = [cur |-> c, fence |-> f, op |-> o, handle |-> x]
    OBVIOUS
  <2>2. [r EXCEPT !.handle = x, !.fence = y] = [[r EXCEPT !.handle = x] EXCEPT !.fence = y]
    OBVIOUS
  <2>3. [[cur |-> c, fence |-> f, op |-> o, handle |-> x] EXCEPT !.fence = y]
          = [cur |-> c, fence |-> y, op |-> o, handle |-> x]
    OBVIOUS
  <2> QED BY <2>1, <2>2, <2>3
<1> HIDE DEF r
<1>3. push_buffer_pop_from(r, n)
        = [r EXCEPT !.handle = [i \in Slots |-> h[i] /\ Gap(f, i) >= n], !.fence = Ahead(f, n)]
  BY <1>1, Zenon DEF push_buffer_pop_from
<1> QED BY <1>2, <1>3 DEF r

(* Positions are well defined. *)
LEMMA Positions ==
    ASSUME TypeOK
    PROVE  /\ Base \in Slots /\ Begun \in Slots
           /\ pb.cur \in Slots /\ pb.fence \in Slots
           /\ \A i \in Slots : Pos(i) \in 0 .. Size - 1
           /\ \A i, j \in Slots : Pos(i) = Pos(j) => i = j
           /\ \A i \in 1 .. Len(queue) + 1 : Front(i) \in Slots
           /\ Len(queue) \in Nat
<1>1. pb.cur \in Slots /\ pb.fence \in Slots /\ Len(queue) \in Nat /\ first_get \in Slots
  BY PbFields DEF TypeOK
<1>2. Base \in Slots
  BY <1>1, AheadType, SizeAssumption DEF Base
<1>3. Begun \in Slots
  BY <1>1 DEF Begun
<1>4. \A i \in 1 .. Len(queue) + 1 : Front(i) \in Slots
  BY <1>1, <1>3, QueuedJob DEF Front
<1>5. \A i \in Slots : Pos(i) \in 0 .. Size - 1
  BY <1>2, GapType DEF Pos
<1>6. \A i, j \in Slots : Pos(i) = Pos(j) => i = j
  BY <1>2, GapInjective DEF Pos
<1> QED BY <1>1, <1>2, <1>3, <1>4, <1>5, <1>6

(* Later jobs lie further from the oldest slot, and none beyond cur. *)
LEMMA FrontsOrdered ==
    ASSUME TypeOK, RingInv,
           NEW i \in 1 .. Len(queue) + 1, NEW j \in i .. Len(queue) + 1
    PROVE  /\ Pos(Front(i)) + (j - i) <= Pos(Front(j))
           /\ Pos(Front(j)) <= Pos(pb.cur)
<1>0. /\ Len(queue) \in Nat /\ slots_used \in Nat
      /\ \A k \in 1 .. Len(queue) + 1 : Pos(Front(k)) \in 0 .. Size - 1
      /\ \A k \in 1 .. Len(queue) : queue[k].num_slots \in Nat /\ queue[k].num_slots >= 1
  BY Positions, QueuedJob, CdmaAssumption DEF TypeOK
<1>1. \A k \in 1 .. Len(queue) : Pos(Front(k + 1)) = Pos(Front(k)) + queue[k].num_slots
  BY DEF RingInv
<1>2. Pos(Front(Len(queue) + 1)) <= Pos(pb.cur)
  BY <1>0, Positions DEF RingInv, Front
<1>3. ASSUME NEW a \in 1 .. Len(queue) + 1
      PROVE  \A d \in 0 .. Len(queue) + 1 - a : Pos(Front(a)) + d <= Pos(Front(a + d))
  <2> DEFINE L == Len(queue) + 1 - a
             S == {d \in 0 .. L : Pos(Front(a)) + d <= Pos(Front(a + d))}
  <2>1. 0 \in S /\ L \in Nat
    BY <1>0, <1>3
  <2>2. ASSUME NEW d \in 0 .. L - 1, d \in S PROVE d + 1 \in S
    <3>1. a + d \in 1 .. Len(queue) /\ a + (d + 1) = (a + d) + 1 /\ d + 1 \in 0 .. L
      BY <1>0, <2>2
    <3>2. Pos(Front(a)) + d <= Pos(Front(a + d))
      BY <2>2
    <3>4. Pos(Front(a)) \in Int /\ Pos(Front(a + d)) \in Int /\ Pos(Front((a + d) + 1)) \in Int
      <4>1. a + d \in 1 .. Len(queue) + 1 /\ (a + d) + 1 \in 1 .. Len(queue) + 1
        BY <1>0, <3>1
      <4>2. \A k \in 1 .. Len(queue) + 1 : Pos(Front(k)) \in Int
        BY <1>0
      <4> HIDE DEF L, S
      <4> QED BY <1>3, <4>1, <4>2
    <3>6. PICK k \in 1 .. Len(queue) : k = a + d
      BY <3>1
    <3>3. Pos(Front(k + 1)) >= Pos(Front(k)) + 1
      <4>1. Pos(Front(k + 1)) = Pos(Front(k)) + queue[k].num_slots
        BY <1>1
      <4> QED BY <1>0, <3>4, <3>6, <4>1
    <3>5. Pos(Front(a)) + (d + 1) <= Pos(Front(a + (d + 1)))
      BY <3>1, <3>2, <3>3, <3>4, <3>6
    <3> QED BY <3>1, <3>5
  <2>3. \A d \in 0 .. L : d \in S
    <3> HIDE DEF S, L
    <3> QED BY <2>1, <2>2, UpTo
  <2> QED BY <2>3
<1>4. j - i \in 0 .. Len(queue) + 1 - i /\ i + (j - i) = j
  BY <1>0
<1>5. Pos(Front(i)) + (j - i) <= Pos(Front(j))
  BY <1>3, <1>4
<1>6. Pos(Front(j)) <= Pos(pb.cur)
  <2>1. Len(queue) + 1 - j \in 0 .. Len(queue) + 1 - j /\ j + (Len(queue) + 1 - j) = Len(queue) + 1
        /\ j \in 1 .. Len(queue) + 1
    BY <1>0
  <2>2. Pos(Front(j)) + (Len(queue) + 1 - j) <= Pos(Front(Len(queue) + 1))
    BY <1>3, <2>1
  <2>3. Pos(Front(j)) \in Int /\ Pos(Front(Len(queue) + 1)) \in Int /\ Pos(pb.cur) \in Int
    BY <1>0, <2>1, Positions
  <2> QED BY <1>0, <1>2, <2>1, <2>2, <2>3
<1> QED BY <1>5, <1>6

-----------------------------------------------------------------------------
(* What the pops of an update leave: the loop has a closed form.           *)

(* the push buffer after the first k jobs were popped *)
Popped(k) ==
    [cur |-> pb.cur, fence |-> Ahead(pb.fence, Pos(Front(k + 1))), op |-> pb.op,
     handle |-> [i \in Slots |-> pb.handle[i] /\ Gap(pb.fence, i) >= Pos(Front(k + 1))]]

(* One pop takes the closed form one job further. *)
LEMMA PoppedStep ==
    ASSUME TypeOK, RingInv, NEW k \in 1 .. Len(queue)
    PROVE  Popped(k) = push_buffer_pop_from(Popped(k - 1), queue[k].num_slots)
<1> DEFINE a == Pos(Front(k))
           m == queue[k].num_slots
           f == pb.fence
<1>0. (k - 1) + 1 = k /\ k \in 1 .. Len(queue) + 1 /\ k + 1 \in 1 .. Len(queue) + 1
  BY Positions
<1>1. a \in 0 .. Size - 1 /\ m \in Nat /\ Pos(Front(k + 1)) = a + m /\ f \in Slots
      /\ a + m \in 0 .. Size - 1
  BY <1>0, Positions, QueuedJob, CdmaAssumption DEF RingInv
<1> HIDE DEF a, m, f
<1>2. Ahead(Ahead(f, a), m) = Ahead(f, a + m)
  BY <1>1, SizeAssumption DEF Ahead, Slots
<1>3. \A i \in Slots : (Gap(f, i) >= a /\ Gap(Ahead(f, a), i) >= m) <=> Gap(f, i) >= a + m
  BY <1>1, SizeAssumption DEF Ahead, Gap, Slots
<1>4. push_buffer_pop_from(Popped(k - 1), m) =
        [cur |-> pb.cur, fence |-> Ahead(Ahead(f, a), m), op |-> pb.op,
         handle |-> [i \in Slots |-> (pb.handle[i] /\ Gap(f, i) >= a) /\ Gap(Ahead(f, a), i) >= m]]
  <2> DEFINE hd == [i \in Slots |-> pb.handle[i] /\ Gap(f, i) >= a]
  <2>1. Popped(k - 1) = [cur |-> pb.cur, fence |-> Ahead(f, a), op |-> pb.op, handle |-> hd]
    BY <1>0 DEF Popped, a, f
  <2>2. [i \in Slots |-> hd[i] /\ Gap(Ahead(f, a), i) >= m]
          = [i \in Slots |-> (pb.handle[i] /\ Gap(f, i) >= a) /\ Gap(Ahead(f, a), i) >= m]
    OBVIOUS
  <2> HIDE DEF hd
  <2> QED BY <2>1, <2>2, PopFields
<1>5. [i \in Slots |-> (pb.handle[i] /\ Gap(f, i) >= a) /\ Gap(Ahead(f, a), i) >= m]
        = [i \in Slots |-> pb.handle[i] /\ Gap(f, i) >= a + m]
  BY <1>3
<1>6. Popped(k) = [cur |-> pb.cur, fence |-> Ahead(f, a + m), op |-> pb.op,
                   handle |-> [i \in Slots |-> pb.handle[i] /\ Gap(f, i) >= a + m]]
  BY <1>1 DEF Popped, f
<1> QED BY <1>2, <1>4, <1>5, <1>6 DEF m

(* No pop changes nothing. *)
LEMMA PoppedNone ==
    ASSUME TypeOK, RingInv
    PROVE  Popped(0) = pb
<1>1. Pos(Front(0 + 1)) = 0 /\ pb.fence \in Slots
  BY Positions, GapZero DEF RingInv, Pos
<1>2. Ahead(pb.fence, 0) = pb.fence /\ \A i \in Slots : Gap(pb.fence, i) >= 0
  BY <1>1, SizeAssumption DEF Ahead, Gap, Slots
<1>3. pb \in PushBufferType({"noop", "incr"})
  BY DEF TypeOK
<1>4. pb.handle \in [Slots -> BOOLEAN]
      /\ pb = [cur |-> pb.cur, fence |-> pb.fence, op |-> pb.op, handle |-> pb.handle]
  BY <1>3, PbFields
<1>5. [i \in Slots |-> pb.handle[i] /\ Gap(pb.fence, i) >= 0] = pb.handle
  BY <1>2, <1>4
<1>6. Popped(0) = [cur |-> pb.cur, fence |-> Ahead(pb.fence, 0), op |-> pb.op,
                   handle |-> [i \in Slots |-> pb.handle[i] /\ Gap(pb.fence, i) >= 0]]
  BY <1>1, Zenon DEF Popped
<1> QED BY <1>2, <1>4, <1>5, <1>6

(* The loop of update_cdma_locked computes the closed form. *)
LEMMA PopJobsIsPopped ==
    ASSUME TypeOK, RingInv, NEW n \in 0 .. Len(queue)
    PROVE  PopJobs(n) = Popped(n)
<1> DEFINE Step(g) == [i \in 0 .. n |-> IF i = 0 THEN pb
                                        ELSE push_buffer_pop_from(g[i - 1], queue[i].num_slots)]
           h == [i \in 0 .. n |-> Popped(i)]
           g0 == CHOOSE g : g = Step(g)
<1>0. n \in Nat /\ n <= Len(queue) /\ Len(queue) \in Nat
  BY Positions
<1>1. h = Step(h)
  <2>1. \A i \in 0 .. n : Popped(i) = IF i = 0 THEN pb
                          ELSE push_buffer_pop_from(h[i - 1], queue[i].num_slots)
    <3> SUFFICES ASSUME NEW i \in 0 .. n
                 PROVE  Popped(i) = IF i = 0 THEN pb
                          ELSE push_buffer_pop_from(h[i - 1], queue[i].num_slots)
      OBVIOUS
    <3>1. CASE i = 0
      BY <3>1, PoppedNone
    <3>2. CASE i # 0
      <4>1. i \in 1 .. Len(queue) /\ i - 1 \in 0 .. n
        BY <1>0, <3>2
      <4>2. h[i - 1] = Popped(i - 1)
        BY <4>1
      <4> HIDE DEF h
      <4> QED BY <3>2, <4>1, <4>2, PoppedStep
    <3> QED BY <3>1, <3>2
  <2> QED BY <2>1, Zenon
<1>2. g0 = Step(g0)
  <2> HIDE DEF Step, h
  <2> QED BY <1>1
<1>3. PopJobs(n) = g0[n]
  BY DEF PopJobs
<1> HIDE DEF g0
<1>4. \A i \in 0 .. n : g0[i] = IF i = 0 THEN pb
                        ELSE push_buffer_pop_from(g0[i - 1], queue[i].num_slots)
  BY <1>2, Zenon
<1> DEFINE S == {k \in 0 .. n : g0[k] = Popped(k)}
<1>5. 0 \in S
  BY <1>0, <1>4, PoppedNone
<1>6. ASSUME NEW k \in 0 .. n - 1, k \in S PROVE k + 1 \in S
  <2>1. k + 1 \in 0 .. n /\ k + 1 # 0 /\ (k + 1) - 1 = k /\ k + 1 \in 1 .. Len(queue)
    BY <1>0
  <2>2. g0[k + 1] = push_buffer_pop_from(g0[k], queue[k + 1].num_slots)
    BY <1>4, <2>1
  <2>3. g0[k] = Popped(k)
    BY <1>6
  <2>4. Popped(k + 1) = push_buffer_pop_from(Popped(k), queue[k + 1].num_slots)
    BY <2>1, PoppedStep
  <2> QED BY <2>1, <2>2, <2>3, <2>4
<1>7. \A k \in 0 .. n : k \in S
  <2> HIDE DEF S
  <2> QED BY <1>0, <1>5, <1>6, UpTo
<1> QED BY <1>0, <1>3, <1>7

-----------------------------------------------------------------------------
(* Words, prefixes and the first live slot have their types *)

LEMMA AddType ==
    ASSUME NEW a \in Word, NEW b \in 0 .. M - 1
    PROVE  Add(a, b) \in Word
BY HalfAssumption DEF Add, Word, M

LEMMA SubType ==
    ASSUME NEW a \in Word, NEW b \in Word
    PROVE  Sub(a, b) \in 0 .. M - 1
BY HalfAssumption DEF Sub, Word, M

(* A loop over the queue that stops at the first entry not in ok: every    *)
(* entry before is in ok, and the entry it stops at is not.                *)
LEMMA PrefixLenIs ==
    ASSUME NEW L \in Nat, NEW ok \in SUBSET (1 .. L)
    PROVE  /\ PrefixLen(ok) \in 0 .. L
           /\ \A i \in 1 .. PrefixLen(ok) : i \in ok
           /\ PrefixLen(ok) < L => PrefixLen(ok) + 1 \notin ok
<1>1. PICK s \in 0 .. L : /\ {n \in ok : 1 .. n \subseteq ok} = 1 .. s
                          /\ Cardinality({n \in ok : 1 .. n \subseteq ok}) = s
                          /\ s < L => s + 1 \notin ok
  BY InitialRun
<1>2. PrefixLen(ok) = s
  BY <1>1 DEF PrefixLen
<1>3. \A i \in 1 .. s : i \in ok
  BY <1>1
<1> QED BY <1>1, <1>2, <1>3

LEMMA FinishedIs ==
    ASSUME TypeOK
    PROVE  Finished \in 0 .. Len(queue) /\ \A i \in 1 .. Finished : Expired(queue[i])
<1> DEFINE ok == {i \in DOMAIN queue : Expired(queue[i])}
<1>1. Len(queue) \in Nat /\ DOMAIN queue = 1 .. Len(queue)
  BY DEF TypeOK
<1>2. ok \in SUBSET (1 .. Len(queue)) /\ Finished = PrefixLen(ok)
  BY <1>1 DEF Finished
<1>3. \A i \in ok : Expired(queue[i])
  OBVIOUS
<1> HIDE DEF ok
<1> QED BY <1>1, <1>2, <1>3, PrefixLenIs

(* The jobs a teardown passes over, the rest, and those it cancels. *)
LEMMA SkippedIs ==
    ASSUME TypeOK
    PROVE  /\ Skipped \in 0 .. Len(queue)
           /\ \A i \in 1 .. Skipped : ~(hw < queue[i].syncpt_end)
           /\ Skipped < Len(queue) => hw < queue[Skipped + 1].syncpt_end
<1> DEFINE ok == {i \in DOMAIN queue : ~(hw < queue[i].syncpt_end)}
<1>1. Len(queue) \in Nat /\ DOMAIN queue = 1 .. Len(queue)
  BY DEF TypeOK
<1>2. ok \in SUBSET (1 .. Len(queue)) /\ Skipped = PrefixLen(ok)
  BY <1>1 DEF Skipped
<1>3. \A i \in 1 .. Len(queue) : i \in ok <=> ~(hw < queue[i].syncpt_end)
  BY <1>1
<1> HIDE DEF ok
<1>4. Skipped \in 0 .. Len(queue) /\ (\A i \in 1 .. Skipped : i \in ok)
      /\ (Skipped < Len(queue) => Skipped + 1 \notin ok)
  BY <1>1, <1>2, PrefixLenIs
<1> QED BY <1>1, <1>3, <1>4

LEMMA RestIs ==
    ASSUME TypeOK
    PROVE  /\ Len(Rest) = Len(queue) - Skipped /\ Rest \in Seq(Job)
           /\ \A i \in 1 .. Len(Rest) : Rest[i] = queue[Skipped + i]
           /\ Rest = <<>> <=> Skipped = Len(queue)
<1>1. queue \in Seq(Job) /\ Len(queue) \in Nat /\ Skipped \in 0 .. Len(queue)
  BY SkippedIs DEF TypeOK
<1>2. /\ Len(Rest) = Len(queue) - Skipped /\ Rest \in Seq(Job)
      /\ \A i \in 1 .. Len(Rest) : Rest[i] = queue[Skipped + i]
  BY <1>1 DEF Rest
<1> QED BY <1>1, <1>2

LEMMA CancelledIs ==
    ASSUME TypeOK
    PROVE  /\ Cancelled \in 0 .. Len(Rest)
           /\ \A i \in 1 .. Cancelled : Rest[i].clientid = tclient
           /\ Cancelled < Len(Rest) => Rest[Cancelled + 1].clientid # tclient
<1> DEFINE ok == {i \in DOMAIN Rest : SameClient(Rest[i])}
<1>1. Len(Rest) \in Nat /\ DOMAIN Rest = 1 .. Len(Rest)
  BY RestIs
<1>2. ok \in SUBSET (1 .. Len(Rest)) /\ Cancelled = PrefixLen(ok)
  BY <1>1 DEF Cancelled
<1>3. \A i \in 1 .. Len(Rest) : i \in ok <=> Rest[i].clientid = tclient
  BY <1>1 DEF SameClient
<1> HIDE DEF ok
<1>4. Cancelled \in 0 .. Len(Rest) /\ (\A i \in 1 .. Cancelled : i \in ok)
      /\ (Cancelled < Len(Rest) => Cancelled + 1 \notin ok)
  BY <1>1, <1>2, PrefixLenIs
<1> QED BY <1>1, <1>3, <1>4

(* There is a first slot after from that is not a NOOP, or cur. *)
LEMMA FirstLiveIs ==
    ASSUME TypeOK, NEW op, NEW from \in Slots
    PROVE  /\ FirstLive(op, from) \in Slots
           /\ Gap(from, FirstLive(op, from)) <= Gap(from, pb.cur)
           /\ FirstLive(op, from) = pb.cur \/ op[FirstLive(op, from)] # "noop"
           /\ \A j \in Slots : Gap(from, j) < Gap(from, FirstLive(op, from)) => op[j] = "noop"
<1> DEFINE live == {k \in Slots : k = pb.cur \/ op[k] # "noop"}
           gaps == {Gap(from, k) : k \in live}
           Good(k) == /\ Gap(from, k) <= Gap(from, pb.cur)
                      /\ k = pb.cur \/ op[k] # "noop"
                      /\ \A j \in Slots : Gap(from, j) < Gap(from, k) => op[j] = "noop"
<1>1. pb.cur \in live /\ live \subseteq Slots
  BY Positions
<1>2. \A k \in Slots : Gap(from, k) \in Nat
  BY GapType
<1>3. gaps \in SUBSET Nat /\ Gap(from, pb.cur) \in gaps
  BY <1>1, <1>2
<1>4. PICK m \in gaps : \A k \in gaps : m <= k
  <2> HIDE DEF gaps
  <2> QED BY <1>3, LeastElement
<1>5. PICK k \in live : m = Gap(from, k)
  BY <1>4
<1>6. \A j \in live : Gap(from, k) <= Gap(from, j)
  BY <1>4, <1>5
<1>7. \A j \in Slots : Gap(from, j) < Gap(from, k) => op[j] = "noop"
  BY <1>1, <1>2, <1>6
<1>8. k \in Slots /\ Good(k)
  BY <1>1, <1>5, <1>6, <1>7
<1>9. FirstLive(op, from) = CHOOSE x \in Slots : Good(x)
  BY DEF FirstLive
<1> HIDE DEF Good
<1>10. FirstLive(op, from) \in Slots /\ Good(FirstLive(op, from))
  BY <1>8, <1>9
<1> QED BY <1>10 DEF Good

-----------------------------------------------------------------------------
(* Submits *)

(* A step that moves client c keeps the submitter if c is inside the       *)
(* submit before and after, or outside before and after.                   *)
LEMMA SubmittingKept ==
    ASSUME WaitTypes, NEW c \in Clients, NEW l, Goto(c, l),
           pc[c] \in SubmitPcs <=> l \in SubmitPcs
    PROVE  /\ Submitting' = Submitting
           /\ \A d \in Clients : pc'[d] \in SubmitPcs <=> pc[d] \in SubmitPcs
<1>1. \A d \in Clients : pc'[d] = IF d = c THEN l ELSE pc[d]
  BY DEF WaitTypes, Goto
<1>2. \A d \in Clients : pc'[d] \in SubmitPcs <=> pc[d] \in SubmitPcs
  BY <1>1
<1>3. Submitting' <=> \E d \in Clients : pc'[d] \in SubmitPcs
  BY DEF Submitting
<1> QED BY <1>2, <1>3 DEF Submitting

(* A submit in progress keeps the others out of cdma_stop. *)
LEMMA ClosingNobodySubmits ==
    ASSUME WaitTypes, CloserAlone, NEW c \in Clients, Closing(c)
    PROVE  ~Submitting /\ \A d \in Clients : pc[d] \notin SubmitPcs
BY DEF WaitTypes, CloserAlone, Closing, Submitting, StopPcs, SubmitPcs

(* The parts of SubmitInv that a step leaves alone *)
LEMMA SubmitKept ==
    ASSUME SubmitInv,
           \A d \in Clients : pc'[d] \in SubmitPcs <=> pc[d] \in SubmitPcs,
           Submitting' = Submitting,
           UNCHANGED <<slots_used, todo, end, max_val, running>>,
           (\A c \in Clients : pc'[c] # "push") => slots_free' = 0,
           queue' # <<>> => queue # <<>>
    PROVE  SubmitInv'
<1>1. \A c, d \in Clients : pc'[c] \in SubmitPcs /\ pc'[d] \in SubmitPcs => c = d
  BY DEF SubmitInv
<1> QED BY <1>1 DEF SubmitInv, SubmitPcs

LEMMA SubmitNext == ChannelInv /\ [Next]_vars => SubmitInv'
<1> SUFFICES ASSUME ChannelInv, [Next]_vars PROVE SubmitInv'
  OBVIOUS
<1> USE DEF submitVars
<1>0. WaitTypes /\ CloserAlone /\ SubmitInv /\ TypeOK
  BY DEF ChannelInv
<1>1. ASSUME UNCHANGED <<pc, slots_used, todo, end, max_val, running, slots_free>>,
             queue' # <<>> => queue # <<>>
      PROVE  SubmitInv'
  <2>1. Submitting' = Submitting
    BY <1>1 DEF Submitting
  <2> QED BY <1>0, <1>1, <2>1, SubmitKept DEF SubmitInv
<1>2. ASSUME NEW c \in Clients, NEW l, Goto(c, l), pc[c] \in SubmitPcs <=> l \in SubmitPcs,
             pc[c] # "push",
             UNCHANGED <<slots_used, todo, end, max_val, running, slots_free, queue>>
      PROVE  SubmitInv'
  <2>1. /\ Submitting' = Submitting
        /\ \A d \in Clients : pc'[d] \in SubmitPcs <=> pc[d] \in SubmitPcs
    BY <1>0, <1>2, SubmittingKept
  <2>2. (\A d \in Clients : pc'[d] # "push") => slots_free' = 0
    <3>1. ASSUME NEW d \in Clients, pc[d] = "push" PROVE pc'[d] = "push"
      BY <1>0, <1>2, <3>1 DEF Goto, WaitTypes
    <3> QED BY <1>0, <1>2, <3>1 DEF SubmitInv
  <2> QED BY <1>0, <1>2, <2>1, <2>2, SubmitKept
<1>3. ASSUME NEW c \in Clients, ClientStep(c) PROVE SubmitInv'
  <2>1. CASE Submit(c)
    <3>1. \E l \in {"idle", "lock", "flush_retry"} : Goto(c, l)
      BY <2>1 DEF Submit, AfterCheck
    <3> QED BY <1>2, <2>1, <3>1 DEF Submit, SubmitPcs
  <2>2. CASE Flush(c)
    <3>1. \E l \in {"idle", "lock", "flush_retry", "flush_down"} : Goto(c, l)
      BY <2>2 DEF Flush, AfterCheck, WaitLocked
    <3> QED BY <1>2, <2>2, <3>1 DEF Flush, SubmitPcs
  <2>3. CASE FlushTimeout(c)
    <3>1. \E l \in {"idle", "lock"} : Goto(c, l)
      BY <2>3 DEF FlushTimeout, AfterCheck
    <3> QED BY <1>2, <2>3, <3>1 DEF FlushTimeout, SubmitPcs
  <2>4. CASE Down(c)
    <3>1. pc[c] \in SubmitPcs <=> Awoken(pc[c]) \in SubmitPcs
      BY <2>4 DEF Down, Asleep, Awoken, SubmitPcs
    <3>2. pc[c] # "push"
      BY <2>4 DEF Down, Asleep
    <3> QED BY <1>2, <2>4, <3>1, <3>2 DEF Down
  <2>5. ASSUME NEW n \in 1 .. MaxSlots, Begin(c, n) PROVE SubmitInv'
    <3>1. \A d \in Clients : pc'[d] = IF d = c THEN "push" ELSE pc[d]
      BY <1>0, <2>5 DEF Begin, Goto, WaitTypes
    <3>2. \A d \in Clients : pc[d] \notin SubmitPcs
      BY <2>5 DEF Begin, Submitting
    <3>3. \A d \in Clients : pc'[d] \in SubmitPcs <=> d = c
      BY <3>1, <3>2 DEF SubmitPcs
    <3>4. slots_used' + todo' \in 1 .. MaxSlots /\ end' = max_val' /\ running'
      BY <2>5, CdmaAssumption DEF Begin, cdma_start
    <3>5. Submitting'
      BY <3>3 DEF Submitting
    <3>6. pc'[c] = "push" /\ queue' = queue
      BY <2>5, <3>1 DEF Begin
    <3> QED BY <3>3, <3>4, <3>5, <3>6 DEF SubmitInv
  <2>6. CASE Push(c)
    <3>1. Submitting /\ Submitting' /\ pc[c] = "push" /\ pc' = pc
      BY <2>6 DEF Push, Submitting, SubmitPcs
    <3>2. slots_used' + todo' = slots_used + todo
      BY <1>0, <2>6 DEF Push, TypeOK
    <3> QED BY <1>0, <2>6, <3>1, <3>2 DEF Push, SubmitInv
  <2>7. CASE PushFull(c)
    <3>1. PICK l \in {"push_retry", "push_down"} : Goto(c, l)
      BY <2>7 DEF PushFull, WaitLocked
    <3>2. pc[c] = "push" /\ slots_free = 0
          /\ UNCHANGED <<slots_used, todo, end, max_val, running, slots_free, queue>>
      BY <1>0, <2>7, CdmaAssumption DEF PushFull, FreeSlots, TypeOK
    <3>3. /\ Submitting' = Submitting
          /\ \A d \in Clients : pc'[d] \in SubmitPcs <=> pc[d] \in SubmitPcs
      BY <1>0, <3>1, <3>2, SubmittingKept DEF SubmitPcs
    <3> QED BY <1>0, <3>2, <3>3, SubmitKept
  <2>8. CASE PushRetry(c)
    <3>1. \E l \in {"push", "push_retry", "push_down"} : Goto(c, l)
      BY <2>8 DEF PushRetry, WaitLocked
    <3> QED BY <1>2, <2>8, <3>1 DEF PushRetry, SubmitPcs
  <2>9. CASE End(c)
    <3>1. \A d \in Clients : pc'[d] = IF d = c THEN "idle" ELSE pc[d]
      BY <1>0, <2>9 DEF End, Goto, WaitTypes
    <3>2. \A d \in Clients : d # c => pc[d] \notin SubmitPcs
      BY <1>0, <2>9 DEF SubmitInv, End, SubmitPcs
    <3>3. \A d \in Clients : pc'[d] \notin SubmitPcs
      BY <3>1, <3>2 DEF SubmitPcs
    <3>4. ~Submitting'
      BY <3>3 DEF Submitting
    <3>5. slots_used' = 0 /\ todo' = 0 /\ slots_free' = 0 /\ running' = running
      BY <2>9 DEF End
    <3>6. running
      BY <1>0, <2>9 DEF SubmitInv, End, Submitting, SubmitPcs
    <3> QED BY <3>3, <3>4, <3>5, <3>6 DEF SubmitInv
  <2>10. CASE StopWait(c)
    <3>1. \E l \in {"stop_retry", "stop_down"} : Goto(c, l)
      BY <2>10 DEF StopWait, WaitLocked
    <3> QED BY <1>2, <2>10, <3>1 DEF StopWait, Closing, SubmitPcs
  <2>11. CASE Close(c)
    <3>1. \A d \in Clients : pc[d] \notin SubmitPcs
      BY <1>0, <2>11, ClosingNobodySubmits DEF Close
    <3>2. \A d \in Clients : pc'[d] \notin SubmitPcs
      BY <1>0, <2>11, <3>1 DEF Close, Goto, WaitTypes, SubmitPcs
    <3>3. ~Submitting /\ ~Submitting'
      BY <3>1, <3>2 DEF Submitting
    <3>4. queue' = <<>>
      BY <1>0, <2>11 DEF Close, SubmitInv
    <3>5. slots_free = 0 /\ UNCHANGED <<slots_used, todo, slots_free>>
      BY <1>0, <2>11, <3>1 DEF Close, SubmitInv, SubmitPcs
    <3> QED BY <1>0, <3>2, <3>3, <3>4, <3>5 DEF SubmitInv
  <2>12. CASE Reopen(c)
    BY <1>1, <2>12 DEF Reopen
  <2> QED BY <1>3, <2>1, <2>2, <2>3, <2>4, <2>5, <2>6, <2>7, <2>8, <2>9, <2>10,
             <2>11, <2>12 DEF ClientStep
<1>4. ASSUME NEW n \in 0 .. Len(queue), Update(n) PROVE SubmitInv'
  <2>1. queue' # <<>> => queue # <<>>
    <3>1. queue \in Seq(Job) /\ queue' = SubSeq(queue, n + 1, Len(queue))
      BY <1>0, <1>4 DEF Update, TypeOK
    <3> QED BY <3>1
  <2> QED BY <1>1, <1>4, <2>1 DEF Update
<1>5. CASE Suspend
  <2>1. \A d \in Clients : pc[d] = "idle" /\ pc'[d] = "idle"
    BY <1>5 DEF Suspend
  <2>2. ~Submitting /\ ~Submitting' /\ queue' = <<>>
    BY <1>5, <2>1 DEF Suspend, Submitting, SubmitPcs
  <2> QED BY <1>0, <1>5, <2>1, <2>2 DEF Suspend, SubmitInv, SubmitPcs
<1>6. CASE DmaFetch BY <1>1, <1>6 DEF DmaFetch
<1>7. CASE EngineIncr BY <1>1, <1>7 DEF EngineIncr
<1>8. CASE TimerFire \/ HandlerReturns \/ HandlerStops
  BY <1>1, <1>8 DEF TimerFire, HandlerReturns, HandlerStops
<1>9. CASE Teardown
  <2>1. UNCHANGED <<pc, slots_used, todo, end, max_val, running, slots_free>>
    BY <1>9 DEF Teardown
  <2>2. queue' # <<>> => queue # <<>>
    <3>1. CASE Rest = <<>>
      BY <1>9, <3>1 DEF Teardown
    <3>2. CASE Rest # <<>>
      BY <1>0, <3>2, RestIs, SkippedIs DEF TypeOK
    <3> QED BY <3>1, <3>2
  <2> QED BY <1>1, <2>1, <2>2
<1>10. CASE UNCHANGED vars BY <1>1, <1>10 DEF vars
<1> QED BY <1>3, <1>4, <1>5, <1>6, <1>7, <1>8, <1>9, <1>10 DEF Next

-----------------------------------------------------------------------------
(* Types *)

(* What a teardown does to the queue: only timeouts are taken away. *)
LEMMA TeardownQueue ==
    ASSUME TypeOK, Teardown
    PROVE  /\ queue' \in Seq(Job) /\ Len(queue') = Len(queue)
           /\ \A i \in 1 .. Len(queue) :
                /\ queue'[i].first_get = queue[i].first_get
                /\ queue'[i].num_slots = queue[i].num_slots
                /\ queue'[i].syncpt_end = queue[i].syncpt_end
                /\ queue'[i].clientid = queue[i].clientid
<1>0. queue \in Seq(Job) /\ Len(queue) \in Nat /\ DOMAIN queue = 1 .. Len(queue)
  BY DEF TypeOK
<1>1. CASE Rest = <<>>
  BY <1>0, <1>1 DEF Teardown
<1>2. CASE Rest # <<>>
  <2> DEFINE done == {Skipped + i : i \in 1 .. Cancelled}
             j(i) == [queue[i] EXCEPT !.timeout = @ /\ i \notin done]
  <2>1. queue' = [i \in DOMAIN queue |-> j(i)]
    BY <1>2 DEF Teardown
  <2>2. ASSUME NEW i \in 1 .. Len(queue)
        PROVE  /\ j(i) \in Job
               /\ j(i).first_get = queue[i].first_get /\ j(i).num_slots = queue[i].num_slots
               /\ j(i).syncpt_end = queue[i].syncpt_end /\ j(i).clientid = queue[i].clientid
    <3>1. queue[i] \in Job /\ (queue[i].timeout /\ i \notin done) \in BOOLEAN
      BY QueuedJob
    <3> HIDE DEF done
    <3> QED BY <3>1 DEF Job
  <2> HIDE DEF j
  <2>3. queue' \in [1 .. Len(queue) -> Job]
    BY <1>0, <2>1, <2>2
  <2>4. queue' \in Seq(Job) /\ Len(queue') = Len(queue)
    BY <1>0, <2>3
  <2> QED BY <1>0, <2>1, <2>2, <2>4
<1> QED BY <1>1, <1>2

(* What it does to the ring: some slots become NOOPs. *)
LEMMA TeardownPb ==
    ASSUME TypeOK, Teardown
    PROVE  /\ pb' \in PushBufferType({"noop", "incr"})
           /\ pb'.cur = pb.cur /\ pb'.fence = pb.fence /\ pb'.handle = pb.handle
<1>0. pb \in PushBufferType({"noop", "incr"})
  BY DEF TypeOK
<1>1. CASE Rest = <<>>
  BY <1>0, <1>1 DEF Teardown
<1>2. CASE Rest # <<>>
  <2>1. PICK noops : pb' = [pb EXCEPT !.op = [i \in Slots |-> IF i \in noops THEN "noop" ELSE pb.op[i]]]
    BY <1>2 DEF Teardown
  <2> DEFINE op == [i \in Slots |-> IF i \in noops THEN "noop" ELSE pb.op[i]]
  <2>2. op \in [Slots -> {"noop", "incr"}]
    BY <1>0, PbFields
  <2> HIDE DEF op
  <2>3. pb' = [pb EXCEPT !.op = op]
    BY <2>1 DEF op
  <2> QED BY <1>0, <2>2, <2>3 DEF PushBufferType
<1> QED BY <1>1, <1>2

(* A push and a pop keep the ring well formed. *)
LEMMA PushPb ==
    ASSUME NEW b \in PushBufferType({"noop", "incr"})
    PROVE  LET p == push_buffer_push_to(b, "incr")
           IN  /\ p \in PushBufferType({"noop", "incr"})
               /\ p.cur = Ahead(b.cur, 1) /\ p.fence = b.fence
               /\ p.op = [b.op EXCEPT ![b.cur] = "incr"]
               /\ p.handle = [b.handle EXCEPT ![b.cur] = TRUE]
<1>1. /\ b.cur \in Slots /\ b.fence \in Slots
      /\ b.op \in [Slots -> {"noop", "incr"}] /\ b.handle \in [Slots -> BOOLEAN]
      /\ b = [cur |-> b.cur, fence |-> b.fence, op |-> b.op, handle |-> b.handle]
  BY PbFields
<1>2. Ahead(b.cur, 1) \in Slots
  BY <1>1, AheadType, SizeAssumption
<1> DEFINE o == [b.op EXCEPT ![b.cur] = "incr"]
           h == [b.handle EXCEPT ![b.cur] = TRUE]
<1>3. push_buffer_push_to(b, "incr") =
        [[[b EXCEPT !.op = o] EXCEPT !.handle = h] EXCEPT !.cur = Ahead(b.cur, 1)]
  BY <1>1 DEF push_buffer_push_to
<1>4. o \in [Slots -> {"noop", "incr"}] /\ h \in [Slots -> BOOLEAN]
  BY <1>1
<1> HIDE DEF o, h
<1>5. [b EXCEPT !.op = o] = [cur |-> b.cur, fence |-> b.fence, op |-> o, handle |-> b.handle]
  BY <1>1
<1>6. [[b EXCEPT !.op = o] EXCEPT !.handle = h] = [cur |-> b.cur, fence |-> b.fence, op |-> o, handle |-> h]
  <2> DEFINE r == [b EXCEPT !.op = o]
  <2>1. r = [cur |-> b.cur, fence |-> b.fence, op |-> o, handle |-> b.handle]
    BY <1>5
  <2> HIDE DEF r
  <2>2. [r EXCEPT !.handle = h] = [cur |-> b.cur, fence |-> b.fence, op |-> o, handle |-> h]
    BY <2>1
  <2> QED BY <2>2 DEF r
<1>7. push_buffer_push_to(b, "incr") = [cur |-> Ahead(b.cur, 1), fence |-> b.fence, op |-> o, handle |-> h]
  BY <1>3, <1>6
<1> DEFINE p == push_buffer_push_to(b, "incr")
<1>8. p.cur = Ahead(b.cur, 1) /\ p.fence = b.fence /\ p.op = o /\ p.handle = h
  BY <1>7
<1>9. p \in PushBufferType({"noop", "incr"})
  BY <1>1, <1>2, <1>4, <1>7 DEF PushBufferType
<1> QED BY <1>8, <1>9 DEF o, h

LEMMA PoppedPb ==
    ASSUME TypeOK, NEW k \in 0 .. Len(queue)
    PROVE  /\ Popped(k) \in PushBufferType({"noop", "incr"})
           /\ Popped(k).cur = pb.cur /\ Popped(k).op = pb.op
           /\ Popped(k).fence = Ahead(pb.fence, Pos(Front(k + 1)))
<1>1. pb \in PushBufferType({"noop", "incr"}) /\ pb.fence \in Slots
  BY PbFields DEF TypeOK
<1>2. Pos(Front(k + 1)) \in 0 .. Size
  BY Positions, SizeAssumption
<1>3. Ahead(pb.fence, Pos(Front(k + 1))) \in Slots
  BY <1>1, <1>2, AheadType
<1>4. [i \in Slots |-> pb.handle[i] /\ Gap(pb.fence, i) >= Pos(Front(k + 1))] \in [Slots -> BOOLEAN]
  OBVIOUS
<1> QED BY <1>1, <1>3, <1>4, PbFields DEF Popped, PushBufferType

LEMMA InitPb ==
    push_buffer_init("noop") \in PushBufferType({"noop", "incr"})
BY SizeAssumption DEF push_buffer_init, PushBufferType, Slots

(* The timer record a step sets is well typed. *)
TimerRec == [on : BOOLEAN, client : Clients \cup {None}, val : Word]

LEMMA TimerType ==
    ASSUME TypeOK
    PROVE  /\ Timeout \in TimerRec
           /\ \A t \in TimerRec : StopTimer(t) \in TimerRec
           /\ \A t \in TimerRec, j \in Job : StartTimer(t, j) \in TimerRec
<1>1. Timeout \in TimerRec
  BY DEF TypeOK, Timeout, TimerRec
<1>2. 0 \in Word
  BY HalfAssumption DEF Word, M
<1>3. \A t \in TimerRec : StopTimer(t) \in TimerRec
  BY <1>2 DEF StopTimer, TimerRec
<1>4. \A t \in TimerRec, j \in Job : StartTimer(t, j) \in TimerRec
  BY DEF StartTimer, TimerRec, Job
<1> QED BY <1>1, <1>3, <1>4

LEMMA TimerSet ==
    ASSUME NEW t \in TimerRec, SetTimer(t)
    PROVE  timer' \in BOOLEAN /\ tclient' \in Clients \cup {None} /\ tval' \in Word
BY DEF SetTimer, TimerRec

(* The parts of TypeOK outside the waits *)
HwTypes == hw \in Word /\ max_val \in Word /\ get \in Slots /\ last_put \in Slots /\ pipe \in 0 .. PipeDepth
RingTypes == pb \in PushBufferType({"noop", "incr"}) /\ queue \in Seq(Job) /\ running \in BOOLEAN
SubmitTypes ==
    /\ slots_free \in 0 .. Size - 1 /\ slots_used \in 0 .. MaxSlots
    /\ first_get \in Slots /\ todo \in 0 .. MaxSlots /\ end \in Word
TimeoutTypes ==
    /\ timer \in BOOLEAN /\ tclient \in Clients \cup {None} /\ tval \in Word
    /\ work \in {"idle", "blocked", "stopping"} /\ fired \in Word
    /\ late \in 0 .. MaxLate /\ timedout \subseteq Clients /\ lost \in BOOLEAN

LEMMA TypeParts == TypeOK <=> HwTypes /\ RingTypes /\ SubmitTypes /\ TimeoutTypes /\ WaitTypes
BY DEF TypeOK, HwTypes, RingTypes, SubmitTypes, TimeoutTypes, WaitTypes, Pcs

(* The counters, the DMA's registers and the pipe *)
LEMMA HwTypesNext == ChannelInv /\ [Next]_vars => HwTypes'
<1> SUFFICES ASSUME ChannelInv, [Next]_vars PROVE HwTypes'
  OBVIOUS
<1>0. TypeOK /\ HwTypes /\ SubmitInv
  BY TypeParts DEF ChannelInv
<1>1. ASSUME UNCHANGED <<hw, max_val, get, pipe>>, last_put' = last_put \/ last_put' = pb.cur
      PROVE  HwTypes'
  BY <1>0, <1>1, Positions DEF HwTypes
<1> USE DEF hwVars, cdma_kick
<1>2. ASSUME NEW c \in Clients, ClientStep(c) PROVE HwTypes'
  <2>1. CASE Submit(c) BY <1>1, <2>1 DEF Submit
  <2>2. CASE Flush(c) BY <1>1, <2>2 DEF Flush
  <2>3. CASE FlushTimeout(c) BY <1>1, <2>3 DEF FlushTimeout
  <2>4. CASE Down(c) BY <1>1, <2>4 DEF Down
  <2>5. ASSUME NEW n \in 1 .. MaxSlots, Begin(c, n) PROVE HwTypes'
    <3>1. max_val \in Word /\ hw \in Word /\ Sub(max_val, hw) \in 0 .. M - 1
      BY <1>0, SubType DEF HwTypes
    <3>2. n \in 0 .. M - 1
      BY <2>5, <3>1, CdmaAssumption, HalfAssumption DEF Begin, M
    <3>3. max_val' \in Word /\ hw' = hw /\ pipe' = pipe
      BY <2>5, <3>1, <3>2, AddType DEF Begin
    <3>4. get' \in Slots /\ last_put' \in Slots
      BY <1>0, <2>5, Positions DEF Begin, cdma_start, HwTypes
    <3> QED BY <1>0, <3>3, <3>4 DEF HwTypes
  <2>6. CASE Push(c) BY <1>1, <2>6 DEF Push
  <2>7. CASE PushFull(c) BY <1>1, <2>7 DEF PushFull
  <2>8. CASE PushRetry(c) BY <1>1, <2>8 DEF PushRetry
  <2>9. CASE End(c) BY <1>1, <2>9 DEF End
  <2>10. CASE StopWait(c) BY <1>1, <2>10 DEF StopWait
  <2>11. CASE Close(c) BY <1>1, <2>11 DEF Close
  <2>12. CASE Reopen(c) BY <1>1, <2>12 DEF Reopen
  <2> QED BY <1>2, <2>1, <2>2, <2>3, <2>4, <2>5, <2>6, <2>7, <2>8, <2>9, <2>10,
             <2>11, <2>12 DEF ClientStep
<1>3. CASE \E n \in 0 .. Len(queue) : Update(n) BY <1>1, <1>3 DEF Update
<1>4. CASE Suspend BY <1>1, <1>4 DEF Suspend
<1>5. CASE DmaFetch
  <2>1. Ahead(get, 1) \in Slots
    BY <1>0, AheadType, SizeAssumption DEF HwTypes
  <2>2. pipe' \in 0 .. PipeDepth
    BY <1>0, <1>5, CdmaAssumption DEF DmaFetch, HwTypes
  <2> QED BY <1>0, <1>5, <2>1, <2>2 DEF DmaFetch, HwTypes
<1>6. CASE EngineIncr
  <2>1. Add(hw, 1) \in Word
    BY <1>0, AddType, HalfAssumption DEF HwTypes, M
  <2>2. pipe - 1 \in 0 .. PipeDepth
    BY <1>0, <1>6, CdmaAssumption DEF EngineIncr, HwTypes
  <2> QED BY <1>0, <1>6, <2>1, <2>2 DEF EngineIncr, HwTypes
<1>7. CASE TimerFire \/ HandlerReturns \/ HandlerStops
  BY <1>1, <1>7 DEF TimerFire, HandlerReturns, HandlerStops
<1>8. CASE Teardown
  <2>1. pipe' = 0 /\ max_val' = max_val
    BY <1>8 DEF Teardown, cdma_timeout_teardown_begin
  <2>2. CASE Rest = <<>>
    BY <1>0, <1>8, <2>1, <2>2, CdmaAssumption, Positions DEF Teardown, HwTypes
  <2>3. CASE Rest # <<>>
    <3>1. Rest \in Seq(Job) /\ Len(Rest) \in Nat /\ Len(Rest) > 0
      BY <1>0, <2>3, RestIs
    <3>2. Rest[1] \in Job /\ \A i \in 1 .. Cancelled : Rest[i] \in Job
      BY <1>0, <3>1, CancelledIs
    <3>3. Rest[1].first_get \in Slots /\ Cancelled \in Nat
          /\ \A i \in 1 .. Cancelled : Rest[i].syncpt_end \in Word
      BY <1>0, <3>1, <3>2, CancelledIs DEF Job
    <3>4. hw' \in Word
      <4>1. hw' = IF Cancelled = 0 THEN hw ELSE Rest[Cancelled].syncpt_end
        BY <1>8, <2>3 DEF Teardown
      <4> QED BY <1>0, <3>3, <4>1 DEF HwTypes
    <3>5. PICK op : cdma_timeout_restart(op, Rest[1].first_get)
      BY <1>8, <2>3 DEF Teardown
    <3>6. last_put' \in Slots /\ get' \in Slots
      BY <1>0, <3>3, <3>5, FirstLiveIs, Positions DEF cdma_timeout_restart
    <3> QED BY <1>0, <2>1, <3>4, <3>6, CdmaAssumption DEF HwTypes
  <2> QED BY <2>2, <2>3
<1>9. CASE UNCHANGED vars BY <1>1, <1>9 DEF vars
<1> QED BY <1>2, <1>3, <1>4, <1>5, <1>6, <1>7, <1>8, <1>9 DEF Next

(* The job that nvhost_cdma_end queues *)
SubmittedJob(c) ==
    [first_get |-> first_get, num_slots |-> slots_used, syncpt_end |-> end,
     timeout |-> c \in Timed, clientid |-> c]

LEMMA EndQueue ==
    ASSUME TypeOK, SubmitInv, NEW c \in Clients, End(c)
    PROVE  /\ SubmittedJob(c) \in Job /\ queue' = Append(queue, SubmittedJob(c))
           /\ queue' \in Seq(Job) /\ Len(queue') = Len(queue) + 1
           /\ \A i \in 1 .. Len(queue) : queue'[i] = queue[i]
           /\ queue'[Len(queue) + 1] = SubmittedJob(c)
<1>1. Submitting /\ slots_used \in 1 .. MaxSlots
  BY CdmaAssumption DEF End, SubmitInv, Submitting, SubmitPcs, TypeOK
<1>2. SubmittedJob(c) \in Job
  BY <1>1 DEF SubmittedJob, Job, TypeOK
<1>3. queue' = Append(queue, SubmittedJob(c))
  BY DEF End, SubmittedJob
<1> HIDE DEF SubmittedJob
<1> QED BY <1>2, <1>3 DEF TypeOK

(* What an update leaves of the queue *)
LEMMA UpdateQueue ==
    ASSUME TypeOK, NEW n \in 0 .. Len(queue), Update(n)
    PROVE  /\ queue' \in Seq(Job) /\ Len(queue') = Len(queue) - n
           /\ \A i \in 1 .. Len(queue) - n : queue'[i] = queue[i + n]
<1>1. queue \in Seq(Job) /\ Len(queue) \in Nat /\ queue' = SubSeq(queue, n + 1, Len(queue))
  BY DEF Update, TypeOK
<1>2. queue' \in Seq(Job) /\ Len(queue') = Len(queue) - n
  BY <1>1
<1>3. \A i \in 1 .. Len(queue) - n : queue'[i] = queue[i + n]
  BY <1>1
<1> QED BY <1>2, <1>3

LEMMA RingTypesNext == ChannelInv /\ [Next]_vars => RingTypes'
<1> SUFFICES ASSUME ChannelInv, [Next]_vars PROVE RingTypes'
  OBVIOUS
<1>0. TypeOK /\ RingTypes /\ SubmitInv /\ RingInv
  BY TypeParts DEF ChannelInv
<1>1. ASSUME UNCHANGED <<pb, queue, running>> PROVE RingTypes'
  BY <1>0, <1>1 DEF RingTypes
<1>2. ASSUME NEW c \in Clients, ClientStep(c) PROVE RingTypes'
  <2>1. CASE Submit(c) BY <1>1, <2>1 DEF Submit
  <2>2. CASE Flush(c) BY <1>1, <2>2 DEF Flush
  <2>3. CASE FlushTimeout(c) BY <1>1, <2>3 DEF FlushTimeout
  <2>4. CASE Down(c) BY <1>1, <2>4 DEF Down
  <2>5. CASE \E n \in 1 .. MaxSlots : Begin(c, n)
    BY <1>0, <2>5 DEF Begin, cdma_start, RingTypes
  <2>6. CASE Push(c)
    <3>1. pb' \in PushBufferType({"noop", "incr"})
      BY <1>0, <2>6, PushPb DEF Push, RingTypes
    <3> QED BY <1>0, <2>6, <3>1 DEF Push, RingTypes
  <2>7. CASE PushFull(c) BY <1>1, <2>7 DEF PushFull
  <2>8. CASE PushRetry(c) BY <1>1, <2>8 DEF PushRetry
  <2>9. CASE End(c)
    BY <1>0, <2>9, EndQueue DEF End, RingTypes
  <2>10. CASE StopWait(c) BY <1>1, <2>10 DEF StopWait
  <2>11. CASE Close(c) BY <1>0, <2>11, InitPb DEF Close, RingTypes
  <2>12. CASE Reopen(c) BY <1>1, <2>12 DEF Reopen
  <2> QED BY <1>2, <2>1, <2>2, <2>3, <2>4, <2>5, <2>6, <2>7, <2>8, <2>9, <2>10,
             <2>11, <2>12 DEF ClientStep
<1>3. ASSUME NEW n \in 0 .. Len(queue), Update(n) PROVE RingTypes'
  <2>1. pb' = Popped(n) /\ running' = running
    BY <1>0, <1>3, PopJobsIsPopped DEF Update
  <2>2. pb' \in PushBufferType({"noop", "incr"})
    BY <1>0, <2>1, PoppedPb
  <2>3. queue' \in Seq(Job)
    BY <1>0, <1>3, UpdateQueue
  <2> QED BY <1>0, <2>1, <2>2, <2>3 DEF RingTypes
<1>4. CASE Suspend BY <1>0, <1>4 DEF Suspend, RingTypes
<1>5. CASE DmaFetch BY <1>1, <1>5 DEF DmaFetch
<1>6. CASE EngineIncr BY <1>1, <1>6 DEF EngineIncr
<1>7. CASE TimerFire \/ HandlerReturns \/ HandlerStops
  BY <1>1, <1>7 DEF TimerFire, HandlerReturns, HandlerStops
<1>8. CASE Teardown
  <2>1. running' = running
    BY <1>8 DEF Teardown
  <2> QED BY <1>0, <1>8, <2>1, TeardownQueue, TeardownPb DEF RingTypes
<1>9. CASE UNCHANGED vars BY <1>1, <1>9 DEF vars
<1> QED BY <1>2, <1>3, <1>4, <1>5, <1>6, <1>7, <1>8, <1>9 DEF Next

LEMMA SubmitTypesNext == ChannelInv /\ [Next]_vars => SubmitTypes'
<1> SUFFICES ASSUME ChannelInv, [Next]_vars PROVE SubmitTypes'
  OBVIOUS
<1>0. TypeOK /\ SubmitTypes /\ SubmitInv
  BY TypeParts DEF ChannelInv
<1>1. ASSUME UNCHANGED submitVars PROVE SubmitTypes'
  BY <1>0, <1>1 DEF SubmitTypes, submitVars
<1>2. ASSUME NEW c \in Clients, ClientStep(c) PROVE SubmitTypes'
  <2>1. CASE Submit(c) BY <1>1, <2>1 DEF Submit
  <2>2. CASE Flush(c) BY <1>1, <2>2 DEF Flush
  <2>3. CASE FlushTimeout(c) BY <1>1, <2>3 DEF FlushTimeout
  <2>4. CASE Down(c) BY <1>1, <2>4 DEF Down
  <2>5. ASSUME NEW n \in 1 .. MaxSlots, Begin(c, n) PROVE SubmitTypes'
    <3>1. end' = max_val' /\ HwTypes'
      BY <2>5, HwTypesNext DEF Begin
    <3>2. pb.cur \in Slots
      BY <1>0, Positions
    <3> QED BY <2>5, <3>1, <3>2, CdmaAssumption, SizeAssumption DEF Begin, SubmitTypes, HwTypes
  <2>6. CASE Push(c)
    <3>1. Submitting
      BY <2>6 DEF Push, Submitting, SubmitPcs
    <3>2. push_buffer_space(pb) \in 0 .. Size - 1
      BY <1>0, Positions, GapType DEF push_buffer_space
    <3>3. FreeSlots \in 0 .. Size - 1
      BY <1>0, <3>2 DEF FreeSlots, SubmitTypes
    <3>4. slots_used + todo \in 1 .. MaxSlots
      BY <1>0, <3>1 DEF SubmitInv
    <3>5. FreeSlots > 0 /\ todo > 0 /\ slots_free' = FreeSlots - 1 /\ slots_used' = slots_used + 1
          /\ todo' = todo - 1 /\ UNCHANGED <<first_get, end>>
      BY <2>6 DEF Push
    <3> HIDE DEF FreeSlots
    <3> QED BY <1>0, <3>3, <3>4, <3>5, SizeAssumption, CdmaAssumption DEF SubmitTypes
  <2>7. CASE PushFull(c) BY <1>1, <2>7 DEF PushFull
  <2>8. CASE PushRetry(c) BY <1>1, <2>8 DEF PushRetry
  <2>9. CASE End(c)
    <3>1. 0 \in Word /\ 0 \in Slots /\ 0 \in 0 .. Size - 1 /\ 0 \in 0 .. MaxSlots
      BY HalfAssumption, SizeAssumption, CdmaAssumption DEF Word, M, Slots
    <3> QED BY <1>0, <2>9, <3>1 DEF End, SubmitTypes
  <2>10. CASE StopWait(c) BY <1>1, <2>10 DEF StopWait
  <2>11. CASE Close(c) BY <1>1, <2>11 DEF Close
  <2>12. CASE Reopen(c) BY <1>1, <2>12 DEF Reopen
  <2> QED BY <1>2, <2>1, <2>2, <2>3, <2>4, <2>5, <2>6, <2>7, <2>8, <2>9, <2>10,
             <2>11, <2>12 DEF ClientStep
<1>3. CASE \E n \in 0 .. Len(queue) : Update(n) BY <1>1, <1>3 DEF Update
<1>4. CASE Suspend BY <1>1, <1>4 DEF Suspend
<1>5. CASE DmaFetch BY <1>1, <1>5 DEF DmaFetch
<1>6. CASE EngineIncr BY <1>1, <1>6 DEF EngineIncr
<1>7. CASE TimerFire \/ HandlerReturns \/ HandlerStops
  BY <1>1, <1>7 DEF TimerFire, HandlerReturns, HandlerStops
<1>8. CASE Teardown
  <2>1. UNCHANGED submitVars
    BY <1>8 DEF Teardown
  <2> QED BY <1>1, <2>1
<1>9. CASE UNCHANGED vars BY <1>1, <1>9 DEF vars
<1> QED BY <1>2, <1>3, <1>4, <1>5, <1>6, <1>7, <1>8, <1>9 DEF Next

LEMMA TimeoutTypesNext == ChannelInv /\ [Next]_vars => TimeoutTypes'
<1> SUFFICES ASSUME ChannelInv, [Next]_vars PROVE TimeoutTypes'
  OBVIOUS
<1>0. TypeOK /\ TimeoutTypes /\ SubmitInv /\ TimerInv
  BY TypeParts DEF ChannelInv
<1>1. ASSUME UNCHANGED timeoutVars PROVE TimeoutTypes'
  BY <1>0, <1>1 DEF TimeoutTypes, timeoutVars
<1>2. ASSUME NEW c \in Clients, ClientStep(c) PROVE TimeoutTypes'
  <2>1. CASE Submit(c) BY <1>1, <2>1 DEF Submit
  <2>2. CASE Flush(c) BY <1>1, <2>2 DEF Flush
  <2>3. CASE FlushTimeout(c) BY <1>1, <2>3 DEF FlushTimeout
  <2>4. CASE Down(c) BY <1>1, <2>4 DEF Down
  <2>5. CASE \E n \in 1 .. MaxSlots : Begin(c, n)
    BY <1>0, <2>5 DEF Begin, cdma_start, TimeoutTypes
  <2>6. CASE Push(c) BY <1>1, <2>6 DEF Push
  <2>7. CASE PushFull(c) BY <1>1, <2>7 DEF PushFull
  <2>8. CASE PushRetry(c) BY <1>1, <2>8 DEF PushRetry
  <2>9. CASE End(c)
    <3>1. SubmittedJob(c) \in Job
      BY <1>0, <2>9, EndQueue
    <3>2. PICK t \in TimerRec : SetTimer(t)
      <4>1. SetTimer(Timeout) \/ SetTimer(StartTimer(Timeout, SubmittedJob(c)))
        BY <2>9 DEF End, SubmittedJob
      <4> QED BY <1>0, <3>1, <4>1, TimerType
    <3> QED BY <1>0, <2>9, <3>2, TimerSet DEF End, TimeoutTypes
  <2>10. CASE StopWait(c) BY <1>1, <2>10 DEF StopWait
  <2>11. CASE Close(c) BY <1>0, <2>11 DEF Close, TimeoutTypes
  <2>12. CASE Reopen(c) BY <1>0, <2>12 DEF Reopen, TimeoutTypes
  <2> QED BY <1>2, <2>1, <2>2, <2>3, <2>4, <2>5, <2>6, <2>7, <2>8, <2>9, <2>10,
             <2>11, <2>12 DEF ClientStep
<1>3. ASSUME NEW n \in 0 .. Len(queue), Update(n) PROVE TimeoutTypes'
  <2>1. queue' # <<>> => Head(queue') \in Job
    BY <1>0, <1>3, UpdateQueue
  <2>2. PICK u \in TimerRec : SetTimer(IF queue' # <<>> /\ Head(queue').timeout
                                       THEN StartTimer(u, Head(queue')) ELSE u)
    BY <1>0, <1>3, TimerType DEF Update
  <2>3. PICK t \in TimerRec : SetTimer(t)
    BY <1>0, <2>1, <2>2, TimerType
  <2> QED BY <1>0, <1>3, <2>3, TimerSet DEF Update, TimeoutTypes
<1>4. CASE Suspend BY <1>1, <1>4 DEF Suspend
<1>5. CASE DmaFetch BY <1>1, <1>5 DEF DmaFetch
<1>6. CASE EngineIncr
  BY <1>0, <1>6, CdmaAssumption DEF EngineIncr, TimeoutTypes
<1>7. CASE TimerFire \/ HandlerReturns \/ HandlerStops
  <2>1. 0 \in Word
    BY HalfAssumption DEF Word, M
  <2> QED BY <1>0, <1>7, <2>1 DEF TimerFire, HandlerReturns, HandlerStops, TimeoutTypes
<1>8. CASE Teardown
  <2>1. tclient \in Clients
    BY <1>0, <1>8 DEF Teardown, TimerInv, TimeoutTypes
  <2>2. timedout' \subseteq Clients
    BY <1>0, <1>8, <2>1 DEF Teardown, TimeoutTypes
  <2>3. /\ work' = "idle" /\ fired' = 0 /\ late' = 0 /\ lost' = (Rest = <<>>)
        /\ UNCHANGED <<timer, tclient, tval>>
    BY <1>8 DEF Teardown
  <2>4. 0 \in Word /\ 0 \in 0 .. MaxLate /\ lost' \in BOOLEAN
    BY <2>3, CdmaAssumption, HalfAssumption DEF Word, M
  <2> QED BY <1>0, <2>2, <2>3, <2>4 DEF TimeoutTypes
<1>9. CASE UNCHANGED vars BY <1>1, <1>9 DEF vars
<1> QED BY <1>2, <1>3, <1>4, <1>5, <1>6, <1>7, <1>8, <1>9 DEF Next

-----------------------------------------------------------------------------
(* The timer *)

(* timer record t watches the head of queue q *)
Watches(t, q) ==
    /\ t.client # None => q # <<>> /\ q[1].clientid = t.client /\ q[1].syncpt_end = t.val
    /\ t.on => t.client # None

LEMMA WatchesTimer ==
    ASSUME NEW t \in TimerRec, SetTimer(t), Watches(t, queue'),
           work' = "stopping" => t.client # None
    PROVE  TimerInv'
BY DEF TimerInv, SetTimer, Watches

LEMMA TimerWatches == ASSUME TimerInv PROVE Watches(Timeout, queue)
BY DEF TimerInv, Watches, Timeout

(* Starting the timer for the head makes it watch the head. *)
LEMMA StartWatches ==
    ASSUME NEW t \in TimerRec, NEW q, q # <<>>, q[1] \in Job, Watches(t, q)
    PROVE  Watches(StartTimer(t, q[1]), q)
BY CdmaAssumption DEF Watches, StartTimer, TimerRec, Job

LEMMA TimerNext == ChannelInv /\ [Next]_vars => TimerInv'
<1> SUFFICES ASSUME ChannelInv, [Next]_vars PROVE TimerInv'
  OBVIOUS
<1>0. TypeOK /\ SubmitInv /\ TimerInv
  BY DEF ChannelInv
<1>1. ASSUME UNCHANGED <<timer, tclient, tval, work, queue>> PROVE TimerInv'
  BY <1>0, <1>1 DEF TimerInv
<1> USE DEF timeoutVars
<1>2. ASSUME NEW c \in Clients, ClientStep(c) PROVE TimerInv'
  <2>1. CASE Submit(c) BY <1>1, <2>1 DEF Submit
  <2>2. CASE Flush(c) BY <1>1, <2>2 DEF Flush
  <2>3. CASE FlushTimeout(c) BY <1>1, <2>3 DEF FlushTimeout
  <2>4. CASE Down(c) BY <1>1, <2>4 DEF Down
  <2>5. CASE \E n \in 1 .. MaxSlots : Begin(c, n) BY <1>1, <2>5 DEF Begin
  <2>6. CASE Push(c) BY <1>1, <2>6 DEF Push
  <2>7. CASE PushFull(c) BY <1>1, <2>7 DEF PushFull
  <2>8. CASE PushRetry(c) BY <1>1, <2>8 DEF PushRetry
  <2>9. CASE End(c)
    <3>1. /\ SubmittedJob(c) \in Job /\ queue' \in Seq(Job) /\ Len(queue') = Len(queue) + 1
          /\ \A i \in 1 .. Len(queue) : queue'[i] = queue[i]
          /\ queue'[Len(queue) + 1] = SubmittedJob(c)
      BY <1>0, <2>9, EndQueue
    <3>2. queue \in Seq(Job) /\ Len(queue) \in Nat /\ queue' # <<>>
      BY <1>0, <3>1 DEF TypeOK
    <3>3. queue # <<>> => queue'[1] = queue[1]
      BY <3>1, <3>2
    <3>4. Watches(Timeout, queue')
      BY <1>0, <3>2, <3>3, TimerWatches DEF Watches
    <3>5. queue = <<>> => queue'[1] = SubmittedJob(c)
      BY <3>1, <3>2
    <3>6. \E t \in TimerRec : SetTimer(t) /\ Watches(t, queue') /\ (Timeout.client # None => t.client # None)
      <4>1. CASE SetTimer(Timeout)
        BY <1>0, <3>4, <4>1, TimerType
      <4>2. CASE queue = <<>> /\ SetTimer(StartTimer(Timeout, SubmittedJob(c)))
        <5>1. Watches(StartTimer(Timeout, queue'[1]), queue')
          BY <1>0, <3>1, <3>2, <3>4, <3>5, <4>2, StartWatches, TimerType
        <5>2. StartTimer(Timeout, queue'[1]) \in TimerRec
          BY <1>0, <3>1, <3>5, <4>2, TimerType
        <5>3. Timeout.client = None
          BY <1>0, <4>2, TimerWatches DEF Watches
        <5> QED BY <3>5, <4>2, <5>1, <5>2, <5>3
      <4>3. SetTimer(Timeout) \/ (queue = <<>> /\ SetTimer(StartTimer(Timeout, SubmittedJob(c))))
        BY <2>9 DEF End, SubmittedJob
      <4> QED BY <4>1, <4>2, <4>3
    <3>7. work' = work /\ (work = "stopping" => Timeout.client # None)
      BY <1>0, <2>9 DEF End, TimerInv, Timeout
    <3> QED BY <3>6, <3>7, WatchesTimer
  <2>10. CASE StopWait(c) BY <1>1, <2>10 DEF StopWait
  <2>11. CASE Close(c) BY <1>0, <2>11 DEF Close, TimerInv
  <2>12. CASE Reopen(c) BY <1>1, <2>12 DEF Reopen
  <2> QED BY <1>2, <2>1, <2>2, <2>3, <2>4, <2>5, <2>6, <2>7, <2>8, <2>9, <2>10,
             <2>11, <2>12 DEF ClientStep
<1>3. ASSUME NEW n \in 0 .. Len(queue), Update(n) PROVE TimerInv'
  <2> DEFINE t == IF n > 0 THEN StopTimer(Timeout) ELSE Timeout
  <2>1. /\ queue' \in Seq(Job) /\ Len(queue') = Len(queue) - n /\ Len(queue) \in Nat
        /\ \A i \in 1 .. Len(queue) - n : queue'[i] = queue[i + n]
    BY <1>0, <1>3, UpdateQueue, Positions
  <2>2. t \in TimerRec
    BY <1>0, TimerType
  <2>3. Watches(t, queue')
    <3>1. CASE n > 0
      BY <3>1 DEF Watches, StopTimer
    <3>2. CASE n = 0
      <4>1. queue # <<>> => queue' # <<>> /\ queue'[1] = queue[1]
        BY <1>0, <2>1, <3>2 DEF TypeOK
      <4> QED BY <1>0, <3>2, <4>1, TimerWatches DEF Watches
    <3> QED BY <3>1, <3>2
  <2>4. SetTimer(IF queue' # <<>> /\ Head(queue').timeout THEN StartTimer(t, Head(queue')) ELSE t)
    BY <1>3 DEF Update
  <2> HIDE DEF t
  <2>5. queue' # <<>> => Head(queue') = queue'[1] /\ queue'[1] \in Job
    BY <2>1
  <2>6. \E u \in TimerRec : SetTimer(u) /\ Watches(u, queue')
    <3>1. CASE queue' # <<>> /\ Head(queue').timeout
      BY <1>0, <2>2, <2>3, <2>4, <2>5, <3>1, StartWatches, TimerType
    <3>2. CASE ~(queue' # <<>> /\ Head(queue').timeout)
      BY <2>2, <2>3, <2>4, <3>2
    <3> QED BY <3>1, <3>2
  <2>7. work' # "stopping"
    BY <1>3 DEF Update, LockFree
  <2> QED BY <2>6, <2>7, WatchesTimer
<1>4. CASE Suspend BY <1>1, <1>4 DEF Suspend
<1>5. CASE DmaFetch BY <1>1, <1>5 DEF DmaFetch
<1>6. CASE EngineIncr BY <1>1, <1>6 DEF EngineIncr
<1>7. CASE TimerFire \/ HandlerReturns \/ HandlerStops
  BY <1>0, <1>7 DEF TimerFire, HandlerReturns, HandlerStops, TimerInv
<1>8. CASE Teardown
  <2>1. work' = "idle" /\ UNCHANGED <<timer, tclient, tval>>
    BY <1>8 DEF Teardown
  <2>2. queue # <<>> => queue' # <<>> /\ queue'[1].clientid = queue[1].clientid
                        /\ queue'[1].syncpt_end = queue[1].syncpt_end
    <3>1. queue \in Seq(Job) /\ (queue # <<>> => 1 \in 1 .. Len(queue))
      BY <1>0 DEF TypeOK
    <3> QED BY <1>0, <1>8, <3>1, TeardownQueue
  <2> QED BY <1>0, <2>1, <2>2 DEF TimerInv
<1>9. CASE UNCHANGED vars BY <1>1, <1>9 DEF vars
<1> QED BY <1>2, <1>3, <1>4, <1>5, <1>6, <1>7, <1>8, <1>9 DEF Next

-----------------------------------------------------------------------------
(* The ring *)

(* Steps that leave positions and jobs alone leave the ring alone. *)
LEMMA RingKept ==
    ASSUME TypeOK, RingInv, pb'.fence = pb.fence, pb'.cur = pb.cur,
           Begun' = Begun, slots_used' = slots_used, Len(queue') = Len(queue),
           \A i \in 1 .. Len(queue) : /\ queue'[i].first_get = queue[i].first_get
                                      /\ queue'[i].num_slots = queue[i].num_slots
    PROVE  /\ RingInv'
           /\ Base' = Base /\ \A i \in 1 .. Len(queue) + 1 : Front(i)' = Front(i)
           /\ \A x \in Slots : Gap(Base', x) = Pos(x)
<1>0. Len(queue) \in Nat
  BY Positions
<1>1. Base' = Base
  BY DEF Base
<1>2. \A i \in 1 .. Len(queue) + 1 : Front(i)' = Front(i)
  BY <1>0 DEF Front
<1>3. \A x \in Slots : Gap(Base', x) = Pos(x)
  BY <1>1 DEF Pos
<1>4. Front(1)' = Base'
  BY <1>0, <1>1, <1>2 DEF RingInv
<1>5. ASSUME NEW i \in 1 .. Len(queue')
      PROVE  Pos(Front(i + 1))' = Pos(Front(i))' + queue'[i].num_slots
  <2>1. i \in 1 .. Len(queue) /\ i \in 1 .. Len(queue) + 1 /\ i + 1 \in 1 .. Len(queue) + 1
    BY <1>0
  <2>2. Gap(Base', Front(i + 1)') = Pos(Front(i + 1)) /\ Gap(Base', Front(i)') = Pos(Front(i))
    BY <1>1, <1>2, <2>1 DEF Pos
  <2>3. Pos(Front(i + 1)) = Pos(Front(i)) + queue[i].num_slots
    BY <2>1 DEF RingInv
  <2> QED BY <2>1, <2>2, <2>3 DEF Pos
<1>6. Pos(pb.cur)' = Pos(Begun)' + slots_used'
  BY <1>1 DEF Pos, RingInv
<1> QED BY <1>1, <1>2, <1>3, <1>4, <1>5, <1>6 DEF RingInv

(* An update moves the oldest slot to the first job it leaves; positions   *)
(* shift.                                                                  *)
LEMMA UpdateRing ==
    ASSUME TypeOK, RingInv, NEW n \in 0 .. Len(queue), Update(n)
    PROVE  /\ RingInv'
           /\ Base' = Front(n + 1) /\ pb'.cur = pb.cur /\ pb'.op = pb.op
           /\ \A i \in 1 .. Len(queue) - n + 1 : Front(i)' = Front(i + n)
           /\ \A x \in Slots : Pos(Front(n + 1)) <= Pos(x) =>
                                 Gap(Base', x) = Pos(x) - Pos(Front(n + 1))
<1> DEFINE D == Pos(Front(n + 1))
           L == Len(queue)
<1>0. L \in Nat /\ D \in 0 .. Size - 1 /\ Front(n + 1) \in Slots /\ pb.fence \in Slots /\ Base \in Slots
      /\ n + 1 \in 1 .. L + 1 /\ pb.cur \in Slots
  BY Positions
<1>1. pb' = Popped(n) /\ UNCHANGED <<submitVars, pc>>
  BY PopJobsIsPopped DEF Update
<1>2. pb'.cur = pb.cur /\ pb'.op = pb.op /\ pb'.fence = Ahead(pb.fence, D)
  BY <1>1, PoppedPb
<1>3. Base' = Front(n + 1)
  <2>1. Base' = Ahead(Ahead(pb.fence, D), 1)
    BY <1>2 DEF Base
  <2>2. Ahead(Ahead(pb.fence, D), 1) = Ahead(Base, D)
    BY <1>0, AheadSwap, SizeAssumption DEF Base
  <2>3. Ahead(Base, D) = Front(n + 1)
    BY <1>0, AheadOfGap DEF Pos
  <2> QED BY <2>1, <2>2, <2>3
<1>4. \A x \in Slots : D <= Pos(x) => Gap(Base', x) = Pos(x) - D
  BY <1>0, <1>3, GapFrom DEF Pos
<1>5. /\ Len(queue') = L - n
      /\ \A i \in 1 .. L - n : queue'[i] = queue[i + n]
  BY UpdateQueue
<1>6. Begun' = Begun
  BY <1>1, <1>2 DEF Begun, Submitting, submitVars
<1>7. \A i \in 1 .. L - n + 1 : Front(i)' = Front(i + n)
  <2> SUFFICES ASSUME NEW i \in 1 .. L - n + 1 PROVE Front(i)' = Front(i + n)
    OBVIOUS
  <2>1. CASE i <= L - n
    <3>1. i \in 1 .. L - n /\ i <= Len(queue') /\ i + n <= Len(queue)
      BY <1>0, <1>5, <2>1
    <3> QED BY <1>5, <3>1 DEF Front
  <2>2. CASE ~(i <= L - n)
    <3>1. ~(i <= Len(queue')) /\ ~(i + n <= Len(queue))
      BY <1>0, <1>5, <2>2
    <3> QED BY <1>6, <3>1 DEF Front
  <2> QED BY <2>1, <2>2
<1> HIDE DEF D
<1>8. \A i \in 1 .. L - n + 1 : /\ D <= Pos(Front(i + n)) /\ i + n \in 1 .. L + 1
                                /\ Gap(Base', Front(i)') = Pos(Front(i + n)) - D
  <2> SUFFICES ASSUME NEW i \in 1 .. L - n + 1
               PROVE  /\ D <= Pos(Front(i + n)) /\ i + n \in 1 .. L + 1
                      /\ Gap(Base', Front(i)') = Pos(Front(i + n)) - D
    OBVIOUS
  <2>1. i + n \in n + 1 .. L + 1 /\ i + n \in 1 .. L + 1
    BY <1>0
  <2>2. D + ((i + n) - (n + 1)) <= Pos(Front(i + n))
    BY <1>0, <2>1, FrontsOrdered DEF D
  <2>3. Front(i + n) \in Slots /\ Pos(Front(i + n)) \in Int
    BY <2>1, Positions
  <2>4. D <= Pos(Front(i + n))
    BY <1>0, <2>1, <2>2, <2>3
  <2> QED BY <1>4, <1>7, <2>1, <2>3, <2>4
<1>9. Front(1)' = Base'
  BY <1>0, <1>3, <1>7
<1>10. ASSUME NEW i \in 1 .. Len(queue')
       PROVE  Pos(Front(i + 1))' = Pos(Front(i))' + queue'[i].num_slots
  <2>0. i \in 1 .. L - n
    BY <1>5
  <2>1. i \in 1 .. L - n /\ i \in 1 .. L - n + 1 /\ i + 1 \in 1 .. L - n + 1 /\ (i + 1) + n = (i + n) + 1
        /\ i + n \in 1 .. L /\ queue'[i] = queue[i + n]
    <3>1. i \in 1 .. L - n + 1 /\ i + 1 \in 1 .. L - n + 1 /\ (i + 1) + n = (i + n) + 1 /\ i + n \in 1 .. L
      <4> HIDE DEF L
      <4> QED BY <1>0, <2>0
    <3> QED BY <1>5, <2>0, <3>1
  <2>2. Gap(Base', Front(i + 1)') = Pos(Front((i + n) + 1)) - D /\ Gap(Base', Front(i)') = Pos(Front(i + n)) - D
    BY <1>8, <2>1
  <2>3. Pos(Front((i + n) + 1)) = Pos(Front(i + n)) + queue[i + n].num_slots
    BY <2>1 DEF RingInv
  <2>4. Pos(Front(i + n)) \in Int /\ queue[i + n].num_slots \in Int
    BY <1>8, <2>1, Positions, QueuedJob, CdmaAssumption
  <2> QED BY <1>0, <2>1, <2>2, <2>3, <2>4 DEF Pos
<1>11. Pos(pb.cur)' = Pos(Begun)' + slots_used'
  <2>1. Begun = Front(L + 1) /\ L + 1 \in n + 1 .. L + 1
    BY <1>0 DEF Front
  <2>2. D + ((L + 1) - (n + 1)) <= Pos(Begun) /\ Pos(Begun) <= Pos(pb.cur)
    BY <1>0, <2>1, FrontsOrdered DEF D
  <2>3. Pos(Begun) \in Int /\ Pos(pb.cur) \in Int /\ Begun \in Slots
    BY Positions
  <2>4. D <= Pos(Begun) /\ D <= Pos(pb.cur)
    BY <1>0, <2>2, <2>3
  <2>5. Gap(Base', pb.cur) = Pos(pb.cur) - D /\ Gap(Base', Begun) = Pos(Begun) - D
    BY <1>0, <1>4, <2>3, <2>4
  <2>6. Pos(pb.cur) = Pos(Begun) + slots_used /\ slots_used' = slots_used /\ slots_used \in Int
    BY <1>1, CdmaAssumption DEF RingInv, submitVars, TypeOK
  <2> QED BY <1>0, <1>2, <1>6, <2>3, <2>5, <2>6 DEF Pos
<1>12. RingInv'
  BY <1>9, <1>10, <1>11 DEF RingInv
<1> QED BY <1>2, <1>3, <1>4, <1>7, <1>12 DEF D

LEMMA TypesNext == ChannelInv /\ [Next]_vars => TypeOK'
<1> SUFFICES ASSUME ChannelInv, [Next]_vars PROVE TypeOK'
  OBVIOUS
<1>1. HwTypes' /\ RingTypes' /\ SubmitTypes' /\ TimeoutTypes' /\ WaitTypes'
  BY HwTypesNext, RingTypesNext, SubmitTypesNext, TimeoutTypesNext, WaitTypesNext DEF ChannelInv
<1> QED BY <1>1 DEF TypeOK, HwTypes, RingTypes, SubmitTypes, TimeoutTypes, WaitTypes, Pcs

(* What a push does to the ring: one slot more is in use, at its end. *)
LEMMA PushRing ==
    ASSUME TypeOK, NEW c \in Clients, Push(c)
    PROVE  /\ pb'.fence = pb.fence /\ pb'.cur = Ahead(pb.cur, 1) /\ Base' = Base
           /\ push_buffer_space(pb) > 0 \/ slots_free > 0
           /\ pb'.op = [pb.op EXCEPT ![pb.cur] = "incr"]
           /\ pb'.handle = [pb.handle EXCEPT ![pb.cur] = TRUE]
           /\ Begun' = Begun
<1>1. pb \in PushBufferType({"noop", "incr"}) /\ pb' = push_buffer_push_to(pb, "incr")
  BY DEF TypeOK, Push
<1>2. /\ pb'.fence = pb.fence /\ pb'.cur = Ahead(pb.cur, 1)
      /\ pb'.op = [pb.op EXCEPT ![pb.cur] = "incr"]
      /\ pb'.handle = [pb.handle EXCEPT ![pb.cur] = TRUE]
  BY <1>1, PushPb
<1>3. Begun' = Begun
  BY DEF Begun, Push, Submitting, SubmitPcs
<1>4. push_buffer_space(pb) > 0 \/ slots_free > 0
  BY DEF Push, FreeSlots, TypeOK
<1> QED BY <1>2, <1>3, <1>4 DEF Base

(* The number of free slots a submit remembers is right. *)
LEMMA PushNeverFullNext == ChannelInv /\ PushNeverFull /\ [Next]_vars => PushNeverFull'
<1> SUFFICES ASSUME ChannelInv, PushNeverFull, [Next]_vars PROVE PushNeverFull'
  OBVIOUS
<1>0. TypeOK /\ SubmitInv /\ WaitTypes
  BY DEF ChannelInv
<1>1. TypeOK'
  BY TypesNext
<1>2. push_buffer_space(pb)' \in Nat /\ push_buffer_space(pb) \in Nat
  <2>1. pb.cur \in Slots /\ pb.fence \in Slots
    BY <1>0, Positions
  <2>2. pb'.cur \in Slots /\ pb'.fence \in Slots
    BY <1>1, PbFields DEF TypeOK
  <2> QED BY <2>1, <2>2, GapType DEF push_buffer_space
<1>3. ASSUME slots_free' = 0 PROVE PushNeverFull'
  BY <1>2, <1>3 DEF PushNeverFull
<1>4. ASSUME UNCHANGED <<slots_free, pb>> PROVE PushNeverFull'
  BY <1>4 DEF PushNeverFull
<1>5. ASSUME LockFree, slots_free' = slots_free PROVE PushNeverFull'
  BY <1>0, <1>3, <1>5 DEF LockFree, SubmitInv
<1> USE DEF submitVars
<1>6. ASSUME NEW c \in Clients, ClientStep(c) PROVE PushNeverFull'
  <2>1. CASE Submit(c) BY <1>4, <2>1 DEF Submit
  <2>2. CASE Flush(c) BY <1>4, <2>2 DEF Flush
  <2>3. CASE FlushTimeout(c) BY <1>4, <2>3 DEF FlushTimeout
  <2>4. CASE Down(c) BY <1>4, <2>4 DEF Down
  <2>5. CASE \E n \in 1 .. MaxSlots : Begin(c, n) BY <1>3, <2>5 DEF Begin
  <2>6. CASE Push(c)
    <3>1. pb'.fence = pb.fence /\ pb'.cur = Ahead(pb.cur, 1) /\ pb.cur \in Slots /\ pb.fence \in Slots
      BY <1>0, <2>6, PushRing, Positions
    <3>2. slots_free \in Nat /\ slots_free <= push_buffer_space(pb)
      BY <1>0, SizeAssumption DEF TypeOK, PushNeverFull
    <3>3. FreeSlots > 0 /\ FreeSlots <= push_buffer_space(pb) /\ slots_free' = FreeSlots - 1
          /\ FreeSlots \in Nat
      BY <1>2, <2>6, <3>2 DEF Push, FreeSlots
    <3> HIDE DEF FreeSlots
    <3>4. Gap(pb.cur, pb.fence) > 0
      BY <1>2, <3>3 DEF push_buffer_space
    <3>5. Gap(Ahead(pb.cur, 1), pb.fence) = Gap(pb.cur, pb.fence) - 1
      BY <3>1, <3>4, SizeAssumption DEF Gap, Ahead, Slots
    <3>6. Gap(pb'.cur, pb'.fence) = Gap(pb.cur, pb.fence) - 1
      BY <3>1, <3>5
    <3> QED BY <1>2, <3>3, <3>6 DEF PushNeverFull, push_buffer_space
  <2>7. CASE PushFull(c) BY <1>4, <2>7 DEF PushFull
  <2>8. CASE PushRetry(c) BY <1>4, <2>8 DEF PushRetry
  <2>9. CASE End(c) BY <1>3, <2>9 DEF End
  <2>10. CASE StopWait(c) BY <1>4, <2>10 DEF StopWait
  <2>11. CASE Close(c) BY <1>5, <2>11 DEF Close
  <2>12. CASE Reopen(c) BY <1>4, <2>12 DEF Reopen
  <2> QED BY <1>6, <2>1, <2>2, <2>3, <2>4, <2>5, <2>6, <2>7, <2>8, <2>9, <2>10,
             <2>11, <2>12 DEF ClientStep
<1>7. CASE \E n \in 0 .. Len(queue) : Update(n) BY <1>5, <1>7 DEF Update
<1>8. CASE Suspend BY <1>4, <1>8 DEF Suspend
<1>9. CASE DmaFetch \/ EngineIncr BY <1>4, <1>9 DEF DmaFetch, EngineIncr
<1>10. CASE TimerFire \/ HandlerReturns \/ HandlerStops
  BY <1>4, <1>10 DEF TimerFire, HandlerReturns, HandlerStops
<1>11. CASE Teardown
  <2>1. pb'.cur = pb.cur /\ pb'.fence = pb.fence
    BY <1>0, <1>11, TeardownPb
  <2>2. slots_free' = slots_free
    BY <1>11 DEF Teardown
  <2> QED BY <2>1, <2>2 DEF PushNeverFull, push_buffer_space
<1>12. CASE UNCHANGED vars BY <1>4, <1>12 DEF vars
<1> QED BY <1>6, <1>7, <1>8, <1>9, <1>10, <1>11, <1>12 DEF Next

(* The jobs stay one behind the other.  A push needs the room that         *)
(* PushNeverFull promises.                                                 *)
LEMMA RingNext == ChannelInv /\ PushNeverFull /\ [Next]_vars => RingInv'
<1> SUFFICES ASSUME ChannelInv, PushNeverFull, [Next]_vars PROVE RingInv'
  OBVIOUS
<1>0. TypeOK /\ SubmitInv /\ WaitTypes /\ CloserAlone /\ RingInv
  BY DEF ChannelInv
<1>1. ASSUME UNCHANGED <<pb, queue, slots_used, first_get>>, Submitting' = Submitting
      PROVE  RingInv'
  <2>1. Begun' = Begun
    BY <1>1 DEF Begun
  <2> QED BY <1>0, <1>1, <2>1, RingKept
<1>2. ASSUME NEW c \in Clients, NEW l, Goto(c, l), pc[c] \in SubmitPcs <=> l \in SubmitPcs,
             UNCHANGED <<pb, queue, slots_used, first_get>>
      PROVE  RingInv'
  BY <1>0, <1>1, <1>2, SubmittingKept
<1>3. ASSUME UNCHANGED <<pb, queue, slots_used, first_get, pc>> PROVE RingInv'
  BY <1>1, <1>3 DEF Submitting
<1> USE DEF submitVars
<1>4. ASSUME NEW c \in Clients, ClientStep(c) PROVE RingInv'
  <2>1. CASE Submit(c)
    <3>1. \E l \in {"idle", "lock", "flush_retry"} : Goto(c, l)
      BY <2>1 DEF Submit, AfterCheck
    <3> QED BY <1>2, <2>1, <3>1 DEF Submit, SubmitPcs
  <2>2. CASE Flush(c)
    <3>1. \E l \in {"idle", "lock", "flush_retry", "flush_down"} : Goto(c, l)
      BY <2>2 DEF Flush, AfterCheck, WaitLocked
    <3> QED BY <1>2, <2>2, <3>1 DEF Flush, SubmitPcs
  <2>3. CASE FlushTimeout(c)
    <3>1. \E l \in {"idle", "lock"} : Goto(c, l)
      BY <2>3 DEF FlushTimeout, AfterCheck
    <3> QED BY <1>2, <2>3, <3>1 DEF FlushTimeout, SubmitPcs
  <2>4. CASE Down(c)
    <3>1. pc[c] \in SubmitPcs <=> Awoken(pc[c]) \in SubmitPcs
      BY <2>4 DEF Down, Asleep, Awoken, SubmitPcs
    <3> QED BY <1>2, <2>4, <3>1 DEF Down
  <2>5. ASSUME NEW n \in 1 .. MaxSlots, Begin(c, n) PROVE RingInv'
    <3>1. ~Submitting /\ slots_used = 0 /\ slots_used' = 0 /\ first_get' = pb.cur /\ UNCHANGED <<pb, queue>>
      BY <1>0, <2>5 DEF Begin, SubmitInv
    <3>2. Submitting'
      BY <1>0, <2>5 DEF Begin, Goto, Submitting, SubmitPcs, WaitTypes
    <3>3. Begun' = Begun
      BY <3>1, <3>2 DEF Begun
    <3> QED BY <1>0, <3>1, <3>3, RingKept
  <2>6. CASE Push(c)
    <3>1. /\ pb'.fence = pb.fence /\ pb'.cur = Ahead(pb.cur, 1) /\ Base' = Base /\ Begun' = Begun
          /\ push_buffer_space(pb) > 0 \/ slots_free > 0
      BY <1>0, <2>6, PushRing
    <3>2. pb.cur \in Slots /\ pb.fence \in Slots /\ Base \in Slots /\ Pos(pb.cur) \in 0 .. Size - 1
          /\ Pos(Begun) \in Int
      BY <1>0, Positions
    <3>3. Gap(pb.cur, pb.fence) > 0
      <4>1. slots_free \in Int /\ slots_free <= push_buffer_space(pb)
        BY <1>0, SizeAssumption DEF PushNeverFull, TypeOK
      <4>2. push_buffer_space(pb) \in Int
        BY <3>2, GapType, SizeAssumption DEF push_buffer_space
      <4> QED BY <3>1, <4>1, <4>2 DEF push_buffer_space
    <3>4. Gap(pb.cur, pb.fence) = Size - 1 - Pos(pb.cur)
      BY <3>2, GapFence DEF Base, Pos
    <3>5. Gap(Base, Ahead(pb.cur, 1)) = Pos(pb.cur) + 1
      BY <3>2, <3>3, <3>4, GapPlus, SizeAssumption DEF Pos
    <3>6. slots_used' = slots_used + 1 /\ queue' = queue /\ slots_used \in Int
      BY <1>0, <2>6, CdmaAssumption DEF Push, TypeOK
    <3>7. \A i \in 1 .. Len(queue) + 1 : Front(i)' = Front(i)
      BY <3>1, <3>6 DEF Front
    <3>8. Front(1)' = Base'
      BY <1>0, <3>1, <3>7, Positions DEF RingInv
    <3>9. ASSUME NEW i \in 1 .. Len(queue')
          PROVE  Pos(Front(i + 1))' = Pos(Front(i))' + queue'[i].num_slots
      <4>1. i \in 1 .. Len(queue) /\ i \in 1 .. Len(queue) + 1 /\ i + 1 \in 1 .. Len(queue) + 1
        BY <1>0, <3>6, Positions
      <4>2. Gap(Base', Front(i + 1)') = Pos(Front(i + 1)) /\ Gap(Base', Front(i)') = Pos(Front(i))
        BY <3>1, <3>7, <4>1 DEF Pos
      <4> QED BY <1>0, <3>6, <4>1, <4>2 DEF RingInv, Pos
    <3>10. Pos(pb.cur)' = Pos(Begun)' + slots_used'
      <4>1. Gap(Base', pb'.cur) = Pos(pb.cur) + 1 /\ Gap(Base', Begun') = Pos(Begun)
        BY <3>1, <3>5 DEF Pos
      <4>2. Pos(pb.cur) = Pos(Begun) + slots_used
        BY <1>0 DEF RingInv
      <4> QED BY <3>2, <3>6, <4>1, <4>2 DEF Pos
    <3> QED BY <3>8, <3>9, <3>10 DEF RingInv
  <2>7. CASE PushFull(c)
    <3>1. \E l \in {"push_retry", "push_down"} : Goto(c, l)
      BY <2>7 DEF PushFull, WaitLocked
    <3> QED BY <1>2, <2>7, <3>1 DEF PushFull, SubmitPcs
  <2>8. CASE PushRetry(c)
    <3>1. \E l \in {"push", "push_retry", "push_down"} : Goto(c, l)
      BY <2>8 DEF PushRetry, WaitLocked
    <3> QED BY <1>2, <2>8, <3>1 DEF PushRetry, SubmitPcs
  <2>9. CASE End(c)
    <3>1. /\ Len(queue') = Len(queue) + 1 /\ Len(queue) \in Nat
          /\ \A i \in 1 .. Len(queue) : queue'[i] = queue[i]
          /\ queue'[Len(queue) + 1] = SubmittedJob(c)
      BY <1>0, <2>9, EndQueue, Positions
    <3>2. SubmittedJob(c).first_get = first_get /\ SubmittedJob(c).num_slots = slots_used
      BY DEF SubmittedJob
    <3>3. Submitting /\ ~Submitting' /\ pb' = pb /\ slots_used' = 0 /\ slots_used \in Int
      <4>1. SubmitInv'
        BY SubmitNext
      <4>2. \A d \in Clients : pc'[d] \notin SubmitPcs
        BY <1>0, <2>9 DEF End, Goto, WaitTypes, SubmitInv, SubmitPcs
      <4> QED BY <1>0, <2>9, <4>2, CdmaAssumption DEF End, Submitting, SubmitPcs, TypeOK
    <3>4. Base' = Base /\ Begun = first_get /\ Begun' = pb.cur
      BY <3>3 DEF Base, Begun
    <3>5. \A i \in 1 .. Len(queue) + 1 : Front(i)' = Front(i)
      BY <3>1, <3>2, <3>4 DEF Front
    <3>6. \A k \in Nat : k = Len(queue) + 2 => Front(k)' = pb.cur
      BY <3>1, <3>4 DEF Front
    <3>7. Front(1)' = Base'
      BY <1>0, <3>1, <3>4, <3>5 DEF RingInv
    <3>8. ASSUME NEW i \in 1 .. Len(queue')
          PROVE  Pos(Front(i + 1))' = Pos(Front(i))' + queue'[i].num_slots
      <4>1. CASE i \in 1 .. Len(queue)
        <5>1. i \in 1 .. Len(queue) + 1 /\ i + 1 \in 1 .. Len(queue) + 1
          BY <3>1, <4>1
        <5>2. Gap(Base', Front(i + 1)') = Pos(Front(i + 1)) /\ Gap(Base', Front(i)') = Pos(Front(i))
          BY <3>4, <3>5, <5>1 DEF Pos
        <5> QED BY <1>0, <3>1, <4>1, <5>2 DEF RingInv, Pos
      <4>2. CASE i = Len(queue) + 1
        <5>1. i + 1 = Len(queue) + 2 /\ i + 1 \in Nat /\ i \in 1 .. Len(queue) + 1 /\ Front(i) = Begun
          BY <3>1, <4>2 DEF Front
        <5>2. Gap(Base', Front(i + 1)') = Pos(pb.cur) /\ Gap(Base', Front(i)') = Pos(Begun)
          BY <3>4, <3>5, <3>6, <5>1 DEF Pos
        <5>3. queue'[i].num_slots = slots_used
          BY <3>1, <3>2, <4>2
        <5> QED BY <1>0, <5>2, <5>3 DEF RingInv, Pos
      <4> QED BY <3>1, <4>1, <4>2
    <3>9. Pos(pb.cur)' = Pos(Begun)' + slots_used'
      <4>1. Gap(Base', pb'.cur) = Pos(pb.cur) /\ Gap(Base', Begun') = Pos(pb.cur) /\ Pos(pb.cur) \in Int
        BY <1>0, <3>3, <3>4, Positions DEF Pos
      <4> QED BY <3>3, <4>1 DEF Pos
    <3> QED BY <3>7, <3>8, <3>9 DEF RingInv
  <2>10. CASE StopWait(c)
    <3>1. \E l \in {"stop_retry", "stop_down"} : Goto(c, l)
      BY <2>10 DEF StopWait, WaitLocked
    <3> QED BY <1>2, <2>10, <3>1 DEF StopWait, Closing, SubmitPcs
  <2>11. CASE Close(c)
    <3>1. queue' = <<>> /\ pb' = push_buffer_init("noop")
      BY <1>0, <2>11 DEF Close, SubmitInv
    <3>2. pb'.cur = 0 /\ Base' = 0 /\ 0 \in Slots
      BY <3>1, SizeAssumption DEF push_buffer_init, Base, Ahead, Slots
    <3>3. ~Submitting /\ slots_used' = 0
      BY <1>0, <2>11, ClosingNobodySubmits DEF Close, SubmitInv
    <3>4. ~Submitting'
      BY <1>0, <2>11, ClosingNobodySubmits DEF Close, Goto, WaitTypes, Submitting, SubmitPcs
    <3>5. Begun' = 0 /\ Len(queue') = 0
      BY <3>1, <3>2, <3>4 DEF Begun
    <3>6. Front(1)' = Base'
      BY <3>2, <3>5 DEF Front
    <3>7. Gap(0, 0) = 0
      BY <3>2, GapZero
    <3> QED BY <3>2, <3>3, <3>5, <3>6, <3>7 DEF RingInv, Pos
  <2>12. CASE Reopen(c)
    BY <1>3, <2>12 DEF Reopen
  <2> QED BY <1>4, <2>1, <2>2, <2>3, <2>4, <2>5, <2>6, <2>7, <2>8, <2>9, <2>10,
             <2>11, <2>12 DEF ClientStep
<1>5. CASE \E n \in 0 .. Len(queue) : Update(n) BY <1>0, <1>5, UpdateRing
<1>6. CASE Suspend BY <1>3, <1>6 DEF Suspend
<1>7. CASE DmaFetch \/ EngineIncr BY <1>3, <1>7 DEF DmaFetch, EngineIncr
<1>8. CASE TimerFire \/ HandlerReturns \/ HandlerStops
  BY <1>3, <1>8 DEF TimerFire, HandlerReturns, HandlerStops
<1>9. CASE Teardown
  <2>1. pb'.cur = pb.cur /\ pb'.fence = pb.fence
    BY <1>0, <1>9, TeardownPb
  <2>2. slots_used' = slots_used /\ first_get' = first_get /\ pc' = pc
    BY <1>9 DEF Teardown
  <2>3. Begun' = Begun
    BY <2>1, <2>2 DEF Begun, Submitting
  <2> QED BY <1>0, <1>9, <2>1, <2>2, <2>3, TeardownQueue, RingKept
<1>10. CASE UNCHANGED vars BY <1>3, <1>10 DEF vars
<1> QED BY <1>4, <1>5, <1>6, <1>7, <1>8, <1>9, <1>10 DEF Next

(* A freshly opened channel: an empty ring and an empty queue. *)
LEMMA ChannelInit == Init => ChannelInv /\ PushNeverFull
<1> SUFFICES ASSUME Init PROVE ChannelInv /\ PushNeverFull
  OBVIOUS
<1>1. WaitTypes /\ CloserAlone
  BY WakeInit DEF WakeInv
<1>2. pb = push_buffer_init("noop") /\ pb.cur = 0 /\ pb.fence = Size - 1 /\ 0 \in Slots
  BY SizeAssumption DEF Init, push_buffer_init, Slots
<1>3. queue = <<>> /\ queue \in Seq(Job) /\ Len(queue) = 0 /\ ~Submitting
  BY DEF Init, Submitting, SubmitPcs
<1>4. HwTypes
  BY <1>2, CdmaAssumption DEF Init, HwTypes
<1>5. RingTypes
  BY <1>2, <1>3, InitPb DEF Init, RingTypes
<1>6. 0 \in Word
  BY HalfAssumption DEF Word, M
<1>7. SubmitTypes
  BY <1>2, <1>6, SizeAssumption, CdmaAssumption DEF Init, SubmitTypes
<1>8. TimeoutTypes
  <2>1. 0 \in 0 .. MaxLate
    BY CdmaAssumption
  <2>2. timer = FALSE /\ tclient = None /\ tval = 0 /\ work = "idle" /\ fired = 0 /\ late = 0
        /\ timedout = {} /\ lost = FALSE
    BY DEF Init
  <2> QED BY <1>6, <2>1, <2>2 DEF TimeoutTypes
<1>9. TypeOK
  BY <1>1, <1>4, <1>5, <1>7, <1>8, TypeParts
<1>10. SubmitInv
  BY <1>3 DEF Init, SubmitInv, SubmitPcs
<1>11. TimerInv
  BY DEF Init, TimerInv
<1>12. RingInv
  <2>1. Base = 0 /\ Begun = 0 /\ Gap(0, 0) = 0
    BY <1>2, <1>3, GapZero, SizeAssumption DEF Base, Begun, Ahead
  <2>2. Front(1) = Base
    BY <1>3, <2>1 DEF Front
  <2> QED BY <1>2, <1>3, <2>1, <2>2 DEF Init, RingInv, Pos
<1>13. PushNeverFull
  <2>1. pb.cur \in Slots /\ pb.fence \in Slots
    BY <1>2, SizeAssumption DEF Slots
  <2>2. push_buffer_space(pb) \in Nat
    BY <2>1, SizeAssumption DEF push_buffer_space, Gap, Slots
  <2> QED BY <2>2 DEF Init, PushNeverFull
<1> QED BY <1>1, <1>9, <1>10, <1>11, <1>12, <1>13 DEF ChannelInv

LEMMA ChannelNext == ChannelInv /\ PushNeverFull /\ [Next]_vars => ChannelInv' /\ PushNeverFull'
<1> SUFFICES ASSUME ChannelInv, PushNeverFull, [Next]_vars PROVE ChannelInv' /\ PushNeverFull'
  OBVIOUS
<1>1. TypeOK' /\ SubmitInv' /\ TimerInv' /\ RingInv' /\ PushNeverFull'
  BY TypesNext, SubmitNext, TimerNext, RingNext, PushNeverFullNext
<1>2. WaitTypes' /\ CloserAlone'
  BY WaitTypesNext, CloserAloneNext DEF ChannelInv
<1> QED BY <1>1, <1>2 DEF ChannelInv

(***************************************************************************)
(* The variables of a channel keep their types: in particular no step      *)
(* reads a slot, a job or a fence that is not there.                       *)
(***************************************************************************)
THEOREM CdmaTypeCorrect == Spec => []TypeOK
<1>1. Init => ChannelInv /\ PushNeverFull
  BY ChannelInit
<1>2. ChannelInv /\ PushNeverFull /\ [Next]_vars => (ChannelInv /\ PushNeverFull)'
  BY ChannelNext
<1>3. ChannelInv => TypeOK
  BY DEF ChannelInv
<1> QED BY <1>1, <1>2, <1>3, PTL DEF Spec

LEMMA ChannelAlways == Spec => [](ChannelInv /\ PushNeverFull)
<1>1. Init => ChannelInv /\ PushNeverFull
  BY ChannelInit
<1>2. ChannelInv /\ PushNeverFull /\ [Next]_vars => (ChannelInv /\ PushNeverFull)'
  BY ChannelNext
<1> QED BY <1>1, <1>2, PTL DEF Spec

(***************************************************************************)
(* BUG_ON(cur == pb->fence) of push_buffer_push_to cannot fire.            *)
(***************************************************************************)
THEOREM PushCorrect == Spec => []PushNeverFull
BY ChannelAlways, PTL

(***************************************************************************)
(* The submit timer watches a queued job of the client it would punish.    *)
(***************************************************************************)
THEOREM TimerCorrect == Spec => []TimerWatchesQueue
<1>1. ChannelInv => TimerWatchesQueue
  <2> SUFFICES ASSUME TypeOK, TimerInv PROVE TimerWatchesQueue
    BY DEF ChannelInv
  <2>1. queue \in Seq(Job) /\ (queue # <<>> => 1 \in 1 .. Len(queue))
    BY DEF TypeOK
  <2> QED BY <2>1 DEF TimerInv, TimerWatchesQueue
<1> QED BY <1>1, ChannelAlways, PTL

(* The first slot after a run of n slots. *)
LEMMA GapToAhead ==
    ASSUME NEW i \in Slots, NEW j \in Slots, NEW k \in Slots, NEW n \in Nat,
           Gap(i, k) = Gap(i, j) + n
    PROVE  k = Ahead(j, n)
BY SizeAssumption DEF Gap, Ahead, Slots

(***************************************************************************)
(* Queue and ring agree: the queued jobs and the submit in progress tile   *)
(* the slots in use, so that popping a finished job frees its own slots.   *)
(***************************************************************************)
THEOREM RingCorrect == Spec => []RingHoldsQueue
<1>1. ChannelInv => RingHoldsQueue
  <2> SUFFICES ASSUME TypeOK, RingInv, SubmitInv PROVE RingHoldsQueue
    BY DEF ChannelInv
  <2>1. Len(queue) \in Nat /\ Base \in Slots /\ Begun \in Slots /\ pb.cur \in Slots
        /\ \A i \in 1 .. Len(queue) + 1 : Front(i) \in Slots
    BY Positions
  <2>2. ASSUME NEW i \in 0 .. Len(queue) PROVE Front(i + 1) = After(i)
    <3>1. CASE i = 0
      BY <3>1 DEF RingInv, After, Base
    <3>2. CASE i # 0
      <4>1. i \in 1 .. Len(queue) /\ i \in 1 .. Len(queue) + 1 /\ i + 1 \in 1 .. Len(queue) + 1
        BY <2>1, <3>2
      <4>2. Gap(Base, Front(i + 1)) = Gap(Base, Front(i)) + queue[i].num_slots
        BY <4>1 DEF RingInv, Pos
      <4>3. queue[i].num_slots \in Nat
        BY <4>1, QueuedJob, CdmaAssumption
      <4>4. Front(i + 1) = Ahead(Front(i), queue[i].num_slots)
        BY <2>1, <4>1, <4>2, <4>3, GapToAhead
      <4>5. Front(i) = queue[i].first_get
        BY <4>1 DEF Front
      <4> QED BY <3>2, <4>4, <4>5 DEF After
    <3> QED BY <3>1, <3>2
  <2>3. \A i \in 1 .. Len(queue) : queue[i].first_get = After(i - 1)
    <3> SUFFICES ASSUME NEW i \in 1 .. Len(queue) PROVE queue[i].first_get = After(i - 1)
      OBVIOUS
    <3>1. i - 1 \in 0 .. Len(queue) /\ (i - 1) + 1 = i
      BY <2>1
    <3> QED BY <2>2, <3>1 DEF Front
  <2>4. Begun = After(Len(queue))
    <3>1. Front(Len(queue) + 1) = Begun
      BY <2>1 DEF Front
    <3> QED BY <2>1, <2>2, <3>1
  <2>5. Submitting => pb.cur = Ahead(first_get, slots_used)
    <3>1. Gap(Base, pb.cur) = Gap(Base, Begun) + slots_used /\ slots_used \in Nat
      BY CdmaAssumption DEF RingInv, Pos, TypeOK
    <3> QED BY <2>1, <3>1, GapToAhead DEF Begun
  <2> QED BY <2>3, <2>4, <2>5 DEF RingHoldsQueue, Begun
<1> QED BY <1>1, ChannelAlways, PTL

-----------------------------------------------------------------------------
(* The handle table *)

(* Popping D slots frees the slots behind the old fence, and those whose    *)
(* handle is kept are in use still or the new fence.                        *)
LEMMA FreedBy ==
    ASSUME NEW f \in Slots, NEW c \in Slots, NEW i \in Slots, NEW D \in Nat,
           D <= Gap(Ahead(f, 1), c)
    PROVE  /\ Gap(c, i) <= Gap(c, Ahead(f, D)) /\ Gap(f, i) >= D /\ i # Ahead(f, D)
                => Gap(c, i) <= Gap(c, f) /\ i # f
           /\ ~(Gap(c, i) <= Gap(c, Ahead(f, D))) => ~(Gap(c, i) <= Gap(c, f)) /\ Gap(f, i) >= D
BY SizeAssumption DEF Gap, Ahead, Slots

(* A push takes its slot from the free ones, and no other. *)
LEMMA TakenBy ==
    ASSUME NEW f \in Slots, NEW c \in Slots, NEW i \in Slots, c # f
    PROVE  /\ i = c => ~(Gap(Ahead(c, 1), i) <= Gap(Ahead(c, 1), f))
           /\ i # c => (Gap(Ahead(c, 1), i) <= Gap(Ahead(c, 1), f) <=> Gap(c, i) <= Gap(c, f))
<1>1. Gap(Ahead(c, 1), c) = Size - 1 /\ Gap(Ahead(c, 1), f) = Gap(c, f) - 1
  BY SizeAssumption DEF Gap, Ahead, Slots
<1>2. i # c => Gap(Ahead(c, 1), i) = Gap(c, i) - 1
  BY SizeAssumption DEF Gap, Ahead, Slots
<1>3. Gap(c, f) \in 0 .. Size - 1 /\ Gap(c, i) \in 0 .. Size - 1
  BY GapType
<1> QED BY <1>1, <1>2, <1>3, SizeAssumption

(* Only pushes, pops and the open of the channel touch the handles. *)
LEMMA HandlesNext ==
    ChannelInv /\ PushNeverFull /\ HandlesFollowRing /\ [Next]_vars => HandlesFollowRing'
<1> SUFFICES ASSUME ChannelInv, PushNeverFull, HandlesFollowRing, [Next]_vars
             PROVE  HandlesFollowRing'
  OBVIOUS
<1>0. TypeOK /\ SubmitInv /\ RingInv /\ pb.cur \in Slots /\ pb.fence \in Slots
      /\ pb.handle \in [Slots -> BOOLEAN]
  BY Positions, PbFields DEF ChannelInv, TypeOK
<1>1. ASSUME pb'.cur = pb.cur, pb'.fence = pb.fence, pb'.handle = pb.handle
      PROVE  HandlesFollowRing'
  BY <1>1 DEF HandlesFollowRing, Free
<1>2. CASE UNCHANGED pb
  BY <1>1, <1>2
<1>3. ASSUME NEW c \in Clients, Push(c) PROVE HandlesFollowRing'
  <2>1. pb'.fence = pb.fence /\ pb'.cur = Ahead(pb.cur, 1)
        /\ pb'.handle = [pb.handle EXCEPT ![pb.cur] = TRUE]
    BY <1>0, <1>3, PushRing
  <2>2. pb.cur # pb.fence
    <3>1. push_buffer_space(pb) > 0
      <4>1. slots_free > 0 => push_buffer_space(pb) > 0
        <5>1. push_buffer_space(pb) \in Int /\ slots_free \in Int
          <6>1. Gap(pb.cur, pb.fence) \in 0 .. Size - 1
            BY <1>0, GapType
          <6>2. slots_free \in 0 .. Size - 1
            BY <1>0 DEF TypeOK
          <6> QED BY <6>1, <6>2 DEF push_buffer_space
        <5> QED BY <5>1 DEF PushNeverFull
      <4> QED BY <1>0, <1>3, <4>1, PushRing
    <3> QED BY <1>0, <3>1, GapZero DEF push_buffer_space
  <2> QED BY <1>0, <2>1, <2>2, TakenBy DEF HandlesFollowRing, Free
<1>4. ASSUME NEW n \in 0 .. Len(queue), Update(n) PROVE HandlesFollowRing'
  <2> DEFINE D == Pos(Front(n + 1))
             f == Ahead(pb.fence, D)
  <2>1. pb' = Popped(n)
    BY <1>0, <1>4, PopJobsIsPopped DEF Update
  <2>2. D \in Nat /\ D <= Gap(Ahead(pb.fence, 1), pb.cur)
    <3>1. n + 1 \in 1 .. Len(queue) + 1 /\ n + 1 \in n + 1 .. Len(queue) + 1
      BY <1>0, Positions
    <3>2. D \in 0 .. Size - 1
      BY <1>0, <3>1, Positions
    <3> QED BY <1>0, <3>1, <3>2, FrontsOrdered DEF Pos, Base
  <2>3. pb'.cur = pb.cur /\ pb'.fence = f
        /\ pb'.handle = [i \in Slots |-> pb.handle[i] /\ Gap(pb.fence, i) >= D]
    BY <2>1 DEF Popped
  <2> HIDE DEF D
  <2>4. f \in Slots
    <3>1. Ahead(pb.fence, 1) \in Slots
      BY <1>0, GapFence
    <3>2. Gap(Ahead(pb.fence, 1), pb.cur) \in 0 .. Size - 1
      BY <1>0, <3>1, GapType
    <3>3. D \in 0 .. Size
      BY <2>2, <3>2, SizeAssumption
    <3> QED BY <1>0, <3>3, AheadType
  <2>5. ASSUME NEW i \in Slots
        PROVE  IF Gap(pb.cur, i) <= Gap(pb.cur, f)
               THEN pb.handle[i] /\ Gap(pb.fence, i) >= D => i = f
               ELSE pb.handle[i] /\ Gap(pb.fence, i) >= D
    <3>1. IF Gap(pb.cur, i) <= Gap(pb.cur, pb.fence) THEN pb.handle[i] => i = pb.fence
          ELSE pb.handle[i]
      BY DEF HandlesFollowRing, Free
    <3>2. /\ Gap(pb.cur, i) <= Gap(pb.cur, f) /\ Gap(pb.fence, i) >= D /\ i # f
                => Gap(pb.cur, i) <= Gap(pb.cur, pb.fence) /\ i # pb.fence
          /\ ~(Gap(pb.cur, i) <= Gap(pb.cur, f))
                => ~(Gap(pb.cur, i) <= Gap(pb.cur, pb.fence)) /\ Gap(pb.fence, i) >= D
      BY <1>0, <2>2, FreedBy
    <3> QED BY <3>1, <3>2
  <2> HIDE DEF f
  <2> QED BY <2>3, <2>5 DEF HandlesFollowRing, Free
<1>5. ASSUME NEW c \in Clients, Close(c) PROVE HandlesFollowRing'
  <2>1. pb' = push_buffer_init("noop")
    BY <1>5 DEF Close
  <2>2. pb'.cur = 0 /\ pb'.fence = Size - 1 /\ \A i \in Slots : pb'.handle[i] = FALSE
    BY <2>1 DEF push_buffer_init
  <2>3. \A i \in Slots : Gap(0, i) <= Gap(0, Size - 1)
    BY SizeAssumption DEF Gap, Slots
  <2> QED BY <2>2, <2>3 DEF HandlesFollowRing, Free
<1>6. CASE Teardown
  BY <1>0, <1>1, <1>6, TeardownPb
<1>7. ASSUME NEW c \in Clients, ClientStep(c) PROVE HandlesFollowRing'
  BY <1>2, <1>3, <1>5, <1>7
     DEF ClientStep, Submit, Flush, FlushTimeout, Down, Begin, PushFull, PushRetry, End,
         StopWait, Reopen
<1>8. CASE Suspend \/ DmaFetch \/ EngineIncr \/ TimerFire \/ HandlerReturns \/ HandlerStops
           \/ UNCHANGED vars
  BY <1>2, <1>8 DEF Suspend, DmaFetch, EngineIncr, TimerFire, HandlerReturns, HandlerStops, vars
<1> QED BY <1>4, <1>6, <1>7, <1>8 DEF Next

(***************************************************************************)
(* Every slot of an unfinished job keeps its memory handle for the debug   *)
(* dump, and of the free slots at most the fence has one.                  *)
(***************************************************************************)
THEOREM HandlesCorrect == Spec => []HandlesFollowRing
<1>1. Init => HandlesFollowRing
  <2> SUFFICES ASSUME Init PROVE HandlesFollowRing
    OBVIOUS
  <2>1. pb.cur = 0 /\ pb.fence = Size - 1 /\ \A i \in Slots : pb.handle[i] = FALSE
    BY DEF Init, push_buffer_init
  <2>2. \A i \in Slots : Gap(0, i) <= Gap(0, Size - 1)
    BY SizeAssumption DEF Gap, Slots
  <2> QED BY <2>1, <2>2 DEF HandlesFollowRing, Free
<1>2. (ChannelInv /\ PushNeverFull) /\ HandlesFollowRing /\ [Next]_vars => HandlesFollowRing'
  BY HandlesNext
<1> QED BY <1>1, <1>2, ChannelAlways, PTL DEF Spec

================================================================================
