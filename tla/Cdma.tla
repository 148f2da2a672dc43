---------------------------------- MODULE Cdma ----------------------------------
(***************************************************************************)
(* The command DMA of one host1x channel: submitting clients fill the push *)
(* buffer and append to the sync queue, the DMA engine fetches slots and   *)
(* the module executes them, finished jobs are popped by nvhost_cdma_update*)
(* and a job that does not finish in time is torn down and replayed as     *)
(* NOOPs (nvhost_cdma.c, host1x/host1x_cdma.c, nvhost_channel.c).          *)
(*                                                                         *)
(* Data is abstracted as follows.  Each slot of a job carries one sync     *)
(* point increment, so that a job of n slots promises n increments.  The   *)
(* sync point is the channel's own; hw is its register, max_val the value  *)
(* promised to all submitted work.  A client is one open file, and every   *)
(* client runs one submit at a time.  Sections run under cdma->lock are    *)
(* single steps; where the code drops the lock (waiting for space, for an  *)
(* empty queue, in the handler's stop of the hardware) the step ends.      *)
(***************************************************************************)
EXTENDS U32, PushBuffer, Sequences, FiniteSets

CONSTANTS Clients,      \* open files of the channel
          Timed,        \* those that set a submit timeout
          Low,          \* those with low priority; the others have high priority
          MaxSlots,     \* bound: slots of one job
          PipeDepth,    \* bound: slots fetched by the DMA and not yet executed
          MaxLate,      \* bound: increments that land while the handler stops the channel
          Start,        \* counter value when the channel is opened
          Wrap,         \* whether the counter may wrap in the run
          HasCtx,       \* the channel has hardware contexts (gr3d)
          PromptFetch,  \* the DMA passes the NOOPs of a replayed job before their slots are reused
          None          \* no client

ASSUME CdmaAssumption ==
    /\ Timed \subseteq Clients /\ Low \subseteq Clients
    /\ None \notin Clients
    /\ MaxSlots \in Nat \ {0} /\ PipeDepth \in Nat \ {0} /\ MaxLate \in Nat
    /\ Wrap \in BOOLEAN /\ PromptFetch \in BOOLEAN /\ HasCtx \in BOOLEAN
    /\ Size + MaxSlots <= Half + 1 /\ Start \in Word    \* ring and jobs are small against the counter
    /\ IsFiniteSet(Clients)

VARIABLES
    hw, max_val,          \* sync point register, promised value
    pb,                   \* push buffer
    get, last_put,        \* DMAGET register and cdma->last_put (= DMAPUT)
    pipe,                 \* increments fetched but not executed
    queue,                \* cdma->sync_queue
    running,              \* cdma->running
    slots_free, first_get, slots_used,  \* of the submit in progress
    todo, end,            \* slots it has still to push; its syncpt_end
    event, sem,           \* cdma->event, cdma->sem
    timer,                \* the delayed work is pending
    tclient, tval,        \* cdma->timeout.clientid, .syncpt_val
    work, fired, late,    \* timeout handler; the value its timer was set for; late increments
    timedout,             \* clients whose context has_timedout
    lost,                 \* DMAGET is meaningless since the last restart
    pc                    \* where each client is

hwVars == <<hw, get, pipe>>
submitVars == <<slots_free, first_get, slots_used, todo, end>>
timeoutVars == <<timer, tclient, tval, work, fired, late, timedout, lost>>
waitVars == <<event, sem>>
vars == <<hwVars, max_val, pb, last_put, queue, running, submitVars,
          waitVars, timeoutVars, pc>>

Job == [first_get : Slots, num_slots : 1 .. MaxSlots, syncpt_end : Word,
        timeout : BOOLEAN, clientid : Clients]

SubmitPcs == {"push", "push_retry", "push_down"}    \* between begin and end
FlushPcs == {"flush_retry", "flush_down"}
StopPcs == {"stop_retry", "stop_down"}
Asleep == {c \in Clients : pc[c] \in {"push_down", "flush_down", "stop_down"}}

(* cdma->lock is free: held across steps only by a pushing client and by   *)
(* the timeout handler                                                     *)
LockFree == work # "stopping" /\ \A c \in Clients : pc[c] # "push"

(* some client is between nvhost_cdma_begin and nvhost_cdma_end *)
Submitting == \E c \in Clients : pc[c] \in SubmitPcs

TypeOK ==
    /\ hw \in Word /\ max_val \in Word
    /\ pb \in PushBufferType({"noop", "incr"})
    /\ get \in Slots /\ last_put \in Slots /\ pipe \in 0 .. PipeDepth
    /\ queue \in Seq(Job) /\ running \in BOOLEAN
    /\ slots_free \in 0 .. Size - 1 /\ slots_used \in 0 .. MaxSlots
    /\ first_get \in Slots /\ todo \in 0 .. MaxSlots /\ end \in Word
    /\ event \in {"none", "space", "empty"} /\ sem \in Nat
    /\ timer \in BOOLEAN /\ tclient \in Clients \cup {None} /\ tval \in Word
    /\ work \in {"idle", "blocked", "stopping"} /\ fired \in Word
    /\ late \in 0 .. MaxLate /\ timedout \subseteq Clients /\ lost \in BOOLEAN
    /\ pc \in [Clients -> {"idle", "lock"} \cup SubmitPcs \cup FlushPcs \cup StopPcs]

(* nvhost_cdma_init of a freshly opened channel *)
Init ==
    /\ hw = Start /\ max_val = Start
    /\ pb = push_buffer_init("noop")
    /\ get = 0 /\ last_put = 0 /\ pipe = 0
    /\ queue = <<>> /\ running = FALSE
    /\ slots_free = 0 /\ slots_used = 0 /\ first_get = 0 /\ todo = 0 /\ end = 0
    /\ event = "none" /\ sem = 0
    /\ timer = FALSE /\ tclient = None /\ tval = 0
    /\ work = "idle" /\ fired = 0 /\ late = 0
    /\ timedout = {} /\ lost = FALSE
    /\ pc = [c \in Clients |-> "idle"]

Goto(c, l) == pc' = [pc EXCEPT ![c] = l]

-----------------------------------------------------------------------------
(* Helpers shared by the operations *)

(* cdma_start_timer_locked on the timer state t *)
StartTimer(t, job) ==
    IF t.client # None THEN t
    ELSE [on |-> TRUE, client |-> job.clientid, val |-> job.syncpt_end]

(* a slip: the delayed work is left pending *)
StopTimer_StillPending(t) == [on |-> t.on, client |-> None, val |-> 0]

(* stop_cdma_timer_locked: a handler that already runs is not waited for *)
StopTimer(t) == [on |-> FALSE, client |-> None, val |-> 0]

Timeout == [on |-> timer, client |-> tclient, val |-> tval]

SetTimer(t) == timer' = t.on /\ tclient' = t.client /\ tval' = t.val

(* a slip: finished one increment early *)
Expired_OneEarly(job) == Sub(max_val, job.syncpt_end) >= Sub(Add(hw, 1), job.syncpt_end)

(* nvhost_syncpt_is_expired, for the register value *)
Expired(job) == Sub(max_val, job.syncpt_end) >= Sub(hw, job.syncpt_end)

(* how far a loop that stops at the first entry not in ok gets: the length *)
(* of the longest prefix of positions in ok                                *)
PrefixLen(ok) == Cardinality({n \in ok : 1 .. n \subseteq ok})

(* the finished jobs at the head of the queue *)
Finished == PrefixLen({i \in DOMAIN queue : Expired(queue[i])})

(* fence and handles after popping the first n jobs, one pop_from each *)
PopJobs(n) ==
    LET after[i \in 0 .. n] ==
            IF i = 0 THEN pb
            ELSE push_buffer_pop_from(after[i - 1], queue[i].num_slots)
    IN  after[n]

HigherPrioQueued(c) ==
    c \in Low /\ \E i \in 1 .. Len(queue) : queue[i].clientid \notin Low

(* "Bail out on timed out contexts", tested before the submit lock is taken *)
AfterCheck(c) == IF c \in timedout THEN "idle" ELSE "lock"

(* a slip: the event of another waiter is overwritten *)
WaitLocked_Overwrite(c, ev, retry, down) == Goto(c, down) /\ event' = ev

(* nvhost_cdma_wait_locked, the part after the status test failed: set the *)
(* event and sleep, or yield if another thread already waits               *)
WaitLocked(c, ev, retry, down) ==
    IF event # "none"
    THEN Goto(c, retry) /\ UNCHANGED event
    ELSE Goto(c, down) /\ event' = ev

-----------------------------------------------------------------------------
(* nvhost_channel_submit and nvhost_cdma_flush *)

(* a low priority submit flushes first while higher priority jobs are queued *)
Submit(c) ==
    /\ pc[c] = "idle"
    /\ \A d \in Clients : pc[d] \notin StopPcs     \* an open channel
    /\ Goto(c, IF HigherPrioQueued(c) THEN "flush_retry" ELSE AfterCheck(c))
    /\ UNCHANGED <<hwVars, max_val, pb, last_put, queue, running, submitVars,
                   waitVars, timeoutVars>>

(* one round of the flush loop; polling while another event is set changes *)
(* nothing, and is not a step                                              *)
Flush(c) ==
    /\ pc[c] = "flush_retry" /\ LockFree
    /\ \/ /\ queue = <<>>
          /\ Goto(c, AfterCheck(c))
          /\ UNCHANGED event
       \/ /\ queue # <<>> /\ event = "none"
          /\ WaitLocked(c, "empty", "flush_retry", "flush_down")
    /\ UNCHANGED <<hwVars, max_val, pb, last_put, queue, running, submitVars,
                   sem, timeoutVars>>

(* the flush gives up at its deadline, and leaves cdma->event as it is *)
FlushTimeout(c) ==
    /\ pc[c] = "flush_retry" \/ (pc[c] = "flush_down" /\ sem = 0)
    /\ Goto(c, AfterCheck(c))
    /\ UNCHANGED <<hwVars, max_val, pb, last_put, queue, running, submitVars,
                   waitVars, timeoutVars>>

(* where a sleeper goes on when the semaphore lets it through *)
Awoken(l) == IF l = "push_down" THEN "push_retry"
             ELSE IF l = "flush_down" THEN "flush_retry" ELSE "stop_retry"

(* down() and down_timeout() *)
Down(c) ==
    /\ c \in Asleep /\ sem > 0
    /\ sem' = sem - 1
    /\ Goto(c, Awoken(pc[c]))
    /\ UNCHANGED <<hwVars, max_val, pb, last_put, queue, running, submitVars,
                   event, timeoutVars>>

-----------------------------------------------------------------------------
(* host1x_channel_submit: begin, push, end *)

(* an idle channel starts with GET = PUT *)
cdma_start ==
    /\ running' = TRUE
    /\ IF running THEN UNCHANGED <<get, last_put, lost>>
                  ELSE get' = pb.cur /\ last_put' = pb.cur /\ lost' = FALSE

(* write PUT *)
cdma_kick == last_put' = pb.cur

(* submitlock, nvhost_cdma_begin and incr_max *)
Begin(c, n) ==
    /\ pc[c] = "lock" /\ LockFree /\ ~Submitting
    /\ Sub(max_val, hw) + n < Half
    /\ Wrap \/ max_val + n < M
    /\ cdma_start
    /\ slots_free' = 0 /\ slots_used' = 0 /\ first_get' = pb.cur
    /\ todo' = n
    /\ max_val' = Add(max_val, n) /\ end' = max_val'
    /\ Goto(c, "push")
    /\ UNCHANGED <<hw, pipe, pb, queue, waitVars, timer, tclient, tval, work, fired,
                   late, timedout>>

(* a slip: the number of free slots is trusted across a wait *)
FreeSlots_Stale == IF slots_used = 0 THEN push_buffer_space(pb) ELSE Size - 1

(* slots known to be free: asked for anew when the last answer is used up *)
FreeSlots == IF slots_free = 0 THEN push_buffer_space(pb) ELSE slots_free

(* nvhost_cdma_push_gather; the DMA is kicked whenever space is asked for *)
Push(c) ==
    /\ pc[c] = "push" /\ todo > 0 /\ FreeSlots > 0
    /\ IF slots_free = 0 THEN cdma_kick ELSE UNCHANGED last_put
    /\ slots_free' = FreeSlots - 1
    /\ slots_used' = slots_used + 1
    /\ pb' = push_buffer_push_to(pb, "incr")
    /\ todo' = todo - 1
    /\ UNCHANGED <<hwVars, max_val, queue, running, first_get, end, waitVars,
                   timeoutVars, pc>>

(* the ring is full: kick, then wait for CDMA_EVENT_PUSH_BUFFER_SPACE *)
PushFull(c) ==
    /\ pc[c] = "push" /\ todo > 0 /\ FreeSlots = 0
    /\ cdma_kick
    /\ WaitLocked(c, "space", "push_retry", "push_down")
    /\ UNCHANGED <<hwVars, max_val, pb, queue, running, submitVars, sem,
                   timeoutVars>>

(* the wait loop goes round with the lock taken again *)
PushRetry(c) ==
    /\ pc[c] = "push_retry" /\ LockFree
    /\ \/ push_buffer_space(pb) > 0 /\ Goto(c, "push") /\ UNCHANGED event
       \/ /\ push_buffer_space(pb) = 0 /\ event = "none"
          /\ WaitLocked(c, "space", "push_retry", "push_down")
    /\ UNCHANGED <<hwVars, max_val, pb, last_put, queue, running, submitVars,
                   sem, timeoutVars>>

(* nvhost_cdma_end *)
End(c) ==
    /\ pc[c] = "push" /\ todo = 0
    /\ LET job == [first_get |-> first_get, num_slots |-> slots_used,
                   syncpt_end |-> end, timeout |-> c \in Timed, clientid |-> c]
       IN  /\ queue' = Append(queue, job)
           /\ SetTimer(IF job.timeout /\ queue = <<>> THEN StartTimer(Timeout, job)
                                                      ELSE Timeout)
    /\ cdma_kick
    /\ Goto(c, "idle")
    /\ slots_free' = 0 /\ slots_used' = 0 /\ first_get' = 0 /\ end' = 0   \* dead until begin
    /\ UNCHANGED <<hwVars, max_val, pb, running, todo, waitVars, work, fired,
                   late, timedout, lost>>

-----------------------------------------------------------------------------
(* slips: one of the two events is forgotten *)
Signal_EmptyOnly(n) == n = Len(queue) /\ event = "empty"
Signal_SpaceOnly(n) == n > 0 /\ event = "space"

(* whether popping n jobs is what the waiter waits for *)
Signal(n) ==
    \/ n > 0 /\ event = "space"
    \/ n = Len(queue) /\ event = "empty"

(* update_cdma_locked.  The expiry test reads the min shadow, which may lag *)
(* behind the register, so any number n of the finished jobs is seen.       *)
Update(n) ==
    /\ LockFree /\ running
    /\ n <= Finished
    /\ queue' = SubSeq(queue, n + 1, Len(queue))
    /\ pb' = PopJobs(n)
    /\ LET t == IF n > 0 THEN StopTimer(Timeout) ELSE Timeout
       IN  SetTimer(IF queue' # <<>> /\ Head(queue').timeout
                    THEN StartTimer(t, Head(queue')) ELSE t)
    /\ IF Signal(n)
       THEN event' = "none" /\ sem' = sem + 1
       ELSE UNCHANGED waitVars
    /\ UNCHANGED <<hwVars, max_val, last_put, running, submitVars, work, fired,
                   late, timedout, lost, pc>>

-----------------------------------------------------------------------------
(* cdma_stop *)

(* the last client closes the channel: it waits for an empty queue, ... *)
Closing(c) == pc[c] = "stop_retry" \/ \A d \in Clients : pc[d] = "idle"

StopWait(c) ==
    /\ Closing(c) /\ LockFree
    /\ running /\ queue # <<>>
    /\ event = "none" \/ pc[c] = "idle"
    /\ WaitLocked(c, "empty", "stop_retry", "stop_down")
    /\ UNCHANGED <<hwVars, max_val, pb, last_put, queue, running, submitVars, sem,
                   timeoutVars>>

(* ... stops the DMA, and deinit and the init of the next open follow *)
Close(c) ==
    /\ Closing(c) /\ LockFree
    /\ ~running \/ queue = <<>>
    /\ running' = FALSE
    /\ pb' = push_buffer_init("noop")
    /\ event' = "none" /\ sem' = 0
    /\ timer' = FALSE
    /\ Goto(c, "idle")
    /\ UNCHANGED <<hwVars, max_val, last_put, queue, submitVars, tclient, tval,
                   work, fired, late, timedout, lost>>

(* nvhost_channel_suspend, which first waits for an idle module: the queue *)
(* is empty, and the ring keeps its position                               *)
Suspend ==
    /\ \A d \in Clients : pc[d] = "idle"
    /\ LockFree /\ running /\ queue = <<>>
    /\ running' = FALSE
    /\ UNCHANGED <<hwVars, max_val, pb, last_put, queue, submitVars, waitVars,
                   timeoutVars, pc>>

(* a client whose context timed out closes its file and opens another *)
Reopen(c) ==
    /\ c \in timedout /\ pc[c] = "idle"
    /\ \A i \in 1 .. Len(queue) : queue[i].clientid # c
    /\ timedout' = timedout \ {c}
    /\ UNCHANGED <<hwVars, max_val, pb, last_put, queue, running, submitVars,
                   waitVars, timer, tclient, tval, work, fired, late, lost, pc>>

-----------------------------------------------------------------------------
(* The hardware *)

(* The DMA engine fetches the slot at DMAGET.  What it fetches from a      *)
(* meaningless address is left out.                                        *)
DmaFetch ==
    /\ running /\ ~lost /\ get # last_put
    /\ get' = Ahead(get, 1)
    /\ \/ pb.op[get] = "noop" /\ UNCHANGED pipe
       \/ pb.op[get] = "incr" /\ pipe < PipeDepth /\ pipe' = pipe + 1
    /\ UNCHANGED <<hw, max_val, pb, last_put, queue, running, submitVars, waitVars,
                   timeoutVars, pc>>

(* the module executes a fetched increment; a hung module never does.      *)
(* While the handler stops the command processor, work that the module     *)
(* already has may still finish.                                           *)
EngineIncr ==
    /\ pipe > 0
    /\ IF work = "stopping" THEN late < MaxLate /\ late' = late + 1 ELSE UNCHANGED late
    /\ pipe' = pipe - 1
    /\ hw' = Add(hw, 1)
    /\ UNCHANGED <<get, max_val, pb, last_put, queue, running, submitVars, waitVars,
                   timer, tclient, tval, work, fired, timedout, lost, pc>>

-----------------------------------------------------------------------------
(* The timeout work *)

(* the timer expires and the work waits for cdma->lock *)
TimerFire ==
    /\ timer /\ work = "idle"
    /\ timer' = FALSE /\ work' = "blocked" /\ fired' = tval
    /\ UNCHANGED <<hwVars, max_val, pb, last_put, queue, running, submitVars,
                   waitVars, tclient, tval, late, timedout, lost, pc>>

(* "has buffer actually completed?" *)
Completed == S32(Sub(hw, tval)) >= 0

(* cdma_timeout_handler: nothing to time out *)
HandlerReturns ==
    /\ work = "blocked" /\ LockFree
    /\ tclient = None \/ Completed
    /\ work' = "idle" /\ fired' = 0
    /\ UNCHANGED <<hwVars, max_val, pb, last_put, queue, running, submitVars,
                   waitVars, timer, tclient, tval, late, timedout, lost, pc>>

(* cdma_timeout_handler: the buffer is late, the channel is stopped *)
HandlerStops ==
    /\ work = "blocked" /\ LockFree
    /\ tclient # None /\ ~Completed
    /\ work' = "stopping"
    /\ UNCHANGED <<hwVars, max_val, pb, last_put, queue, running, submitVars,
                   waitVars, timer, tclient, tval, fired, late, timedout, lost, pc>>

(* The jobs that update_sync_queue passes over, by an unsigned comparison *)
Skipped == PrefixLen({i \in DOMAIN queue : ~(hw < queue[i].syncpt_end)})
Rest == SubSeq(queue, Skipped + 1, Len(queue))

(* a slip: the queued jobs of every client are cancelled *)
SameClient_Any(j) == TRUE

SameClient(j) == j.clientid = tclient

(* the leading jobs of the timed out client: completed by CPU increments *)
Cancelled == PrefixLen({i \in DOMAIN Rest : SameClient(Rest[i])})

(* the first slot after from that is not a NOOP, or cur *)
FirstLive(op, from) ==
    CHOOSE k \in Slots :
        /\ Gap(from, k) <= Gap(from, pb.cur)
        /\ k = pb.cur \/ op[k] # "noop"
        /\ \A j \in Slots : Gap(from, j) < Gap(from, k) => op[j] = "noop"

(* channel and module are reset: what was fetched and not executed is gone *)
cdma_timeout_teardown_begin == pipe' = 0

(* the DMA restarts at from, up to everything pushed so far *)
cdma_timeout_restart(op, from) ==
    /\ last_put' = pb.cur
    /\ get' = IF PromptFetch THEN FirstLive(op, from) ELSE from

(* timeout_teardown_begin, nvhost_cdma_update_sync_queue and teardown_end. *)
(* When every job is passed over, the restart position is read through the *)
(* list head, and the channel is lost.                                     *)
Teardown ==
    /\ work = "stopping"
    /\ work' = "idle" /\ fired' = 0 /\ late' = 0
    /\ cdma_timeout_teardown_begin
    /\ lost' = (Rest = <<>>)
    /\ timedout' = IF HasCtx THEN timedout \cup {tclient} ELSE timedout
    /\ IF Rest = <<>>
       THEN last_put' = pb.cur /\ get' \in Slots /\ UNCHANGED <<hw, pb, queue>>
       ELSE LET n == Cancelled
                done == {Skipped + i : i \in 1 .. n}
                noops == UNION {SlotsFrom(queue[i].first_get, queue[i].num_slots) : i \in done}
                op == [i \in Slots |-> IF i \in noops THEN "noop" ELSE pb.op[i]]
            IN  /\ hw' = IF n = 0 THEN hw ELSE Rest[n].syncpt_end
                /\ pb' = [pb EXCEPT !.op = op]
                /\ queue' = [i \in DOMAIN queue |-> [queue[i] EXCEPT !.timeout = @ /\ i \notin done]]
                /\ cdma_timeout_restart(op, Rest[1].first_get)
    /\ UNCHANGED <<max_val, running, submitVars, waitVars, timer, tclient, tval, pc>>

-----------------------------------------------------------------------------
ClientStep(c) ==
    \/ Submit(c) \/ Flush(c) \/ FlushTimeout(c) \/ Down(c)
    \/ \E n \in 1 .. MaxSlots : Begin(c, n)
    \/ Push(c) \/ PushFull(c) \/ PushRetry(c) \/ End(c)
    \/ StopWait(c) \/ Close(c) \/ Reopen(c)

Next ==
    \/ \E c \in Clients : ClientStep(c)
    \/ \E n \in 0 .. Len(queue) : Update(n)
    \/ Suspend
    \/ DmaFetch \/ EngineIncr
    \/ TimerFire \/ HandlerReturns \/ HandlerStops \/ Teardown

Spec == Init /\ [][Next]_vars

(* Fairness: a runnable thread runs, a contended mutex is granted, timers  *)
(* fire, and every finished job's submit-complete interrupt leads to an    *)
(* update.  Nothing is assumed of the module: it may hang at any point.    *)
Fairness ==
    /\ \A c \in Clients :
        /\ WF_vars(Push(c) \/ PushFull(c) \/ End(c))
        /\ SF_vars(PushRetry(c) \/ Down(c) \/ (pc[c] = "stop_retry" /\ (StopWait(c) \/ Close(c))))
    /\ SF_vars(Update(Finished))
    /\ SF_vars(TimerFire \/ HandlerReturns \/ HandlerStops \/ Teardown)

FairSpec == Spec /\ Fairness

-----------------------------------------------------------------------------
(* Properties *)

(* slot i has been pushed and not yet fetched *)
Unfetched(i) == Gap(get, i) < Gap(get, pb.cur)

(* slot i belongs to no job *)
Free(i) == Gap(pb.cur, i) <= Gap(pb.cur, pb.fence)

(* first slot after the first n queued jobs *)
After(n) == IF n = 0 THEN Ahead(pb.fence, 1)
            ELSE Ahead(queue[n].first_get, queue[n].num_slots)

(* BUG_ON(cur == pb->fence) in push_buffer_push_to cannot fire: the number *)
(* of free slots remembered between two pushes of a submit is never more   *)
(* than the ring has, although the lock is dropped in waits and updates    *)
(* and teardowns run in between.                                           *)
PushNeverFull == slots_free <= push_buffer_space(pb)

(* The sync queue accounts for every occupied slot: the queued jobs and    *)
(* the submit in progress tile the ring from fence to cur without a gap,   *)
(* so that popping num_slots per finished job frees that job's own slots.  *)
RingHoldsQueue ==
    /\ \A i \in 1 .. Len(queue) : queue[i].first_get = After(i - 1)
    /\ IF Submitting
       THEN first_get = After(Len(queue)) /\ pb.cur = Ahead(first_get, slots_used)
       ELSE pb.cur = After(Len(queue))

(* Every promised increment is performed exactly once, also across a       *)
(* timeout: what is missing from the counter is in the module's pipe, in   *)
(* the ring ahead of DMAGET or not yet pushed.  A replay that repeated or  *)
(* dropped an increment would leave every later fence wrong for good.      *)
CountConserved ==
    running /\ ~lost =>
        Sub(max_val, hw) =
            pipe + Cardinality({i \in Slots : Unfetched(i) /\ pb.op[i] = "incr"}) + todo

(* The DMA engine never reads a slot that was given back: DMAGET stays     *)
(* between the oldest slot in use and cur, whatever is popped or restarted. *)
DmaInsideRing ==
    running /\ ~lost =>
        Gap(Ahead(pb.fence, 1), get) <= Gap(Ahead(pb.fence, 1), pb.cur)

(* The handle table follows the ring: every slot of an unfinished job has  *)
(* its memory handle for the debug dump, and of the slots given back only  *)
(* the fence itself may still have one, because push_buffer_pop_from       *)
(* clears from the fence on and the popped slots start one later.          *)
HandlesFollowRing ==
    \A i \in Slots : IF Free(i) THEN pb.handle[i] => i = pb.fence ELSE pb.handle[i]

(* No wakeup is lost and none piles up: for every thread asleep on         *)
(* cdma->sem there is a signal, given or owed by the pending event, and    *)
(* there is at most one more, left behind by a flush that gave up.         *)
WakeupsBalance ==
    LET signals == sem + (IF event = "none" THEN 0 ELSE 1)
    IN  /\ Cardinality(Asleep) <= signals
        /\ signals <= Cardinality(Asleep) + 1

(* The submit timer watches the queue's head: while a timer is pending or  *)
(* its handler is stopping the channel, the value it watches is the fence  *)
(* of a queued job of the client it would punish.                          *)
TimerWatchesQueue ==
    timer \/ work = "stopping" =>
        \E i \in 1 .. Len(queue) :
            queue[i].clientid = tclient /\ queue[i].syncpt_end = tval

(* The channel is a queue of jobs (JobQueue): whatever the ring, the timer, *)
(* the waits and the replay do, jobs leave the sync queue in the order they *)
(* were submitted and only once the counter is at their fence, the counter  *)
(* never passes what was promised, and a timeout moves it only over jobs    *)
(* of the one client it punishes.                                           *)
Fifo == INSTANCE JobQueue WITH
            counter <- hw, promised <- max_val, killed <- timedout, Marks <- HasCtx,
            jobs <- [i \in DOMAIN queue |-> [fence |-> queue[i].syncpt_end,
                                             owner |-> queue[i].clientid]]
IsJobQueue == Fifo!Spec

(* "Move the sync_queue read pointer to the first entry that hasn't        *)
(* completed": an entry passed over by update_sync_queue has completed.    *)
SkipsOnlyCompleted ==
    work = "stopping" =>
        \A i \in 1 .. Skipped : S32(Sub(hw, queue[i].syncpt_end)) >= 0

(* "save in get_restart the location where the timed out buffer started":  *)
(* update_sync_queue finds a buffer to restart from.                       *)
RestartFindsJob == work = "stopping" => Rest # <<>>

(* "If this timeout fires, it indicates the current sync_queue entry has   *)
(* exceeded its TTL": the entry torn down is the one the timer was set for. *)
TimeoutNeedsTTL == work = "stopping" => fired = tval

(* A submit that waits for space gets it, even if the module hangs: the    *)
(* jobs ahead of it finish or are timed out, and their slots come back.    *)
SubmitFinishes ==
    \A c \in Clients : (pc[c] \in SubmitPcs) ~> (pc[c] = "idle")

(* Closing the channel returns, even if the module hangs. *)
StopReturns ==
    \A c \in Clients : (pc[c] \in StopPcs) ~> (pc[c] = "idle")

================================================================================
