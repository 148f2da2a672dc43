---------------------------------- MODULE Intr ----------------------------------
(***************************************************************************)
(* Sync point threshold interrupts (nvhost_intr.c, host1x/host1x_intr.c):  *)
(* one sync point's sorted wait list, the reference counted waiters on it, *)
(* the threshold interrupt with its hard and threaded handlers, and the    *)
(* callers that add waiters, give up on them and stop the interrupts.      *)
(*                                                                         *)
(* Waiters are the heap objects.  A SUBMIT_COMPLETE waiter belongs to the  *)
(* list alone; a wake-up waiter is shared with the thread sleeping in      *)
(* nvhost_syncpt_wait_timeout, whose program counter is pc[w].  The        *)
(* spinlock's critical sections are single steps: nothing but the hard     *)
(* handler's register write and other waiters' cmpxchg can fall into them. *)
(***************************************************************************)
EXTENDS U32, Sequences, SequencesExt, FiniteSetsExt

CONSTANTS SubmitWaiters,  \* waiters with NVHOST_INTR_ACTION_SUBMIT_COMPLETE
          WakeWaiters,    \* waiters with NVHOST_INTR_ACTION_WAKEUP[_INTERRUPTIBLE]
          Channel,        \* waiter->data of each submit waiter
          Irq,            \* the threaded interrupt handler
          PromptIrq,      \* interrupts are served within the clock gating delay
          ClientManaged,  \* the point is incremented by CPU increments only
          MaxIncrs,       \* bound on the increments of one submit
          MaxAhead,       \* bound on how far ahead of a client managed point one waits
          MaxLeaks        \* bound on submits whose request_irq fails

Waiters == SubmitWaiters \cup WakeWaiters
Procs == Waiters \cup {Irq}       \* who may run process_wait_list

Off == -1                         \* the threshold interrupt is disabled

ASSUME IntrAssumption ==
    /\ IsFiniteSet(SubmitWaiters) /\ IsFiniteSet(WakeWaiters)
    /\ SubmitWaiters \cap WakeWaiters = {}
    /\ Irq \notin Waiters
    /\ ClientManaged \in BOOLEAN /\ PromptIrq \in BOOLEAN
    /\ MaxIncrs \in Nat /\ MaxAhead \in Nat /\ MaxLeaks \in Nat

(* enum waitlist_state; OVERRUN is what incrementing WLS_HANDLED yields *)
PENDING == 0
REMOVED == 1
CANCELLED == 2
HANDLED == 3
OVERRUN == 4

VARIABLES hw, max_val,              \* the counter and its promised value
          waiter,                   \* struct nvhost_waitlist of each waiter
          wait_head,                \* syncpt->wait_head
          irq_requested,            \* syncpt->irq_requested
          armed,                    \* threshold register while enabled, else Off
          isr,                      \* the hard handler has been entered
          thread_woken,             \* IRQ_WAKE_THREAD, not yet acted on
          pc,                       \* where each process is
          sync,                     \* threshold argument of process_wait_list
          completed,                \* its completed[] lists, in handling order
          busy,                     \* host module references
          leaks,                    \* references whose waiter could not be added
          stop,                     \* phase of nvhost_intr_stop / host clock
          doomed                    \* waiters stop has marked HANDLED, not yet unlinked

hvars == <<armed, isr, thread_woken>>
pvars == <<pc, sync, completed>>
vars == <<hw, max_val, waiter, wait_head, irq_requested, hvars, pvars, busy,
          leaks, stop, doomed>>

(* A waiter's memory; refcount 0 means it is not allocated *)
WaitlistStruct == [refcount : 0 .. 2, state : PENDING .. OVERRUN,
                   thresh : Word, count : 1 .. Cardinality(SubmitWaiters) + 1]
Freed == [refcount |-> 0, state |-> PENDING, thresh |-> 0, count |-> 1]

(* kref_put(&waiter->refcount, waiter_release) *)
KrefPut(x) == IF x.refcount = 1 THEN Freed ELSE [x EXCEPT !.refcount = @ - 1]

Thresh(w) == waiter[w].thresh
State(w) == waiter[w].state

Used(w) == waiter[w].refcount > 0
Linked(w) == w \in Range(wait_head)
InCompleted(p, w) == w \in Range(completed[p])

(* Words the driver holds, all less than Half behind the furthest value *)
Top == IF ClientManaged THEN Add(hw, MaxAhead) ELSE max_val
HeldWords == {Thresh(w) : w \in {x \in Waiters : Used(x)}}
             \cup {sync[p] : p \in {q \in Procs : pc[q] = "lock"}}
             \cup ({armed} \ {Off})
             \cup {hw}
WindowOpen(n) == \A v \in HeldWords : Sub(Top, v) + n < Half

TypeOK ==
    /\ hw \in Word /\ max_val \in Word
    /\ waiter \in [Waiters -> WaitlistStruct]
    /\ wait_head \in Seq(Waiters) /\ IsInjective(wait_head)
    /\ irq_requested \in BOOLEAN
    /\ armed \in Word \cup {Off} /\ isr \in BOOLEAN /\ thread_woken \in BOOLEAN
    /\ pc \in [Procs -> {"idle", "add", "request", "relock", "wait", "cancel",
                         "read", "lock", "run", "xchg", "put", "drop"}]
    /\ sync \in [Procs -> Word]
    /\ completed \in [Procs -> Seq(Waiters)]
    /\ busy \in Nat /\ leaks \in 0 .. MaxLeaks
    /\ stop \in {"on", "walk", "free", "off"}
    /\ doomed \subseteq Waiters

Init ==
    \E v \in Word :
        /\ hw = v /\ max_val = v
        /\ waiter = [w \in Waiters |-> Freed]
        /\ wait_head = << >>
        /\ irq_requested = FALSE
        /\ armed = Off /\ isr = FALSE /\ thread_woken = FALSE
        /\ pc = [p \in Procs |-> "idle"]
        /\ sync = [p \in Procs |-> 0]
        /\ completed = [p \in Procs |-> << >>]
        /\ busy = 0 /\ leaks = 0
        /\ stop = "on" /\ doomed = {}

-----------------------------------------------------------------------------
(* Helpers shared by the actions *)

Goto(p, l) == pc' = [pc EXCEPT ![p] = l]

(* nvhost_module_busy on the host: stop holds the device lock while it     *)
(* runs, and a clock that was off is started (nvhost_intr_start, whose     *)
(* init_host_sync disables every threshold interrupt).                     *)
ModuleBusy(n) ==
    /\ stop \in {"on", "off"}
    /\ stop' = "on"
    /\ busy' = busy + n
    /\ armed' = IF stop = "on" THEN armed ELSE Off

(* kzalloc and the initialisation at the top of nvhost_intr_add_action *)
NewWaiter(w, th, refs) ==
    /\ ~Used(w) /\ pc[w] = "idle"
    /\ waiter' = [waiter EXCEPT ![w] = [refcount |-> refs, state |-> PENDING,
                                        thresh |-> th, count |-> 1]]

(* add_waiter_to_queue: after the last waiter whose threshold is not later *)
InsertPos(w) ==
    LET notLater == {i \in DOMAIN wait_head :
                        S32(Sub(Thresh(wait_head[i]), Thresh(w))) <= 0}
    IN  1 + Max({0} \cup notLater)

(* a list without the members that are not in S *)
Kept(s, S) ==
    LET kept[i \in 0 .. Len(s)] ==
            IF i = 0 THEN << >>
            ELSE IF s[i] \in S THEN Append(kept[i - 1], s[i]) ELSE kept[i - 1]
    IN  kept[Len(s)]

(* nvhost_syncpt_is_expired with a fresh shadow *)
Expired(th) == IF ClientManaged THEN S32(Sub(hw, th)) >= 0
                                ELSE Sub(max_val, th) >= Sub(hw, th)

Reached(v, th) == S32(Sub(th, v)) <= 0

-----------------------------------------------------------------------------
(* nvhost_intr_add_action and its callers *)

(* a slip: no kref_get for the caller's reference *)
WaitTimeout_NoGet(w, th) ==
    /\ w \in WakeWaiters
    /\ ~Expired(th)
    /\ ClientManaged => Sub(th, hw) <= MaxAhead
    /\ NewWaiter(w, th, 1)
    /\ ModuleBusy(1)
    /\ Goto(w, "add")
    /\ UNCHANGED <<hw, max_val, wait_head, irq_requested, isr, thread_woken,
                   sync, completed, leaks, doomed>>

(* nvhost_syncpt_wait_timeout up to add_action, for a value not yet there  *)
WaitTimeout(w, th) ==
    /\ w \in WakeWaiters
    /\ ~Expired(th)
    /\ ClientManaged => Sub(th, hw) <= MaxAhead
    /\ NewWaiter(w, th, 2)
    /\ ModuleBusy(1)
    /\ Goto(w, "add")
    /\ UNCHANGED <<hw, max_val, wait_head, irq_requested, isr,
                   thread_woken, sync, completed, leaks, doomed>>

(* host1x_channel_submit: busy, incr_max and kick precede add_action *)
ChannelSubmit(w, n) ==
    /\ w \in SubmitWaiters
    /\ ~ClientManaged
    /\ WindowOpen(n)
    /\ max_val' = Add(max_val, n)
    /\ NewWaiter(w, max_val', 1)
    /\ ModuleBusy(1)
    /\ Goto(w, "add")
    /\ UNCHANGED <<hw, wait_head, irq_requested, isr, thread_woken,
                   sync, completed, leaks, doomed>>

(* a slip: only the first waiter sets the threshold *)
Enqueue_KeepThreshold(w) ==
    /\ wait_head' = InsertAt(wait_head, InsertPos(w), w)
    /\ armed' = IF wait_head = << >> THEN Thresh(w) ELSE armed
    /\ Goto(w, IF w \in WakeWaiters THEN "wait" ELSE "idle")
    /\ UNCHANGED <<hw, max_val, waiter, irq_requested, isr, thread_woken, sync,
                   completed, busy, leaks, stop, doomed>>

(* under syncpt->lock: queue the waiter; a new head sets the threshold,    *)
(* and the first one enables the interrupt                                 *)
Enqueue(w) ==
    LET pos == InsertPos(w) IN
    /\ wait_head' = InsertAt(wait_head, pos, w)
    /\ armed' = IF wait_head = << >> \/ (pos = 1 /\ armed # Off)
                THEN Thresh(w) ELSE armed
    /\ Goto(w, IF w \in WakeWaiters THEN "wait" ELSE "idle")
    /\ UNCHANGED <<hw, max_val, waiter, irq_requested, isr, thread_woken, sync,
                   completed, busy, leaks, stop, doomed>>

AddAction(w) ==
    /\ pc[w] = "add" /\ irq_requested
    /\ Enqueue(w)

(* no interrupt yet: the spinlock is dropped around the request *)
AddActionNoIrq(w) ==
    /\ pc[w] = "add" /\ ~irq_requested
    /\ Goto(w, "request")
    /\ UNCHANGED <<hw, max_val, waiter, wait_head, irq_requested, hvars, sync,
                   completed, busy, leaks, stop, doomed>>

(* t20_request_syncpt_irq; somebody else may have come first *)
RequestIrq(w) ==
    /\ pc[w] = "request"
    /\ irq_requested' = TRUE
    /\ Goto(w, "relock")
    /\ UNCHANGED <<hw, max_val, waiter, wait_head, hvars, sync, completed, busy,
                   leaks, stop, doomed>>

(* it fails: kfree(waiter).  A waiting thread drops its host reference; a  *)
(* submit only warns, and nobody will drop the job's.                      *)
RequestIrqFails(w) ==
    /\ pc[w] = "request" /\ ~irq_requested
    /\ waiter' = [waiter EXCEPT ![w] = Freed]
    /\ Goto(w, "idle")
    /\ IF w \in WakeWaiters
       THEN busy' = busy - 1 /\ leaks' = leaks
       ELSE busy' = busy /\ leaks < MaxLeaks /\ leaks' = leaks + 1
    /\ UNCHANGED <<hw, max_val, wait_head, irq_requested,
                   hvars, sync, completed, stop, doomed>>

AddActionRelock(w) ==
    /\ pc[w] = "relock"
    /\ Enqueue(w)

-----------------------------------------------------------------------------
(* nvhost_intr_put_ref *)

(* the sleeping thread leaves its loop: value reached, timeout or signal *)
WaitOver(w) ==
    /\ pc[w] = "wait"
    /\ Goto(w, "cancel")
    /\ UNCHANGED <<hw, max_val, waiter, wait_head, irq_requested, hvars, sync,
                   completed, busy, leaks, stop, doomed>>

(* slips: put_ref does not wait for a handler that is running, ... *)
Cancel_NoSpin(w) ==
    /\ pc[w] = "cancel"
    /\ waiter' = [waiter EXCEPT ![w].state = IF @ = PENDING THEN CANCELLED ELSE @]
    /\ Goto(w, "read")
    /\ UNCHANGED <<hw, max_val, wait_head, irq_requested, hvars, sync, completed,
                   busy, leaks, stop, doomed>>

(* ... leaves the waiter pending, ... *)
Cancel_NoMark(w) ==
    /\ pc[w] = "cancel"
    /\ State(w) # REMOVED
    /\ Goto(w, "read")
    /\ UNCHANGED <<hw, max_val, waiter, wait_head, irq_requested, hvars, sync,
                   completed, busy, leaks, stop, doomed>>

(* ... or marks it handled although it stays on the list *)
Cancel_AsHandled(w) ==
    /\ pc[w] = "cancel"
    /\ State(w) # REMOVED
    /\ waiter' = [waiter EXCEPT ![w].state = HANDLED]
    /\ Goto(w, "read")
    /\ UNCHANGED <<hw, max_val, wait_head, irq_requested, hvars, sync, completed,
                   busy, leaks, stop, doomed>>

(* cmpxchg(PENDING, CANCELLED), repeated while the waiter is REMOVED *)
Cancel(w) ==
    /\ pc[w] = "cancel"
    /\ State(w) # REMOVED
    /\ waiter' = [waiter EXCEPT ![w].state = IF @ = PENDING THEN CANCELLED ELSE @]
    /\ Goto(w, "read")
    /\ UNCHANGED <<hw, max_val, wait_head, irq_requested,
                   hvars, sync, completed, busy, leaks, stop, doomed>>

(* the final kref_put, and nvhost_module_idle in wait_timeout *)
DropRef(w) ==
    /\ pc[w] = "drop"
    /\ waiter' = [waiter EXCEPT ![w] = KrefPut(@)]
    /\ busy' = busy - 1
    /\ Goto(w, "idle")
    /\ UNCHANGED <<hw, max_val, wait_head, irq_requested,
                   hvars, sync, completed, leaks, stop, doomed>>

-----------------------------------------------------------------------------
(* process_wait_list(intr, syncpt, nvhost_syncpt_update_min(...)) *)

(* the value is read before the lock is taken *)
ReadSync(p) ==
    /\ pc[p] = "read"
    /\ sync' = [sync EXCEPT ![p] = hw]
    /\ Goto(p, "lock")
    /\ UNCHANGED <<hw, max_val, waiter, wait_head, irq_requested, hvars,
                   completed, busy, leaks, stop, doomed>>

(* the waiters before the first one that has not been reached *)
DonePrefix(p) ==
    LET isDone(i) == \A j \in 1 .. i : Reached(sync[p], Thresh(wait_head[j]))
    IN  SubSeq(wait_head, 1, Cardinality({i \in DOMAIN wait_head : isDone(i)}))

(* "consolidate submit cleanups": the submit waiter before it in done is   *)
(* for the same channel                                                    *)
Merged(done, i) ==
    /\ done[i] \in SubmitWaiters
    /\ \E j \in 1 .. i - 1 :
          /\ done[j] \in SubmitWaiters
          /\ Channel[done[j]] = Channel[done[i]]
          /\ \A k \in j + 1 .. i - 1 : done[k] \notin SubmitWaiters

(* how many waiters directly after done[i] are merged into it *)
Followers(done, i) ==
    Cardinality({k \in i + 1 .. Len(done) :
        /\ Merged(done, k)
        /\ \A j \in i + 1 .. k : done[j] \in SubmitWaiters => Merged(done, j)})

(* remove_completed_waiters, then disable or re-arm the interrupt *)
ProcessWaitList(p) ==
    /\ pc[p] = "lock"
    /\ LET done == DonePrefix(p)
           rest == SubSeq(wait_head, Len(done) + 1, Len(wait_head))
           merged == {done[i] : i \in {k \in DOMAIN done : Merged(done, k)}}
           dropped == {w \in Range(done) : State(w) + 1 = HANDLED} \cup merged
           keptBy(S) == Kept(done, S \ dropped)
           jobs(w) == IF w \in SubmitWaiters
                      THEN Followers(done, CHOOSE i \in DOMAIN done : done[i] = w)
                      ELSE 0
       IN  /\ waiter' = [w \in Waiters |->
                  IF w \in dropped THEN KrefPut([waiter[w] EXCEPT !.state = @ + 1])
                  ELSE IF w \in Range(done)
                  THEN [waiter[w] EXCEPT !.state = @ + 1, !.count = @ + jobs(w)]
                  ELSE waiter[w]]
           /\ completed' = [completed EXCEPT
                               ![p] = keptBy(SubmitWaiters) \o keptBy(WakeWaiters)]
           /\ wait_head' = rest
           /\ armed' = IF rest = << >> THEN Off ELSE Thresh(Head(rest))
    /\ sync' = [sync EXCEPT ![p] = 0]
    /\ Goto(p, "run")
    /\ UNCHANGED <<hw, max_val, irq_requested, isr, thread_woken, busy, leaks,
                   stop, doomed>>

(* a slip: one reference per waiter, whatever was merged into it *)
RunHandler_OneRef(p) ==
    /\ pc[p] = "run" /\ completed[p] # << >>
    /\ busy' = IF Head(completed[p]) \in SubmitWaiters THEN busy - 1 ELSE busy
    /\ Goto(p, "xchg")
    /\ UNCHANGED <<hw, max_val, waiter, wait_head, irq_requested, hvars, sync,
                   completed, leaks, stop, doomed>>

(* run_handlers, outside the lock.  action_submit_complete drops as many   *)
(* module references as jobs were merged; the wake-ups touch the wait      *)
(* queue on the sleeping thread's stack.                                   *)
RunHandler(p) ==
    /\ pc[p] = "run" /\ completed[p] # << >>
    /\ LET w == Head(completed[p])
       IN  busy' = IF w \in SubmitWaiters THEN busy - waiter[w].count ELSE busy
    /\ Goto(p, "xchg")
    /\ UNCHANGED <<hw, max_val, waiter, wait_head, irq_requested, hvars, sync,
                   completed, leaks, stop, doomed>>

(* a slip: the waiter's state is not advanced after its handler *)
MarkHandled_Forgotten(p) ==
    /\ pc[p] = "xchg"
    /\ Goto(p, "put")
    /\ UNCHANGED <<hw, max_val, waiter, wait_head, irq_requested, hvars, sync,
                   completed, busy, leaks, stop, doomed>>

(* WARN_ON(atomic_xchg(&waiter->state, WLS_HANDLED) != WLS_REMOVED) *)
MarkHandled(p) ==
    /\ pc[p] = "xchg"
    /\ waiter' = [waiter EXCEPT ![Head(completed[p])].state = HANDLED]
    /\ Goto(p, "put")
    /\ UNCHANGED <<hw, max_val, wait_head, irq_requested,
                   hvars, sync, completed, busy, leaks, stop, doomed>>

PutHandled(p) ==
    /\ pc[p] = "put"
    /\ waiter' = [waiter EXCEPT ![Head(completed[p])] = KrefPut(@)]
    /\ completed' = [completed EXCEPT ![p] = Tail(@)]
    /\ Goto(p, "run")
    /\ UNCHANGED <<hw, max_val, wait_head, irq_requested,
                   hvars, sync, busy, leaks, stop, doomed>>

HandlersDone(p) ==
    /\ pc[p] = "run" /\ completed[p] = << >>
    /\ Goto(p, IF p = Irq THEN "idle" ELSE "drop")
    /\ UNCHANGED <<hw, max_val, waiter, wait_head, irq_requested, hvars, sync,
                   completed, busy, leaks, stop, doomed>>

-----------------------------------------------------------------------------
(* The interrupt *)

(* the comparator is level sensitive: enabled and reached *)
InterruptRaised ==
    /\ irq_requested /\ armed # Off /\ ~isr
    /\ Reached(hw, armed)
    /\ isr' = TRUE
    /\ UNCHANGED <<hw, max_val, waiter, wait_head, irq_requested, armed,
                   thread_woken, pvars, busy, leaks, stop, doomed>>

(* t20_intr_syncpt_thresh_isr: disable, clear, IRQ_WAKE_THREAD *)
ThreshIsr ==
    /\ isr
    /\ isr' = FALSE
    /\ armed' = Off
    /\ thread_woken' = TRUE
    /\ UNCHANGED <<hw, max_val, waiter, wait_head, irq_requested, pvars, busy, leaks, stop, doomed>>

(* nvhost_syncpt_thresh_fn starts *)
ThreshFn ==
    /\ thread_woken /\ pc[Irq] = "idle"
    /\ thread_woken' = FALSE
    /\ Goto(Irq, "read")
    /\ UNCHANGED <<hw, max_val, waiter, wait_head, irq_requested, armed, isr,
                   sync, completed, busy, leaks, stop, doomed>>

-----------------------------------------------------------------------------
(* The counter *)

(* an engine performs a promised increment *)
EngineIncr ==
    /\ ~ClientManaged /\ stop = "on"
    /\ hw # max_val
    /\ hw' = Add(hw, 1)
    /\ UNCHANGED <<max_val, waiter, wait_head, irq_requested, hvars, pvars, busy,
                   leaks, stop, doomed>>

(* nvhost_syncpt_incr: incr_max, busy, cpu_incr, idle *)
SyncptIncr ==
    /\ ClientManaged
    /\ WindowOpen(1)
    /\ max_val' = Add(max_val, 1)
    /\ ModuleBusy(0)
    /\ hw' = Add(hw, 1)
    /\ UNCHANGED <<waiter, wait_head, irq_requested, isr,
                   thread_woken, pvars, leaks, doomed>>

(* nvhost_syncpt_read: busy, update_min, idle - starts a stopped host *)
SyncptRead ==
    /\ stop = "off"
    /\ ModuleBusy(0)
    /\ UNCHANGED <<hw, max_val, waiter, wait_head, irq_requested, isr,
                   thread_woken, pvars, leaks, doomed>>

-----------------------------------------------------------------------------
(* nvhost_intr_stop, called with the host idle and its device lock held.   *)
(* It takes neither syncpt->lock nor waits for the thread before it walks  *)
(* the list.  Gating follows the last nvhost_module_idle by clockgate_delay,*)
(* and with PromptIrq an interrupt thread never takes longer than that.    *)

IrqQuiet == ~isr /\ ~thread_woken /\ pc[Irq] = "idle"
            /\ ~(armed # Off /\ Reached(hw, armed))

StopDisable ==
    /\ stop = "on" /\ busy = 0
    /\ PromptIrq => IrqQuiet
    /\ stop' = "walk"
    /\ armed' = Off
    /\ UNCHANGED <<hw, max_val, waiter, wait_head, irq_requested, isr,
                   thread_woken, pvars, busy, leaks, doomed>>

(* cmpxchg(CANCELLED, HANDLED) == CANCELLED *)
StopMark(w) ==
    /\ stop = "walk" /\ doomed = {}
    /\ Linked(w) /\ State(w) = CANCELLED
    /\ waiter' = [waiter EXCEPT ![w].state = HANDLED]
    /\ doomed' = {w}
    /\ UNCHANGED <<hw, max_val, wait_head, irq_requested,
                   hvars, pvars, busy, leaks, stop>>

(* list_del, from whichever list it is on by now, and kref_put *)
StopUnlink(w) ==
    /\ w \in doomed
    /\ doomed' = {}
    /\ wait_head' = Kept(wait_head, Waiters \ {w})
    /\ completed' = [p \in Procs |-> Kept(completed[p], Waiters \ {w})]
    /\ waiter' = [waiter EXCEPT ![w] = KrefPut(@)]
    /\ UNCHANGED <<hw, max_val, irq_requested, hvars, pc, sync, busy, leaks, stop>>

StopWalked == stop = "walk" /\ doomed = {}
              /\ \A w \in Range(wait_head) : State(w) # CANCELLED

(* BUG_ON(!list_empty) has passed *)
StopListEmpty ==
    /\ StopWalked /\ wait_head = << >>
    /\ stop' = "free"
    /\ UNCHANGED <<hw, max_val, waiter, wait_head, irq_requested, hvars, pvars,
                   busy, leaks, doomed>>

(* free_irq waits until both handlers are through; then the clock goes off *)
StopFreeIrq ==
    /\ stop = "free"
    /\ irq_requested => (~isr /\ ~thread_woken /\ pc[Irq] = "idle")
    /\ irq_requested' = FALSE
    /\ stop' = "off"
    /\ UNCHANGED <<hw, max_val, waiter, wait_head, hvars, pvars, busy, leaks,
                   doomed>>

-----------------------------------------------------------------------------
AddStep(w) ==
    \/ AddAction(w) \/ AddActionNoIrq(w) \/ AddActionRelock(w)
    \/ RequestIrq(w) \/ RequestIrqFails(w)

PutRefStep(w) == Cancel(w) \/ DropRef(w)

ProcessStep(p) ==
    \/ ReadSync(p) \/ ProcessWaitList(p)
    \/ RunHandler(p) \/ MarkHandled(p) \/ PutHandled(p) \/ HandlersDone(p)

StopStep ==
    \/ \E w \in Waiters : StopMark(w) \/ StopUnlink(w)
    \/ StopListEmpty \/ StopFreeIrq

Next ==
    \/ \E w \in Waiters, th \in Word : WaitTimeout(w, th)
    \/ \E w \in Waiters, n \in 1 .. MaxIncrs : ChannelSubmit(w, n)
    \/ \E w \in Waiters : AddStep(w) \/ WaitOver(w) \/ PutRefStep(w)
    \/ \E p \in Procs : ProcessStep(p)
    \/ InterruptRaised \/ ThreshIsr \/ ThreshFn
    \/ EngineIncr \/ SyncptIncr \/ SyncptRead
    \/ StopDisable \/ StopStep

Spec == Init /\ [][Next]_vars

(* Interrupts are delivered, the interrupt thread and threads inside the   *)
(* driver are scheduled, and clock gating work that has begun completes.   *)
(* Nothing is assumed of the engines, of callers or of when timeouts fire. *)
Fairness ==
    /\ WF_vars(InterruptRaised) /\ WF_vars(ThreshIsr) /\ WF_vars(ThreshFn)
    /\ \A w \in Waiters : WF_vars(AddStep(w)) /\ WF_vars(PutRefStep(w))
    /\ \A p \in Procs : WF_vars(ProcessStep(p))
    /\ WF_vars(StopStep)

FairSpec == Spec /\ Fairness

-----------------------------------------------------------------------------
(* Properties *)

Adding(w) == pc[w] \in {"add", "request", "relock"}

(* who holds a reference: the list (or the caller about to queue it, or    *)
(* the process handling it), and the thread in wait_timeout                *)
ListRefs(w) ==
    IF Adding(w) \/ Linked(w) \/ \E p \in Procs : InCompleted(p, w) THEN 1 ELSE 0
OwnerRefs(w) == IF w \in WakeWaiters /\ pc[w] # "idle" THEN 1 ELSE 0

(* Waiters are freed exactly when the last of the list, the interrupt      *)
(* thread, put_ref and stop has let go: no process reaches a freed waiter, *)
(* none is leaked, and no waiter is on two lists, whatever the order in    *)
(* which completion, cancellation and stop meet (kref_put in              *)
(* remove_completed_waiters, run_handlers, put_ref and intr_stop).         *)
RefsMatchHolders ==
    \A w \in Waiters :
        /\ waiter[w].refcount = ListRefs(w) + OwnerRefs(w)
        /\ Cardinality({p \in Procs : InCompleted(p, w)})
              + (IF Linked(w) THEN 1 ELSE 0) <= 1

(* action_wakeup touches waiter->data, a wait queue head on the stack of   *)
(* wait_timeout: it does so only while that function has not returned.     *)
WakeupFindsItsStack ==
    \A p \in Procs, w \in WakeWaiters :
        (pc[p] = "run" /\ InCompleted(p, w)) => pc[w] \in {"wait", "cancel"}

(* Each submit drops exactly one module reference, merged cleanups         *)
(* included: the host's reference count is the number of threads waiting,  *)
(* plus the jobs not yet cleaned up, plus those whose waiter was lost.     *)
PendingCleanups(p) ==
    LET todo == {i \in DOMAIN completed[p] :
                    completed[p][i] \in SubmitWaiters /\ ~(i = 1 /\ pc[p] # "run")}
    IN  MapThenSumSet(LAMBDA i : waiter[completed[p][i]].count, todo)

BusyMatchesWork ==
    busy = leaks
           + Cardinality({w \in WakeWaiters : pc[w] # "idle"})
           + Cardinality({w \in SubmitWaiters : Adding(w) \/ Linked(w)})
           + MapThenSumSet(PendingCleanups, Procs)

(* As long as somebody waits, the interrupt is set to the earliest         *)
(* threshold, or a handler that will set it is on its way - although the   *)
(* hard handler clears the enable bit without the lock, and process_wait_  *)
(* list decides on a value read before it.                                 *)
InterruptArmed ==
    (wait_head # << >> /\ stop = "on") =>
        \/ armed = Thresh(Head(wait_head))
        \/ isr \/ thread_woken \/ pc[Irq] \in {"read", "lock"}

(* BUG_ON(1) in nvhost_intr_stop: once the cancelled waiters are gone, an  *)
(* idle host has no waiter left.                                           *)
StopFindsNobody == StopWalked => wait_head = << >>

(* "PENDING->REMOVED or CANCELLED->HANDLED": completion never increments   *)
(* the state of a waiter that has already been handled.                    *)
StateStaysInRange == \A w \in Waiters : State(w) # OVERRUN

(* A waiter whose value is reached is taken off the list, by the interrupt *)
(* alone: no further call into the driver is needed.                       *)
ReachedIsServed ==
    \A w \in Waiters :
        (Linked(w) /\ Reached(hw, Thresh(w))) ~> ~Linked(w)

(* nvhost_intr_put_ref returns, though it spins on a waiter that is being  *)
(* handled elsewhere.                                                      *)
PutRefReturns == \A w \in WakeWaiters : pc[w] = "cancel" ~> pc[w] = "idle"

================================================================================
