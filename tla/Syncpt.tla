--------------------------------- MODULE Syncpt ---------------------------------
(***************************************************************************)
(* One host1x sync point: the hardware counter, its two software shadows   *)
(* min_val (last value read back) and max_val (value promised once all     *)
(* submitted work has run), and the threads that refresh, test and         *)
(* increment it (nvhost_syncpt.[ch], host1x/host1x_syncpt.c).              *)
(*                                                                         *)
(* update_min is lock free: it reads the shadow, reads the register and    *)
(* installs the register value by cmpxchg, and any number of threads do    *)
(* so at once.  Each of the three accesses is a step of its own here.      *)
(***************************************************************************)
EXTENDS U32, FiniteSets

CONSTANTS Threads,        \* kernel threads that call into the sync point code
          Jobs,           \* submitted jobs that may be in flight
          Incrementers,   \* threads that issue NVHOST_IOCTL_CTRL_SYNCPT_INCR
          ClientManaged,  \* nvhost_syncpt_client_managed(sp, id)
          MaxJobIncrs     \* bound on the increments of one job

ASSUME SyncptAssumption ==
    /\ Incrementers \subseteq Threads
    /\ ClientManaged \in BOOLEAN
    /\ MaxJobIncrs \in Nat

VARIABLES hw,        \* the counter register
          min_val,   \* sp->min_val[id]
          max_val,   \* sp->max_val[id]
          power,     \* "on" while the register holds its value
          pc,        \* where each thread is
          old, live, \* locals of t20_syncpt_update_min
          inflight,  \* jobs whose module_busy reference is still held
          fence      \* value of max_val each job was submitted with

vars == <<hw, min_val, max_val, power, pc, old, live, inflight, fence>>

UpdatePcs == {"readl", "cmpxchg", "return"}
IncrPcs == {"incr_check", "incr_write"}

(***************************************************************************)
(* The outstanding window: values that software still holds are less than  *)
(* Half increments behind.  No job stream, and no preempted thread, is 2^31*)
(* increments late.                                                        *)
(***************************************************************************)
Window(v, n) ==
    /\ Sub(v, min_val) + n < Half
    /\ \A t \in Threads : pc[t] \in UpdatePcs => Sub(v, old[t]) + n < Half

(* nobody holds a module_busy reference on the host *)
HostIdle == inflight = {} /\ \A t \in Threads : pc[t] = "idle"

min_eq_max == min_val = max_val

(* a slip: "clever" removal of -thresh from both sides *)
ExpiredAt_Clever(c, f, thresh) ==
    IF ClientManaged THEN S32(Sub(c, thresh)) >= 0 ELSE f >= c

(* nvhost_syncpt_is_expired for the shadow values c and f *)
ExpiredAt(c, f, thresh) ==
    IF ClientManaged
    THEN S32(Sub(c, thresh)) >= 0
    ELSE Sub(f, thresh) >= Sub(c, thresh)

is_expired(thresh) == ExpiredAt(min_val, max_val, thresh)

TypeOK ==
    /\ hw \in Word /\ min_val \in Word /\ max_val \in Word
    /\ power \in {"on", "off"}
    /\ pc \in [Threads -> {"idle"} \cup UpdatePcs \cup IncrPcs]
    /\ old \in [Threads -> Word]
    /\ live \in [Threads -> Word]
    /\ inflight \subseteq Jobs
    /\ fence \in [Jobs -> Word]

(* Any counter value may be current when the driver starts: probe writes   *)
(* the zeroed shadows, and a resume writes back the saved ones.            *)
Init ==
    \E v \in Word :
        /\ hw = v /\ min_val = v /\ max_val = v
        /\ power = "on"
        /\ pc = [t \in Threads |-> "idle"]
        /\ old = [t \in Threads |-> 0]
        /\ live = [t \in Threads |-> 0]
        /\ inflight = {}
        /\ fence = [j \in Jobs |-> 0]

-----------------------------------------------------------------------------
(* Slips the properties must see (each replaces the operator it is named after) *)

(* a plain store instead of the compare and exchange *)
CmpxchgHit_PlainStore(t) ==
    /\ pc[t] = "cmpxchg"
    /\ min_val' = live[t]
    /\ pc' = [pc EXCEPT ![t] = "return"]
    /\ UNCHANGED <<hw, max_val, power, old, live, inflight, fence>>

(* the wait list's comparison is off by one *)
Return_OffByOne(t) ==
    /\ pc[t] = "return"
    /\ inflight' = {j \in inflight : S32(Sub(fence[j], live[t])) > 1}
    /\ pc' = [pc EXCEPT ![t] = "idle"]
    /\ old' = [old EXCEPT ![t] = 0]
    /\ live' = [live EXCEPT ![t] = 0]
    /\ UNCHANGED <<hw, min_val, max_val, power, fence>>

(* nvhost_syncpt_save skips client managed points *)
PowerOff_NoSave ==
    /\ power = "on" /\ HostIdle
    /\ power' = "off"
    /\ hw' \in Word
    /\ UNCHANGED <<min_val, max_val, pc, old, live, inflight, fence>>

(* power_on_host does not reset the registers *)
PowerOn_NoReset ==
    /\ power = "off"
    /\ power' = "on"
    /\ UNCHANGED <<hw, min_val, max_val, pc, old, live, inflight, fence>>

-----------------------------------------------------------------------------
(* t20_syncpt_update_min, one step per access *)

(* old = nvhost_syncpt_read_min().  nvhost_module_busy has powered the host. *)
ReadMin(t) ==
    /\ pc[t] = "idle" /\ power = "on"
    /\ pc' = [pc EXCEPT ![t] = "readl"]
    /\ old' = [old EXCEPT ![t] = min_val]
    /\ UNCHANGED <<hw, min_val, max_val, power, live, inflight, fence>>

(* live = readl(SYNCPT_0 + id) *)
ReadLive(t) ==
    /\ pc[t] = "readl"
    /\ pc' = [pc EXCEPT ![t] = "cmpxchg"]
    /\ live' = [live EXCEPT ![t] = hw]
    /\ UNCHANGED <<hw, min_val, max_val, power, old, inflight, fence>>

(* atomic_cmpxchg(&min_val, old, live) == old *)
CmpxchgHit(t) ==
    /\ pc[t] = "cmpxchg"
    /\ min_val = old[t]
    /\ min_val' = live[t]
    /\ pc' = [pc EXCEPT ![t] = "return"]
    /\ UNCHANGED <<hw, max_val, power, old, live, inflight, fence>>

(* somebody else moved the shadow: take both values again *)
CmpxchgMiss(t) ==
    /\ pc[t] = "cmpxchg"
    /\ min_val # old[t]
    /\ old' = [old EXCEPT ![t] = min_val]
    /\ pc' = [pc EXCEPT ![t] = "readl"]
    /\ UNCHANGED <<hw, min_val, max_val, power, live, inflight, fence>>

(* The value returned by update_min retires what it has reached: this is   *)
(* what the wait list does with the SUBMIT_COMPLETE waiters, whose handler *)
(* drops the jobs' module references.  The locals go out of scope.          *)
Return(t) ==
    /\ pc[t] = "return"
    /\ inflight' = {j \in inflight : S32(Sub(fence[j], live[t])) > 0}
    /\ pc' = [pc EXCEPT ![t] = "idle"]
    /\ old' = [old EXCEPT ![t] = 0]
    /\ live' = [live EXCEPT ![t] = 0]
    /\ UNCHANGED <<hw, min_val, max_val, power, fence>>

-----------------------------------------------------------------------------
(* Submitting: module_busy, nvhost_syncpt_incr_max(sp, id, n) and the kick *)
Submit(j, n) ==
    /\ power = "on"
    /\ ~ClientManaged
    /\ j \notin inflight
    /\ Window(max_val, n)
    /\ max_val' = Add(max_val, n)
    /\ fence' = [fence EXCEPT ![j] = max_val']
    /\ inflight' = inflight \cup {j}
    /\ UNCHANGED <<hw, min_val, power, pc, old, live>>

(* The engines perform the increments the submitted work contains, and a   *)
(* client managed point (a display's VBLANK) counts by itself.             *)
EngineIncr ==
    /\ power = "on"
    /\ ClientManaged \/ hw # max_val
    /\ Window(hw, 1)
    /\ hw' = Add(hw, 1)
    /\ UNCHANGED <<min_val, max_val, power, pc, old, live, inflight, fence>>

-----------------------------------------------------------------------------
(* nvhost_syncpt_incr: the CPU increment that user space may request *)

IncrMaxStep(t) ==
    /\ t \in Incrementers
    /\ pc[t] = "idle" /\ power = "on"
    /\ max_val' = IF ClientManaged THEN Add(max_val, 1) ELSE max_val
    /\ pc' = [pc EXCEPT ![t] = "incr_check"]
    /\ UNCHANGED <<hw, min_val, power, old, live, inflight, fence>>

(* t20_syncpt_cpu_incr: refuse a host managed point whose shadows are equal *)
IncrCheck(t) ==
    /\ pc[t] = "incr_check"
    /\ pc' = [pc EXCEPT ![t] = IF ~ClientManaged /\ min_eq_max
                                 THEN "idle" ELSE "incr_write"]
    /\ UNCHANGED <<hw, min_val, max_val, power, old, live, inflight, fence>>

IncrWrite(t) ==
    /\ pc[t] = "incr_write"
    /\ Window(hw, 1)
    /\ hw' = Add(hw, 1)
    /\ pc' = [pc EXCEPT ![t] = "idle"]
    /\ UNCHANGED <<min_val, max_val, power, old, live, inflight, fence>>

-----------------------------------------------------------------------------
(* Host power: only while nobody holds a module_busy reference *)

(* power_off_host -> nvhost_syncpt_save, after which the register is lost. *)
(* A host managed point is only asserted to be at rest (SaveIsSafe).       *)
PowerOff ==
    /\ power = "on" /\ HostIdle
    /\ power' = "off"
    /\ min_val' = IF ClientManaged THEN hw ELSE min_val
    /\ hw' \in Word
    /\ UNCHANGED <<max_val, pc, old, live, inflight, fence>>

(* power_on_host -> nvhost_syncpt_reset *)
PowerOn ==
    /\ power = "off"
    /\ power' = "on"
    /\ hw' = min_val
    /\ UNCHANGED <<min_val, max_val, pc, old, live, inflight, fence>>

-----------------------------------------------------------------------------
Step(t) ==
    \/ ReadMin(t) \/ ReadLive(t) \/ CmpxchgHit(t) \/ CmpxchgMiss(t) \/ Return(t)
    \/ IncrMaxStep(t) \/ IncrCheck(t) \/ IncrWrite(t)

Next ==
    \/ \E t \in Threads : Step(t)
    \/ \E j \in Jobs, n \in 1 .. MaxJobIncrs : Submit(j, n)
    \/ EngineIncr
    \/ PowerOff
    \/ PowerOn

Spec == Init /\ [][Next]_vars

-----------------------------------------------------------------------------
(* Properties *)

(* The shadow only ever moves forward, and never past the register, even   *)
(* though readers race on it: an update installs a value that lies between *)
(* the value it replaces and the counter (t20_syncpt_update_min).          *)
ShadowNeverBack ==
    [][power = "on" => Sub(min_val', min_val) <= Sub(hw, min_val)]_vars

(* "c always chases f until it reaches f" (nvhost_syncpt_is_expired): going *)
(* round the counter's circle from the shadow, the register comes no later *)
(* than the promised value.                                                *)
ChasesMax ==
    power = "on" => Sub(hw, min_val) <= Sub(max_val, min_val)

(* The driver has two tests for "this fence has been reached": is_expired's *)
(* unsigned comparison of both shadows, and the signed comparison by which *)
(* the wait list drops waiters.  They agree on the fence of every job in   *)
(* flight; where they did not, a thread would either wait for an interrupt *)
(* that is never armed or return before its fence ("If t is expired then   *)
(* we *cannot* wait on it. We would wait forever").                        *)
ExpiryTestsAgree ==
    ~ClientManaged =>
        \A j \in inflight :
            is_expired(fence[j]) <=> S32(Sub(fence[j], min_val)) <= 0

(* BUG_ON(!nvhost_syncpt_min_eq_max(sp, i)) in nvhost_syncpt_save cannot   *)
(* fire: whenever the last module reference is gone, the last update_min   *)
(* has brought the shadow all the way up to the promised value.            *)
SaveIsSafe ==
    (power = "on" /\ HostIdle /\ ~ClientManaged) => min_eq_max

(* A power cycle resumes a counter where it stopped: the value that was    *)
(* current when the host lost power is the value written back.             *)
CounterSurvives ==
    [][PowerOff => min_val' = hw]_vars

================================================================================
