--------------------------------- MODULE Channel ---------------------------------
(***************************************************************************)
(* The channels of the client modules as users of Acm: files are opened,   *)
(* submit jobs and are closed (bus_client.c, nvhost_channel.c,             *)
(* host1x/host1x_channel.c), the engine switches hardware contexts and     *)
(* executes, the interrupt thread retires jobs, a hung job is torn down,   *)
(* control files keep the host up, and the system suspends.                *)
(*                                                                         *)
(* Every thread, interrupt thread and work that takes dev->lock,           *)
(* submitlock, cdma->lock or reflock while it holds another of them is     *)
(* here, with its steps cut at the lock it waits for.  The ring and the    *)
(* counter are module Cdma's: a job is one queue entry, and cdma->lock is  *)
(* held across steps only by a teardown.                                   *)
(***************************************************************************)
EXTENDS Acm, Sequences

CONSTANTS Users,       \* channel files; each has one hardware context
          Ctrls,       \* control files, which may hold module mutex 0
          Keepalive,   \* client modules with keepalive
          Depth,       \* bound: jobs in one channel's ring
          PromptIrq,   \* completed jobs are retired before a wait for an idle module times out
          SuspendSaves, \* a suspend finds the memory for the waiters of a context save
          JobMemory,   \* a context save finds the memory for its job
          Pm,          \* the thread that suspends the system
          None

ASSUME ChannelAssumption ==
    /\ IsFiniteSet(Users) /\ IsFiniteSet(Ctrls) /\ Pm \notin Users
    /\ Keepalive \subseteq Children /\ Depth \in Nat \ {0} /\ PromptIrq \in BOOLEAN
    /\ SuspendSaves \in BOOLEAN /\ JobMemory \in BOOLEAN
    /\ None \notin Users \cup Mods

VARIABLES
    pc, on,        \* where each thread is, and the module its call is about
    holding,       \* control files that hold mutex 0
    queue,         \* cdma->sync_queue of each module
    owed,          \* completed jobs whose submit-complete handler has not run
    irq,           \* interrupt thread of each module: step and merged completions
    td,            \* modules whose timeout handler tears down, holding cdma->lock
    cur_ctx,       \* ch->cur_ctx
    timedout,      \* contexts with has_timedout
    valid,         \* contexts with a saved image
    regs,          \* context whose state the module's registers hold, or None
    fresh,         \* contexts whose saved image is their latest state
    ran,           \* contexts with a state of their own: they executed, and no reset took it
    suspended      \* client modules suspended in this system suspend

userVars == <<pc, on>>
ctxVars == <<timedout, valid, regs, fresh, ran>>
jobVars == <<queue, owed, irq, td>>
vars == <<acmVars, userVars, holding, jobVars, cur_ctx, ctxVars, suspended>>

Threads == Users \cup {Pm}

(* stage 0: not executed, 1: context switched, 2: done *)
Job == [ctx : Users, save : Users \cup {None}, restore : BOOLEAN, stage : 0 .. 2]

UserPcs == {"closed", "open", "keep", "keep_up", "submit_up", "lock", "push",
            "err", "err_locked", "unkeep", "put", "stop"}
SuspendPcs == {"susp_wait", "susp_lock", "susp_off"}

TypeOK ==
    /\ AcmTypeOK
    /\ pc \in [Threads -> UserPcs \cup SuspendPcs \cup {"awake", "frozen"}]
    /\ on \in [Threads -> Mods \cup {None}]
    /\ holding \subseteq Ctrls
    /\ queue \in [Children -> Seq(Job)] /\ owed \in [Children -> Nat]
    /\ irq \in [Children -> [at : {"idle", "update", "drop"}, n : Nat]]
    /\ td \subseteq Children
    /\ cur_ctx \in [Children -> Users \cup {None}]
    /\ timedout \subseteq Users /\ valid \subseteq Users
    /\ regs \in [Children -> Users \cup {None}]
    /\ fresh \subseteq Users /\ ran \subseteq Users
    /\ suspended \subseteq Children

Init ==
    /\ AcmInit
    /\ pc = [t \in Threads |-> IF t = Pm THEN "awake" ELSE "closed"]
    /\ on = [t \in Threads |-> None]
    /\ holding = {}
    /\ queue = [m \in Children |-> <<>>] /\ owed = [m \in Children |-> 0]
    /\ irq = [m \in Children |-> [at |-> "idle", n |-> 0]] /\ td = {}
    /\ cur_ctx = [m \in Children |-> None]
    /\ timedout = {} /\ valid = {} /\ regs = [m \in Children |-> None]
    /\ fresh = {} /\ ran = {}
    /\ suspended = {}

-----------------------------------------------------------------------------
(* Locks other than dev->lock: who holds them follows from where threads are *)

SubmitLockFree(m) ==
    /\ dev[m].at # "off_wait"
    /\ \A u \in Users : on[u] = m => pc[u] \notin {"push", "err_locked"}

CdmaLockFree(m) == m \notin td

RefLockFree(m) ==
    \A t \in Threads : on[t] = m => pc[t] \notin {"stop"} \cup SuspendPcs

(* user processes run: the system is not being suspended *)
Awake == pc[Pm] = "awake"

Goto(t, l) == pc' = [pc EXCEPT ![t] = l]

Done(m) == {i \in DOMAIN queue[m] : queue[m][i].stage = 2}
Unfinished(m) == {i \in DOMAIN queue[m] : queue[m][i].stage < 2}

(* the job the engine is at: jobs finish in order *)
AtHead(m) == Cardinality(Done(m)) + 1

(* the registers do not survive a power-off *)
Lost(m) == IF m # Host /\ dev'[m].powerstate = "powergated" THEN [regs EXCEPT ![m] = None] ELSE regs

-----------------------------------------------------------------------------
(* Files *)

(* some job still refers to context u *)
InUse(u) == \E m \in Children : \E i \in DOMAIN queue[m] : u \in {queue[m][i].ctx, queue[m][i].save}

(* the contexts in S are gone: no job refers to them and no file has them *)
Forget(S) ==
    /\ timedout' = timedout \ S /\ valid' = valid \ S
    /\ fresh' = fresh \ S /\ ran' = ran \ S
    /\ regs' = [c \in Children |-> IF regs[c] \in S THEN None ELSE regs[c]]

(* nvhost_channelopen: getchannel and a new context.  A bound on names: a  *)
(* file's name is used again once no job refers to its old context.        *)
Open(u, m) ==
    /\ pc[u] = "closed" /\ Awake /\ RefLockFree(m) /\ ~InUse(u)
    /\ Goto(u, IF m \in Keepalive THEN "keep" ELSE "open")
    /\ on' = [on EXCEPT ![u] = m]
    /\ Forget({u})
    /\ UNCHANGED <<acmVars, holding, jobVars, cur_ctx, suspended>>

(* where a thread goes on that has got its module reference *)
Referenced(l) == IF l \in {"keep", "keep_up"} THEN "open" ELSE "lock"

(* nvhost_module_busy of a keep-alive open, or of a submit, which has seen  *)
(* that its context has not timed out ("Bail out on timed out contexts")    *)
TakeRef(u) ==
    /\ pc[u] = "keep" \/ (pc[u] = "open" /\ Awake /\ u \notin timedout)
    /\ Busy(on[u])
    /\ Goto(u, IF dev'[on[u]].at = "free" THEN Referenced(pc[u])
               ELSE IF pc[u] = "keep" THEN "keep_up" ELSE "submit_up")
    /\ UNCHANGED <<on, holding, jobVars, cur_ctx, ctxVars, suspended>>

TakeRefUp(u) ==
    /\ pc[u] \in {"keep_up", "submit_up"}
    /\ dev[on[u]].at = "busy"
    /\ \E ok \in BOOLEAN : ToRunning(on[u], ok, "free")
    /\ Goto(u, Referenced(pc[u]))
    /\ UNCHANGED <<on, holding, jobVars, cur_ctx, ctxVars, suspended>>

(* a slip: an interrupted submit keeps its reference *)
LockSubmit_Leak(u) ==
    /\ pc[u] = "lock"
    /\ \/ SubmitLockFree(on[u]) /\ Goto(u, "push")
       \/ Goto(u, "open")
    /\ UNCHANGED <<acmVars, on, holding, jobVars, cur_ctx, ctxVars, suspended>>

(* mutex_lock_interruptible(&ch->submitlock) *)
LockSubmit(u) ==
    /\ pc[u] = "lock"
    /\ \/ SubmitLockFree(on[u]) /\ Goto(u, "push")
       \/ Goto(u, "err")
    /\ UNCHANGED <<acmVars, on, holding, jobVars, cur_ctx, ctxVars, suspended>>

(* an allocation fails (submitlock is held while the reference is dropped), *)
(* or nvhost_cdma_begin does (it is not)                                    *)
SubmitFails(u) ==
    /\ pc[u] = "push"
    /\ Goto(u, "err_locked") \/ Goto(u, "err")
    /\ UNCHANGED <<acmVars, on, holding, jobVars, cur_ctx, ctxVars, suspended>>

(* nvhost_module_idle of an error path, and of the close of a kept module *)
DropRef(u) ==
    /\ pc[u] \in {"err", "err_locked", "unkeep"}
    /\ IdleMult(on[u], 1)
    /\ Goto(u, IF pc[u] = "unkeep" THEN "put" ELSE "open")
    /\ UNCHANGED <<on, holding, jobVars, cur_ctx, ctxVars, suspended>>

(* submit_ctxsave: "Is a save needed?" *)
SaveNeeded(u, c) == c # None /\ c # u /\ c \notin timedout

(* a slip: the context is taken to be current still *)
RestoreNeeded_Never(u, c) == FALSE

(* submit_ctxrestore: "First check if we have a valid context to restore" *)
RestoreNeeded(u, c) == c # u /\ u \in valid

(* host1x_channel_submit from cdma_begin on; the wait for ring space is the *)
(* guard on the queue's length                                              *)
Push(u) ==
    LET m == on[u]
        c == cur_ctx[m]
        job == [ctx |-> u, save |-> IF SaveNeeded(u, c) THEN c ELSE None,
                restore |-> RestoreNeeded(u, c), stage |-> 0]
    IN  /\ pc[u] = "push" /\ CdmaLockFree(m) /\ Len(queue[m]) + owed[m] < Depth
        /\ queue' = [queue EXCEPT ![m] = Append(@, job)]
        /\ valid' = IF SaveNeeded(u, c) THEN valid \cup {c} ELSE valid
        /\ cur_ctx' = [cur_ctx EXCEPT ![m] = u]
        /\ Goto(u, "open")
        /\ UNCHANGED <<acmVars, on, holding, owed, irq, td, timedout, regs, fresh,
                       ran, suspended>>

(* a slip: the channel keeps pointing at the closed context *)
ClearCtx_Kept(u, m) == cur_ctx

(* nvhost_putchannel: the channel forgets the context *)
ClearCtx(u, m) == IF cur_ctx[m] = u THEN [cur_ctx EXCEPT ![m] = None] ELSE cur_ctx

Close(u) ==
    /\ pc[u] = "open" /\ Awake /\ SubmitLockFree(on[u])
    /\ cur_ctx' = ClearCtx(u, on[u])
    /\ Goto(u, IF on[u] \in Keepalive THEN "unkeep" ELSE "put")
    /\ UNCHANGED <<acmVars, on, holding, jobVars, ctxVars, suspended>>

(* the last one out stops the channel, with reflock held *)
Put(u) ==
    LET last == \A v \in Users \ {u} : on[v] # on[u]
    IN  /\ pc[u] = "put" /\ RefLockFree(on[u])
        /\ Goto(u, IF last THEN "stop" ELSE "closed")
        /\ on' = IF last THEN on ELSE [on EXCEPT ![u] = None]
        /\ Forget(IF last \/ InUse(u) THEN {} ELSE {u})
        /\ UNCHANGED <<acmVars, holding, jobVars, cur_ctx, suspended>>

(* cdma_stop waits for an empty sync queue *)
Stop(u) ==
    /\ pc[u] = "stop" /\ CdmaLockFree(on[u]) /\ queue[on[u]] = <<>>
    /\ Goto(u, "susp_wait")
    /\ UNCHANGED <<acmVars, on, holding, jobVars, cur_ctx, ctxVars, suspended>>

-----------------------------------------------------------------------------
(* nvhost_module_suspend, for the last close and for a system suspend *)

(* where the caller goes on: a close does not look at the result, and an   *)
(* error ends the system suspend                                           *)
Returns(t, ok) ==
    /\ pc' = [pc EXCEPT ![t] = IF t # Pm THEN "closed" ELSE IF ok /\ on[t] # Host THEN "frozen" ELSE "awake"]
    /\ on' = [on EXCEPT ![t] = None]
    /\ Forget({t})
    /\ suspended' = IF t # Pm THEN suspended
                    ELSE IF ok /\ on[t] # Host THEN suspended \cup {on[t]} ELSE {}

(* is_module_idle: refcount is read under dev->lock, which is then dropped *)
SeenIdle(t) ==
    /\ pc[t] = "susp_wait" /\ LockFree(on[t]) /\ dev[on[t]].refcount = 0
    /\ Goto(t, "susp_lock")
    /\ UNCHANGED <<acmVars, on, holding, jobVars, cur_ctx, ctxVars, suspended>>

(* ACM_SUSPEND_WAIT_FOR_IDLE_TIMEOUT: -EBUSY *)
SuspendBusy(t) ==
    /\ pc[t] = "susp_wait" /\ dev[on[t]].refcount # 0
    /\ PromptIrq => \A m \in Children : irq[m].at = "idle" /\ owed[m] = 0 /\ Done(m) = {}
    /\ Returns(t, FALSE)
    /\ UNCHANGED <<acmVars, holding, jobVars, cur_ctx>>

SuspendOff(t) ==
    /\ pc[t] = "susp_lock"
    /\ SuspendLocked(on[t])
    /\ Goto(t, "susp_off")
    /\ regs' = Lost(on[t])
    /\ UNCHANGED <<on, holding, jobVars, cur_ctx, timedout, valid, fresh, ran,
                   suspended>>

(* the section is over; the result of to_state_powergated is not looked at, *)
(* and the suspend of a channel stops its DMA as well                       *)
SuspendReturns(t) ==
    /\ pc[t] = "susp_off" /\ dev[on[t]].by # "suspend"
    /\ t = Pm /\ on[t] # Host => CdmaLockFree(on[t]) /\ queue[on[t]] = <<>>
    /\ Returns(t, TRUE)
    /\ UNCHANGED <<acmVars, holding, jobVars, cur_ctx>>

(* user processes are frozen between their calls *)
Freeze ==
    /\ Awake /\ \A u \in Users : pc[u] \in {"closed", "open"}
    /\ Goto(Pm, "frozen")
    /\ UNCHANGED <<acmVars, on, holding, jobVars, cur_ctx, ctxVars, suspended>>

(* nvhost_channel_suspend of the client modules in turn, those with an open *)
(* channel, then nvhost_suspend of the host                                 *)
PmSuspend(m) ==
    /\ pc[Pm] = "frozen"
    /\ IF m = Host THEN \A c \in Children \ suspended : \A u \in Users : on[u] # c
                   ELSE m \notin suspended /\ \E u \in Users : on[u] = m
    /\ Goto(Pm, "susp_wait")
    /\ on' = [on EXCEPT ![Pm] = m]
    /\ UNCHANGED <<acmVars, holding, jobVars, cur_ctx, ctxVars, suspended>>

-----------------------------------------------------------------------------
(* Control files: module mutex 0 is a reference to the host *)

CtrlLock(k) ==
    /\ k \notin holding /\ Awake
    /\ HostBusy
    /\ holding' = holding \cup {k}
    /\ UNCHANGED <<userVars, jobVars, cur_ctx, ctxVars, suspended>>

CtrlUnlock(k) ==
    /\ k \in holding /\ Awake
    /\ HostIdle
    /\ holding' = holding \ {k}
    /\ UNCHANGED <<userVars, jobVars, cur_ctx, ctxVars, suspended>>

-----------------------------------------------------------------------------
(* The engine of module m *)

CanExecute(m) ==
    /\ nvhost_module_powered(dev[m]) /\ nvhost_module_powered(dev[Host])
    /\ m \notin td /\ Unfinished(m) # {}

SetStage(m, n) == queue' = [queue EXCEPT ![m][AtHead(m)].stage = n]

(* what is left in the registers and in the images by a save of c ... *)
SavedFresh(m, c) == IF c = None THEN fresh
                    ELSE IF regs[m] = c THEN fresh \cup {c} ELSE fresh \ {c}

(* the save and restore at the start of a job *)
Switch(m) ==
    /\ CanExecute(m)
    /\ LET j == queue[m][AtHead(m)]
       IN  /\ j.stage = 0
           /\ fresh' = SavedFresh(m, j.save)
           /\ regs' = [regs EXCEPT ![m] =
                         IF j.restore THEN (IF j.ctx \in fresh' THEN j.ctx ELSE None)
                         ELSE IF j.ctx \in ran THEN @ ELSE j.ctx]
    /\ SetStage(m, 1)
    /\ UNCHANGED <<acmVars, userVars, holding, owed, irq, td, cur_ctx, timedout, valid,
                   ran, suspended>>

(* the job proper; afterwards the image of its context is out of date *)
Execute(m) ==
    /\ CanExecute(m)
    /\ LET j == queue[m][AtHead(m)]
       IN  /\ j.stage = 1
           /\ ran' = ran \cup {j.ctx}
           /\ regs' = [regs EXCEPT ![m] = j.ctx]
           /\ fresh' = fresh \ {j.ctx}
    /\ SetStage(m, 2)
    /\ UNCHANGED <<acmVars, userVars, holding, owed, irq, td, cur_ctx, timedout, valid,
                   suspended>>

-----------------------------------------------------------------------------
(* The interrupt thread: action_submit_complete *)

IrqStart(m) ==
    LET n == Cardinality(Done(m)) + owed[m]
    IN  /\ irq[m].at = "idle" /\ n > 0
        /\ irq' = [irq EXCEPT ![m] = [at |-> "update", n |-> n]]
        /\ UNCHANGED <<acmVars, userVars, holding, queue, owed, td, cur_ctx, ctxVars, suspended>>

(* a slip: the jobs whose completion is handled here stay owed *)
IrqUpdate_StillOwed(m) ==
    /\ irq[m].at = "update" /\ CdmaLockFree(m)
    /\ queue' = [queue EXCEPT ![m] = SubSeq(@, AtHead(m), Len(@))]
    /\ owed' = [owed EXCEPT ![m] = @ + Cardinality(Done(m))]
    /\ irq' = [irq EXCEPT ![m].at = "drop"]
    /\ UNCHANGED <<acmVars, userVars, holding, td, cur_ctx, ctxVars, suspended>>

(* nvhost_cdma_update pops every completed job *)
IrqUpdate(m) ==
    /\ irq[m].at = "update" /\ CdmaLockFree(m)
    /\ queue' = [queue EXCEPT ![m] = SubSeq(@, AtHead(m), Len(@))]
    /\ owed' = [owed EXCEPT ![m] = @ + Cardinality(Done(m)) - irq[m].n]
    /\ irq' = [irq EXCEPT ![m].at = "drop"]
    /\ UNCHANGED <<acmVars, userVars, holding, td, cur_ctx, ctxVars, suspended>>

(* nvhost_module_idle_mult of the completed jobs *)
IrqDrop(m) ==
    /\ irq[m].at = "drop"
    /\ IdleMult(m, irq[m].n)
    /\ irq' = [irq EXCEPT ![m] = [at |-> "idle", n |-> 0]]
    /\ UNCHANGED <<userVars, holding, queue, owed, td, cur_ctx, ctxVars, suspended>>

-----------------------------------------------------------------------------
(* The submit timeout: cdma->lock is held while nvhost_module_reset waits  *)
(* for dev->lock                                                           *)
TdBegin(m) ==
    /\ m \notin td /\ Unfinished(m) # {}
    /\ td' = td \cup {m}
    /\ UNCHANGED <<acmVars, userVars, holding, queue, owed, irq, cur_ctx, ctxVars, suspended>>

(* the reset clears the registers; the leading jobs of the timed out client *)
(* become NOOPs, the save of the context before it with them                *)
TdReset(m) ==
    /\ m \in td /\ LockFree(m)
    /\ LET h == AtHead(m)
           j == queue[m][h]
           gone == {i \in Unfinished(m) : \A k \in h .. i : queue[m][k].ctx = j.ctx}
       IN  /\ queue' = [queue EXCEPT ![m] =
                          [i \in DOMAIN @ |-> IF i \in gone THEN [@[i] EXCEPT !.stage = 2] ELSE @[i]]]
           /\ timedout' = timedout \cup {j.ctx}
           /\ ran' = ran \ {regs[m], j.ctx}
    /\ regs' = [regs EXCEPT ![m] = None]
    /\ td' = td \ {m}
    /\ UNCHANGED <<acmVars, userVars, holding, owed, irq, cur_ctx, valid, fresh, suspended>>

-----------------------------------------------------------------------------
(* prepare_poweroff of a client module with contexts, dev->lock being held *)

(* nvhost_channel_save_context: nothing to save, no memory for the waiters, *)
(* or the context is saved once submitlock is got.  When nvhost_job_alloc   *)
(* fails, PTR_ERR(NULL) makes a success of it and nothing is saved.         *)
OffSave(m) ==
    /\ dev[m].at = "off_save"
    /\ \/ /\ cur_ctx[m] = None \/ (~JobMemory /\ SubmitLockFree(m))
          /\ dev' = [dev EXCEPT ![m] = AfterPoweroff(m, @, FALSE)]
       \/ /\ cur_ctx[m] # None /\ (SuspendSaves => dev[m].by = "work")
          /\ dev' = [dev EXCEPT ![m] = AfterPoweroff(m, @, TRUE)]
       \/ /\ cur_ctx[m] # None /\ SubmitLockFree(m)
          /\ dev' = [dev EXCEPT ![m] = At(@, "off_wait")]
    /\ regs' = Lost(m)
    /\ UNCHANGED <<leaked, userVars, holding, jobVars, cur_ctx, timedout, valid,
                   fresh, ran, suspended>>

(* host1x_save_context: the save goes through the ring, behind all jobs,   *)
(* and its end is seen when the interrupt thread gets to the wake-up       *)
OffWait(m) ==
    LET c == cur_ctx[m]
    IN  /\ dev[m].at = "off_wait"
        /\ CdmaLockFree(m) /\ queue[m] = <<>> /\ irq[m].at = "idle"
        /\ nvhost_module_powered(dev[m]) /\ nvhost_module_powered(dev[Host])
        /\ dev' = [dev EXCEPT ![m] = AfterPoweroff(m, @, FALSE)]
        /\ cur_ctx' = [cur_ctx EXCEPT ![m] = None]
        /\ valid' = valid \cup {c}
        /\ fresh' = SavedFresh(m, c)
        /\ regs' = Lost(m)
        /\ UNCHANGED <<leaked, userVars, holding, jobVars, timedout, ran, suspended>>

PowerStep(m) ==
    /\ \/ WorkStart(m) \/ WorkRun(m)
       \/ m \in Children /\ (GateChild(m) \/ OffUp(m))
       \/ m = Host /\ GateHost /\ \A c \in Children : irq[c].at = "idle"
    /\ regs' = Lost(m)
    /\ UNCHANGED <<userVars, holding, jobVars, cur_ctx, timedout, valid, fresh, ran, suspended>>

-----------------------------------------------------------------------------
UserStep(u) ==
    \/ \E m \in Children : Open(u, m)
    \/ TakeRef(u) \/ TakeRefUp(u) \/ LockSubmit(u) \/ SubmitFails(u)
    \/ DropRef(u) \/ Push(u) \/ Close(u) \/ Put(u) \/ Stop(u)

SuspendStep(t) == SeenIdle(t) \/ SuspendBusy(t) \/ SuspendOff(t) \/ SuspendReturns(t)

ChannelStep(m) ==
    \/ Switch(m) \/ Execute(m)
    \/ IrqStart(m) \/ IrqUpdate(m) \/ IrqDrop(m)
    \/ TdBegin(m) \/ TdReset(m)
    \/ OffSave(m) \/ OffWait(m)

Next ==
    \/ \E u \in Users : UserStep(u)
    \/ \E t \in Threads : SuspendStep(t)
    \/ Freeze \/ \E m \in Mods : PmSuspend(m)
    \/ \E k \in Ctrls : CtrlLock(k) \/ CtrlUnlock(k)
    \/ \E m \in Children : ChannelStep(m)
    \/ \E m \in Mods : PowerStep(m)

Spec == Init /\ [][Next]_vars

-----------------------------------------------------------------------------
(* Properties *)

(* A module that somebody holds a reference to has its clocks on, outside  *)
(* the sections of its lock, unless clk_enable failed for it: a delayed    *)
(* power-down that was already running when nvhost_module_busy cancelled   *)
(* it, or a suspend that saw the module idle a moment ago, takes nothing   *)
(* away from a later user (powerstate_down_handler, nvhost_module_suspend). *)
ReferencedIsPowered ==
    \A m \in Mods : LockFree(m) /\ dev[m].refcount > 0 =>
        nvhost_module_powered(dev[m]) \/ dev[m].clkbad

(* The host is referenced once by every client module whose clocks are on  *)
(* and once by every held module mutex, and nothing else is left behind    *)
(* but one reference for each clk_enable that failed: clock gating, power  *)
(* gating with and without a context to save, the failed and the repeated  *)
(* power-off and the suspend all pair nvhost_module_busy(parent) with      *)
(* nvhost_module_idle(parent).                                             *)
ParentRefs ==
    dev[Host].refcount =
        Cardinality(holding) + Cardinality({m \in Children : nvhost_module_powered(dev[m])}) + leaked

(* submits that hold a reference, and files that keep their module alive *)
SubmitRefs(m) ==
    {u \in Users : on[u] = m /\ pc[u] \in {"submit_up", "lock", "push", "err", "err_locked"}}
KeepRefs(m) ==
    {u \in Users : m \in Keepalive /\ on[u] = m /\
                   pc[u] \notin {"keep", "put", "stop"} \cup SuspendPcs}

(* Every reference to a client module belongs to a submit under way, to a  *)
(* queued job, to a completed job whose merged submit-complete handler has *)
(* still to run, or to an open file of a keep-alive module: all the error  *)
(* returns of host1x_channel_submit drop theirs, and action_submit_complete *)
(* drops one per job however completions are merged.                       *)
ChildRefs ==
    \A m \in Children :
        dev[m].refcount =
            Cardinality(SubmitRefs(m)) + Cardinality(KeepRefs(m)) + Len(queue[m]) + owed[m]
                + (IF irq[m].at = "drop" THEN irq[m].n ELSE 0)

(* no job, no completion to handle, no teardown *)
Quiet(m) == queue[m] = <<>> /\ owed[m] = 0 /\ irq[m].at = "idle" /\ m \notin td

(* When the host's clock-off or power-off calls nvhost_intr_stop, no       *)
(* client holds a module mutex and no channel has a job, a completion or a *)
(* teardown under way, so that no waiter is on the lists it empties.       *)
StopFindsQuiet ==
    dev[Host].at \in {"stop", "off_stop"} => holding = {} /\ \A m \in Children : Quiet(m)

(* host1x_save_context takes submitlock and cdma->lock with dev->lock      *)
(* held, while submits take dev->lock under submitlock and teardowns take  *)
(* it under cdma->lock.  The orders never meet: at that time the module    *)
(* has no reference, so no submit is inside, no job is queued to be torn   *)
(* down, and the wait for the save's own completion depends on nobody.     *)
SavingAlone ==
    \A m \in Children : dev[m].at \in {"off_save", "off_wait"} => Quiet(m) /\ SubmitRefs(m) = {}

(* A module left running without a user is taken down eventually: its work *)
(* is pending or has started, although every nvhost_module_busy cancels it *)
(* and only the last nvhost_module_idle schedules it.                      *)
IdleIsWatched ==
    \A m \in Mods : LockFree(m) /\ dev[m].refcount = 0 /\ nvhost_module_powered(dev[m]) =>
        dev[m].pending \/ dev[m].started > 0

(* ch->cur_ctx is the context of a file that is open on this channel and   *)
(* has not begun to close: what a submit or a power-off saves into is      *)
(* never a context that nvhost_channelrelease has given up.                *)
CtxIsOpen ==
    \A m \in Children : cur_ctx[m] # None =>
        on[cur_ctx[m]] = m /\ pc[cur_ctx[m]] \notin {"closed", "unkeep", "put", "stop"} \cup SuspendPcs

(* A job runs on its own context's registers: whatever was submitted,      *)
(* timed out, closed, saved by a power-off or a suspend in between, a      *)
(* context that has a state finds it in the module when its job begins.    *)
(* (A module reset takes the state that was in the registers, and a        *)
(* context that has timed out is not saved any more: what jobs it still    *)
(* has, or has under way, run on whatever they find.)                      *)
OwnState ==
    \A m \in Children : \A i \in DOMAIN queue[m] :
        LET j == queue[m][i]
        IN  j.stage = 1 /\ j.ctx \in ran \ timedout => regs[m] = j.ctx

================================================================================
