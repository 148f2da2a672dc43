----------------------------------- MODULE Acm -----------------------------------
(***************************************************************************)
(* Power management of the host and of its client modules (nvhost_acm.c).  *)
(* A module has a reference count, a power state and a delayed work that   *)
(* takes it down; a running client module holds one reference to the host. *)
(* This module has the sections that run under dev->lock.  Who calls them, *)
(* and in which order, is module Channel's.                                *)
(*                                                                         *)
(* A section that takes the host's lock, or waits for something else, with *)
(* the module's own lock held is cut there: dev[m].at says what the holder *)
(* of the lock is about to do ("free": nobody holds it), dev[m].by whether *)
(* a power-off is done for the delayed work or for a suspend.              *)
(***************************************************************************)
EXTENDS Integers, FiniteSets

CONSTANTS Children,      \* client modules
          Host,          \* the host1x device, their parent
          CanPowergate,  \* modules with can_powergate
          HasPoweroff,   \* client modules whose prepare_poweroff saves a context
          MaxStarted,    \* bound: handlers of one work that wait for dev->lock
          MaxClkFails    \* bound: clocks that fail to start

ASSUME AcmAssumption ==
    /\ IsFiniteSet(Children) /\ Host \notin Children
    /\ CanPowergate \subseteq Children /\ HasPoweroff \subseteq Children
    /\ MaxStarted \in Nat \ {0} /\ MaxClkFails \in Nat

VARIABLES dev,        \* refcount, powerstate, powerstate_down and lock of each module
          leaked      \* bookkeeping: host references left behind by failed clocks

acmVars == <<dev, leaked>>

Mods == Children \cup {Host}

Steps == {"free", "busy", "down_idle", "off_up", "off_save", "off_wait",
          "off_idle", "stop", "off_stop"}

Device == [refcount : Nat, powerstate : {"running", "clockgated", "powergated"},
           pending : BOOLEAN, started : 0 .. MaxStarted,
           at : Steps, by : {"work", "suspend"},
           clkbad : BOOLEAN]      \* bookkeeping: the last clk_enable failed

AcmTypeOK ==
    /\ dev \in [Mods -> Device]
    /\ leaked \in 0 .. MaxClkFails

(* nvhost_module_init *)
AcmInit ==
    /\ dev = [m \in Mods |->
                [refcount |-> 0,
                 powerstate |-> IF m \in CanPowergate THEN "powergated" ELSE "clockgated",
                 pending |-> FALSE, started |-> 0, at |-> "free", by |-> "work",
                 clkbad |-> FALSE]]
    /\ leaked = 0

-----------------------------------------------------------------------------
(* One module's record *)

nvhost_module_powered(d) == d.powerstate = "running"

LockFree(m) == dev[m].at = "free"

(* the holder of the lock goes on to step l, or releases it *)
At(d, l) == [d EXCEPT !.at = l]
Unlock(d) == [d EXCEPT !.at = "free", !.by = "work"]

PoweredOff(d) == [d EXCEPT !.powerstate = "powergated"]

(* schedule_delayed_work of a pending work does nothing *)
schedule_clockgating(d) == [d EXCEPT !.pending = TRUE]
schedule_powergating(m, d) == IF m \in CanPowergate THEN [d EXCEPT !.pending = TRUE] ELSE d

(* cancel_delayed_work does not wait for a handler that has started *)
Cancel(d) == [d EXCEPT !.pending = FALSE]

(* a slip: the clock-gating work is not scheduled *)
Idle_NoKick(d, n) == [d EXCEPT !.refcount = @ - n]

(* nvhost_module_idle_mult *)
Idle(d, n) ==
    LET e == [d EXCEPT !.refcount = @ - n]
    IN  IF e.refcount = 0 /\ nvhost_module_powered(e) THEN schedule_clockgating(e) ELSE e

(* the clocks come on, or one of them fails and the state stays as it is *)
ClocksOn(d, ok) ==
    IF ok THEN [d EXCEPT !.powerstate = "running", !.clkbad = FALSE]
          ELSE [d EXCEPT !.powerstate = "clockgated", !.clkbad = TRUE]

(* nvhost_module_busy of the host: its to_state_running_locked waits for   *)
(* nobody, so that the section is one step.  The host's clocks are taken   *)
(* to start: only those of a client module fail here.                      *)
BusyHost(d) ==
    LET e == [Cancel(d) EXCEPT !.refcount = @ + 1]
    IN  IF e.refcount > 0 /\ ~nvhost_module_powered(e) THEN ClocksOn(e, TRUE) ELSE e

-----------------------------------------------------------------------------
(* Sections of the host *)

(* nvhost_module_busy(host) of a thread that holds no other lock *)
HostBusy ==
    /\ LockFree(Host)
    /\ dev' = [dev EXCEPT ![Host] = BusyHost(@)]
    /\ UNCHANGED leaked

HostIdle ==
    /\ LockFree(Host)
    /\ dev' = [dev EXCEPT ![Host] = Idle(@, 1)]
    /\ UNCHANGED leaked

(* the host's clock-off or power-off, once nvhost_intr_stop has returned *)
GateHost ==
    /\ dev[Host].at \in {"stop", "off_stop"}
    /\ dev' = [dev EXCEPT ![Host] =
                 Unlock(IF @.at = "off_stop" THEN PoweredOff(@)
                        ELSE schedule_powergating(Host, [@ EXCEPT !.powerstate = "clockgated"]))]
    /\ UNCHANGED leaked

-----------------------------------------------------------------------------
(* Sections of a client module *)

(* to_state_running_locked of a module that is down.  The host is made     *)
(* busy, with the module's lock held, then the module's own clocks are     *)
(* started.  When they fail (~ok) the reference to the host stays.  The    *)
(* holder of the lock goes on to l.                                        *)
ToRunning(m, ok, l) ==
    /\ LockFree(Host) /\ (ok \/ leaked < MaxClkFails)
    /\ dev' = [dev EXCEPT ![Host] = BusyHost(@), ![m] = At(ClocksOn(@, ok), l)]
    /\ leaked' = IF ok THEN leaked ELSE leaked + 1

(* nvhost_module_busy: a module that is up is done at once *)
Busy(m) ==
    /\ LockFree(m)
    /\ LET e == [Cancel(dev[m]) EXCEPT !.refcount = @ + 1]
           l == IF e.refcount > 0 /\ ~nvhost_module_powered(e) THEN "busy" ELSE "free"
       IN  dev' = [dev EXCEPT ![m] = At(e, l)]
    /\ UNCHANGED leaked

(* nvhost_module_idle_mult *)
IdleMult(m, n) ==
    /\ LockFree(m)
    /\ dev' = [dev EXCEPT ![m] = Idle(@, n)]
    /\ UNCHANGED leaked

(* to_state_powergated_locked, up to its first wait.  A client module goes *)
(* through its prepare_poweroff with the clocks on; the host has one too   *)
(* (power_off_host) but no parent, and its clocks are taken to start here. *)
PowerOff(m, d, by) ==
    LET e == [d EXCEPT !.by = by]
    IN  IF d.powerstate = "powergated" THEN Unlock(d)
        ELSE IF m = Host THEN At([e EXCEPT !.powerstate = "running"], "off_stop")
        ELSE IF m \in HasPoweroff /\ d.powerstate = "running" THEN At(e, "off_save")
        ELSE IF m \in HasPoweroff THEN At(e, "off_up")
        ELSE IF d.powerstate = "running" THEN At(e, "off_idle")
        ELSE Unlock(PoweredOff(e))

(* clk_disable and nvhost_module_idle of the parent, at the end of a       *)
(* clock-gating (down_idle) or of a power-off (off_idle)                   *)
GateChild(m) ==
    /\ dev[m].at \in {"down_idle", "off_idle"} /\ LockFree(Host)
    /\ dev' = [dev EXCEPT
                 ![Host] = Idle(@, 1),
                 ![m] = Unlock(IF @.at = "off_idle" THEN PoweredOff(@)
                               ELSE schedule_powergating(m, [@ EXCEPT !.powerstate = "clockgated"]))]
    /\ UNCHANGED leaked

(* the module is brought up once more to save its context; its clocks,     *)
(* which ran a moment ago, are taken to start                              *)
OffUp(m) == dev[m].at = "off_up" /\ ToRunning(m, TRUE, "off_save")

(* a slip: the reference to the host is kept *)
AfterPoweroff_KeepsHost(m, d, err) ==
    IF err THEN Unlock(IF d.by = "work" THEN schedule_powergating(m, d) ELSE d)
    ELSE Unlock(PoweredOff(d))

(* prepare_poweroff of module m has returned err: a failure leaves the     *)
(* module running, and is retried by the work but not by a suspend         *)
AfterPoweroff(m, d, err) ==
    IF err THEN Unlock(IF d.by = "work" THEN schedule_powergating(m, d) ELSE d)
    ELSE IF nvhost_module_powered(d) THEN At(d, "off_idle")
    ELSE Unlock(PoweredOff(d))

-----------------------------------------------------------------------------
(* The delayed work *)

(* the timer expires and a worker runs the handler up to mutex_lock *)
WorkStart(m) ==
    /\ dev[m].pending /\ dev[m].started < MaxStarted
    /\ dev' = [dev EXCEPT ![m].pending = FALSE, ![m].started = @ + 1]
    /\ UNCHANGED leaked

(* a slip: the reference count is not tested again under the lock *)
powerstate_down_NoRecheck(m, d) ==
    IF nvhost_module_powered(d) THEN At(d, IF m = Host THEN "stop" ELSE "down_idle")
    ELSE PowerOff(m, d, "work")

(* powerstate_down_handler, up to its first wait *)
powerstate_down(m, d) ==
    IF d.refcount # 0 THEN d
    ELSE IF nvhost_module_powered(d) THEN At(d, IF m = Host THEN "stop" ELSE "down_idle")
    ELSE PowerOff(m, d, "work")

WorkRun(m) ==
    /\ dev[m].started > 0 /\ LockFree(m)
    /\ dev' = [dev EXCEPT ![m] = powerstate_down(m, [dev[m] EXCEPT !.started = @ - 1])]
    /\ UNCHANGED leaked

(* nvhost_module_suspend, once the module was seen idle: the work is       *)
(* cancelled and the module powered off, without a second look at refcount *)
SuspendLocked(m) ==
    /\ LockFree(m)
    /\ dev' = [dev EXCEPT ![m] = PowerOff(m, Cancel(@), "suspend")]
    /\ UNCHANGED leaked

================================================================================
