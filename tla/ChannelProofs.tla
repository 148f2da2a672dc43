------------------------------ MODULE ChannelProofs ------------------------------
(***************************************************************************)
(* Proofs about module Channel, for any number of client modules, files,   *)
(* control files and queued jobs, with and without keep-alive modules,     *)
(* failing clocks and memory shortage.                                     *)
(***************************************************************************)
EXTENDS Channel, FiniteSetTheorems, SequenceTheorems, TLAPS

-----------------------------------------------------------------------------
(* Where the threads are *)

AllPcs == UserPcs \cup SuspendPcs \cup {"awake", "frozen"}

(* A file that is not closed, and no other, is on a client module, a       *)
(* suspend is about a module, and only a keep-alive module is kept.        *)
Places ==
    /\ pc \in [Threads -> AllPcs] /\ on \in [Threads -> Mods \cup {None}]
    /\ pc[Pm] \in SuspendPcs \cup {"awake", "frozen"}
    /\ \A u \in Users : pc[u] \in UserPcs \cup SuspendPcs
    /\ \A u \in Users : pc[u] # "closed" => on[u] \in Children
    /\ pc[Pm] \in SuspendPcs => on[Pm] \in Mods
    /\ \A u \in Users : pc[u] = "closed" => on[u] = None
    /\ \A u \in Users : pc[u] \in {"keep", "keep_up", "unkeep"} => on[u] \in Keepalive

LEMMA PlacesInit == Init => Places
BY ChannelAssumption DEF Init, Places, Threads, AllPcs, UserPcs, SuspendPcs

LEMMA PlacesUser ==
    ASSUME Places, NEW u \in Users, UserStep(u)
    PROVE  Places'
<1> USE ChannelAssumption DEF Places, Threads, AllPcs, UserPcs, SuspendPcs, Mods, Goto
<1>1. CASE \E m \in Children : Open(u, m)
  BY <1>1 DEF Open
<1>2. CASE TakeRef(u)
  BY <1>2 DEF TakeRef, Referenced
<1>3. CASE TakeRefUp(u)
  BY <1>3 DEF TakeRefUp, Referenced
<1>4. CASE LockSubmit(u)
  BY <1>4 DEF LockSubmit
<1>5. CASE SubmitFails(u)
  BY <1>5 DEF SubmitFails
<1>6. CASE DropRef(u)
  BY <1>6 DEF DropRef
<1>7. CASE Push(u)
  BY <1>7 DEF Push
<1>8. CASE Close(u)
  BY <1>8 DEF Close
<1>9. CASE Put(u)
  BY <1>9 DEF Put
<1>10. CASE Stop(u)
  BY <1>10 DEF Stop
<1>11. QED
  BY <1>1, <1>2, <1>3, <1>4, <1>5, <1>6, <1>7, <1>8, <1>9, <1>10 DEF UserStep

LEMMA PlacesSuspend ==
    ASSUME Places, NEW t \in Threads, SuspendStep(t)
    PROVE  Places'
<1> USE ChannelAssumption DEF Places, Threads, AllPcs, UserPcs, SuspendPcs, Mods, Goto
<1>1. CASE SeenIdle(t)
  BY <1>1 DEF SeenIdle
<1>2. CASE SuspendBusy(t)
  BY <1>2 DEF SuspendBusy, Returns
<1>3. CASE SuspendOff(t)
  BY <1>3 DEF SuspendOff
<1>4. CASE SuspendReturns(t)
  BY <1>4 DEF SuspendReturns, Returns
<1>5. QED
  BY <1>1, <1>2, <1>3, <1>4 DEF SuspendStep

LEMMA PlacesNext == Places /\ [Next]_vars => Places'
<1> SUFFICES ASSUME Places, [Next]_vars PROVE Places'
  OBVIOUS
<1>1. CASE UNCHANGED vars
  BY <1>1 DEF vars, userVars, Places
<1>2. CASE \E u \in Users : UserStep(u)
  BY <1>2, PlacesUser
<1>3. CASE \E t \in Threads : SuspendStep(t)
  BY <1>3, PlacesSuspend
<1>4. CASE Freeze \/ \E m \in Mods : PmSuspend(m)
  BY <1>4, ChannelAssumption
  DEF Freeze, PmSuspend, Goto, Places, Threads, AllPcs, UserPcs, SuspendPcs
<1>5. CASE \E k \in Ctrls : CtrlLock(k) \/ CtrlUnlock(k)
  BY <1>5 DEF CtrlLock, CtrlUnlock, userVars, Places
<1>6. CASE \E m \in Children : ChannelStep(m)
  BY <1>6 DEF ChannelStep, Switch, Execute, IrqStart, IrqUpdate, IrqDrop, TdBegin, TdReset,
              OffSave, OffWait, userVars, Places
<1>7. CASE \E m \in Mods : PowerStep(m)
  BY <1>7 DEF PowerStep, userVars, Places
<1>8. QED
  BY <1>1, <1>2, <1>3, <1>4, <1>5, <1>6, <1>7 DEF Next

-----------------------------------------------------------------------------
(* The current context *)

CtxInv == cur_ctx \in [Children -> Users \cup {None}] /\ CtxIsOpen

LEMMA CtxUser ==
    ASSUME Places, CtxInv, NEW u \in Users, UserStep(u)
    PROVE  CtxInv'
<1> USE ChannelAssumption
    DEF Places, CtxInv, CtxIsOpen, Threads, AllPcs, UserPcs, SuspendPcs, Mods, Goto
<1>1. CASE \E m \in Children : Open(u, m)
  BY <1>1 DEF Open
<1>2. CASE TakeRef(u)
  BY <1>2 DEF TakeRef, Referenced
<1>3. CASE TakeRefUp(u)
  BY <1>3 DEF TakeRefUp, Referenced
<1>4. CASE LockSubmit(u)
  BY <1>4 DEF LockSubmit
<1>5. CASE SubmitFails(u)
  BY <1>5 DEF SubmitFails
<1>6. CASE DropRef(u)
  BY <1>6 DEF DropRef
<1>7. CASE Push(u)
  BY <1>7 DEF Push
<1>8. CASE Close(u)
  BY <1>8 DEF Close, ClearCtx
<1>9. CASE Put(u)
  BY <1>9 DEF Put
<1>10. CASE Stop(u)
  BY <1>10 DEF Stop
<1>11. QED
  BY <1>1, <1>2, <1>3, <1>4, <1>5, <1>6, <1>7, <1>8, <1>9, <1>10 DEF UserStep

LEMMA CtxSuspend ==
    ASSUME Places, CtxInv, NEW t \in Threads, SuspendStep(t)
    PROVE  CtxInv'
<1> USE ChannelAssumption
    DEF Places, CtxInv, CtxIsOpen, Threads, AllPcs, UserPcs, SuspendPcs, Mods, Goto
<1>1. CASE SeenIdle(t)
  BY <1>1 DEF SeenIdle
<1>2. CASE SuspendBusy(t)
  BY <1>2 DEF SuspendBusy, Returns
<1>3. CASE SuspendOff(t)
  BY <1>3 DEF SuspendOff
<1>4. CASE SuspendReturns(t)
  BY <1>4 DEF SuspendReturns, Returns
<1>5. QED
  BY <1>1, <1>2, <1>3, <1>4 DEF SuspendStep

LEMMA CtxNext == Places /\ CtxInv /\ [Next]_vars => CtxInv'
<1> SUFFICES ASSUME Places, CtxInv, [Next]_vars PROVE CtxInv'
  OBVIOUS
<1>1. CASE UNCHANGED vars
  BY <1>1 DEF vars, userVars, CtxInv, CtxIsOpen
<1>2. CASE \E u \in Users : UserStep(u)
  BY <1>2, CtxUser
<1>3. CASE \E t \in Threads : SuspendStep(t)
  BY <1>3, CtxSuspend
<1>4. CASE Freeze \/ \E m \in Mods : PmSuspend(m)
  BY <1>4, ChannelAssumption
  DEF Freeze, PmSuspend, Goto, Places, CtxInv, CtxIsOpen, Threads, SuspendPcs
<1>5. CASE \E k \in Ctrls : CtrlLock(k) \/ CtrlUnlock(k)
  BY <1>5 DEF CtrlLock, CtrlUnlock, userVars, CtxInv, CtxIsOpen
<1>6. CASE \E m \in Children : ChannelStep(m)
  <2>1. PICK m \in Children : ChannelStep(m)
    BY <1>6
  <2>2. CASE OffWait(m)
    BY <2>2 DEF OffWait, userVars, CtxInv, CtxIsOpen
  <2>3. CASE ~OffWait(m)
    BY <2>1, <2>3 DEF ChannelStep, Switch, Execute, IrqStart, IrqUpdate, IrqDrop, TdBegin,
                      TdReset, OffSave, userVars, CtxInv, CtxIsOpen
  <2>4. QED
    BY <2>2, <2>3
<1>7. CASE \E m \in Mods : PowerStep(m)
  BY <1>7 DEF PowerStep, userVars, CtxInv, CtxIsOpen
<1>8. QED
  BY <1>1, <1>2, <1>3, <1>4, <1>5, <1>6, <1>7 DEF Next

(* nvhost_putchannel clears cur_ctx under submitlock before anything else  *)
(* of the close, and only a submit of an open file sets it: the context    *)
(* that the next submit or power-off saves is never one that a close has   *)
(* given up, for any number of files and modules.                          *)
THEOREM CtxCorrect == Spec => []CtxIsOpen
<1>1. Init => CtxInv
  BY ChannelAssumption DEF Init, CtxInv, CtxIsOpen
<1>2. CtxInv => CtxIsOpen
  BY DEF CtxInv
<1>3. QED
  BY <1>1, <1>2, PlacesInit, PlacesNext, CtxNext, PTL DEF Spec

-----------------------------------------------------------------------------
(* What the sections of dev->lock do to a module's record *)

DevRec == [refcount : Int, powerstate : {"running", "clockgated", "powergated"},
           pending : BOOLEAN, started : Int, at : Steps, by : {"work", "suspend"},
           clkbad : BOOLEAN]

Up(d) == nvhost_module_powered(d)

(* the clocks are on where the holder of the lock is about to turn them    *)
(* off, and off where it is about to turn them on                          *)
Section(d) ==
    /\ d.at \in {"down_idle", "off_save", "off_wait", "off_idle"} => Up(d)
    /\ d.at \in {"busy", "off_up"} => ~Up(d)

(* e is d after something that touches neither references nor clocks *)
Same(d, e) == e \in DevRec /\ e.refcount = d.refcount /\ (Up(e) <=> Up(d))

LEMMA IdleRec ==
    ASSUME NEW d \in DevRec, NEW n \in Int
    PROVE  /\ Idle(d, n) \in DevRec /\ Idle(d, n).refcount = d.refcount - n
           /\ Idle(d, n).at = d.at /\ Idle(d, n).powerstate = d.powerstate
           /\ Idle(d, n).clkbad = d.clkbad
<1> DEFINE e == [d EXCEPT !.refcount = @ - n]
<1>1. /\ e \in DevRec /\ e.refcount = d.refcount - n /\ e.at = d.at
      /\ e.powerstate = d.powerstate /\ e.clkbad = d.clkbad
  BY DEF DevRec
<1>2. LET f == [e EXCEPT !.pending = TRUE]
      IN  /\ f \in DevRec /\ f.refcount = e.refcount /\ f.at = e.at
          /\ f.powerstate = e.powerstate /\ f.clkbad = e.clkbad
  <2> HIDE DEF e
  <2> QED BY <1>1 DEF DevRec
<1>3. Idle(d, n) \in {e, [e EXCEPT !.pending = TRUE]}
  BY DEF Idle, schedule_clockgating
<1> QED
  <2> HIDE DEF e
  <2> QED BY <1>1, <1>2, <1>3

(* the start of nvhost_module_busy *)
LEMMA CountedRec ==
    ASSUME NEW d \in DevRec
    PROVE  LET e == [Cancel(d) EXCEPT !.refcount = @ + 1]
           IN  /\ Cancel(d) \in DevRec /\ Cancel(d).refcount = d.refcount /\ Cancel(d).at = d.at
               /\ Cancel(d).powerstate = d.powerstate /\ Cancel(d).clkbad = d.clkbad
               /\ e \in DevRec /\ e.refcount = d.refcount + 1 /\ e.at = d.at
               /\ e.powerstate = d.powerstate /\ e.clkbad = d.clkbad
<1>1. /\ Cancel(d) \in DevRec /\ Cancel(d).refcount = d.refcount /\ Cancel(d).at = d.at
      /\ Cancel(d).powerstate = d.powerstate /\ Cancel(d).clkbad = d.clkbad
  BY DEF Cancel, DevRec
<1> QED
  BY <1>1 DEF DevRec

LEMMA BusyRec ==
    ASSUME NEW d \in DevRec
    PROVE  /\ BusyHost(d) \in DevRec /\ BusyHost(d).refcount = d.refcount + 1
           /\ BusyHost(d).at = d.at
<1> DEFINE e == [Cancel(d) EXCEPT !.refcount = @ + 1]
<1>1. e \in DevRec /\ e.refcount = d.refcount + 1 /\ e.at = d.at
  BY CountedRec
<1>2. LET f == ClocksOn(e, TRUE) IN f \in DevRec /\ f.refcount = e.refcount /\ f.at = e.at
  <2> HIDE DEF e
  <2> QED BY <1>1 DEF DevRec, ClocksOn
<1>3. BusyHost(d) \in {e, ClocksOn(e, TRUE)}
  BY DEF BusyHost
<1> QED
  <2> HIDE DEF e
  <2> QED BY <1>1, <1>2, <1>3

LEMMA ClocksRec ==
    ASSUME NEW d \in DevRec, NEW ok \in BOOLEAN, NEW l \in Steps
    PROVE  LET e == At(ClocksOn(d, ok), l)
           IN  /\ e \in DevRec /\ e.refcount = d.refcount /\ e.at = l
               /\ IF ok THEN Up(e) ELSE ~Up(e) /\ e.clkbad
BY DEF ClocksOn, At, DevRec, Up, nvhost_module_powered

LEMMA PowerOffRec ==
    ASSUME NEW m \in Children, NEW d \in DevRec, NEW by \in {"work", "suspend"}
    PROVE  LET e == PowerOff(m, d, by)
           IN  Same(d, e) /\ Section(e) /\ e.at # "busy" /\ e.clkbad = d.clkbad
BY AcmAssumption
DEF PowerOff, Same, Section, DevRec, Up, nvhost_module_powered, At, Unlock, PoweredOff, Steps

LEMMA PowerOffHostRec ==
    ASSUME NEW d \in DevRec, NEW by \in {"work", "suspend"}
    PROVE  PowerOff(Host, d, by) \in DevRec /\ PowerOff(Host, d, by).refcount = d.refcount
BY DEF PowerOff, DevRec, At, Unlock, Steps

LEMMA AfterPoweroffRec ==
    ASSUME NEW m \in Children, NEW d \in DevRec, NEW err \in BOOLEAN
    PROVE  LET e == AfterPoweroff(m, d, err)
           IN  Same(d, e) /\ Section(e) /\ e.at \in {"free", "off_idle"} /\ e.clkbad = d.clkbad
BY DEF AfterPoweroff, Same, Section, DevRec, Up, nvhost_module_powered, At, Unlock, PoweredOff,
       schedule_powergating, Steps

LEMMA GateRec ==
    ASSUME NEW m \in Mods, NEW d \in DevRec
    PROVE  LET off == Unlock(PoweredOff(d))
               gated == Unlock(schedule_powergating(m, [d EXCEPT !.powerstate = "clockgated"]))
           IN  /\ off \in DevRec /\ off.refcount = d.refcount /\ ~Up(off) /\ off.at = "free"
               /\ gated \in DevRec /\ gated.refcount = d.refcount /\ ~Up(gated) /\ gated.at = "free"
               /\ off.clkbad = d.clkbad /\ gated.clkbad = d.clkbad
BY DEF Unlock, PoweredOff, schedule_powergating, DevRec, Up, nvhost_module_powered, Steps

-----------------------------------------------------------------------------
(* References to the host *)

Powered == {m \in Children : nvhost_module_powered(dev[m])}

ParentInv ==
    /\ dev \in [Mods -> DevRec] /\ leaked \in Int /\ holding \subseteq Ctrls
    /\ \A m \in Children : Section(dev[m])
    /\ ParentRefs

LEMMA PoweredFinite ==
    /\ IsFiniteSet(Powered) /\ Cardinality(Powered) \in Nat
    /\ holding \subseteq Ctrls => IsFiniteSet(holding) /\ Cardinality(holding) \in Nat
<1>1. IsFiniteSet(Powered)
  BY AcmAssumption, FS_Subset DEF Powered
<1>2. holding \subseteq Ctrls => IsFiniteSet(holding)
  BY ChannelAssumption, FS_Subset
<1> QED
  BY <1>1, <1>2, FS_CardinalityType

(* a step of one module that leaves the clocks of a client module, and the *)
(* references to the host, as they are                                     *)
LEMMA QuietParent ==
    ASSUME ParentInv, NEW m \in Mods, NEW e \in DevRec,
           dev' = [dev EXCEPT ![m] = e],
           m \in Children => Section(e) /\ (Up(e) <=> Up(dev[m])),
           m = Host => e.refcount = dev[Host].refcount,
           UNCHANGED <<leaked, holding>>
    PROVE  ParentInv'
<1>1. dev' \in [Mods -> DevRec] /\ dev'[m] = e /\ \A k \in Mods \ {m} : dev'[k] = dev[k]
  BY DEF ParentInv
<1>2. Powered' = Powered
  BY <1>1 DEF Powered, Up, Mods
<1>3. dev'[Host].refcount = dev[Host].refcount
  BY <1>1 DEF Mods
<1>4. \A k \in Children : Section(dev'[k])
  BY <1>1 DEF ParentInv, Mods
<1> QED
  BY <1>1, <1>2, <1>3, <1>4 DEF ParentInv, ParentRefs, Powered

LEMMA UpParent ==
    ASSUME ParentInv, NEW m \in Children, NEW ok \in BOOLEAN, NEW l \in {"free", "off_save"},
           ToRunning(m, ok, l), ok \/ l = "free", ~Up(dev[m]), UNCHANGED holding
    PROVE  ParentInv'
<1> DEFINE e == At(ClocksOn(dev[m], ok), l)
<1>1. /\ m \in Mods /\ Host \in Mods /\ m # Host
      /\ dev[m] \in DevRec /\ dev[Host] \in DevRec
  BY AcmAssumption DEF ParentInv, Mods
<1>2. e \in DevRec /\ e.at = l /\ IF ok THEN Up(e) ELSE ~Up(e)
  <2>1. l \in Steps
    BY DEF Steps
  <2> QED
    BY <1>1, <2>1, ClocksRec
<1>3. BusyHost(dev[Host]) \in DevRec /\ BusyHost(dev[Host]).refcount = dev[Host].refcount + 1
  BY <1>1, BusyRec
<1>4. /\ dev' \in [Mods -> DevRec] /\ dev'[m] = e /\ dev'[Host] = BusyHost(dev[Host])
      /\ \A k \in Mods \ {m, Host} : dev'[k] = dev[k]
  <2> HIDE DEF e
  <2>1. dev' = [dev EXCEPT ![Host] = BusyHost(dev[Host]), ![m] = e]
    BY <1>1 DEF ToRunning, ParentInv, e
  <2> QED
    BY <2>1, <1>1, <1>2, <1>3 DEF ParentInv
<1>5. Powered' = IF ok THEN Powered \cup {m} ELSE Powered
  <2> HIDE DEF e
  <2>1. \A c \in Children \ {m} : dev'[c] = dev[c]
    BY <1>4, AcmAssumption DEF Mods
  <2>2. CASE ok
    BY <1>2, <1>4, <2>1, <2>2 DEF Powered, Up, nvhost_module_powered
  <2>3. CASE ~ok
    BY <1>2, <1>4, <2>1, <2>3 DEF Powered, Up, nvhost_module_powered
  <2> QED
    BY <2>2, <2>3
<1>6. m \notin Powered
  BY DEF Powered, Up
<1>7. Cardinality(Powered') = Cardinality(Powered) + (IF ok THEN 1 ELSE 0)
  <2>1. CASE ok
    BY <1>5, <1>6, <2>1, PoweredFinite, FS_AddElement
  <2>2. CASE ~ok
    BY <1>5, <2>2, PoweredFinite
  <2> QED
    BY <2>1, <2>2
<1>8. leaked' = leaked + (IF ok THEN 0 ELSE 1)
  BY DEF ToRunning, ParentInv
<1>9. Section(e)
  BY <1>2 DEF Section
<1>10. ParentRefs'
  BY <1>3, <1>4, <1>7, <1>8, PoweredFinite DEF ParentInv, ParentRefs, Powered
<1> QED
  <2>1. \A k \in Children : Section(dev'[k])
    BY <1>4, <1>9, AcmAssumption DEF ParentInv, Mods
  <2> QED
    BY <1>4, <1>8, <1>10, <2>1 DEF ParentInv

LEMMA GateParent ==
    ASSUME ParentInv, NEW m \in Children, GateChild(m), UNCHANGED holding
    PROVE  ParentInv'
<1>1. /\ m \in Mods /\ Host \in Mods /\ m # Host
      /\ dev[m] \in DevRec /\ dev[Host] \in DevRec
  BY AcmAssumption DEF ParentInv, Mods
<1>2. Idle(dev[Host], 1) \in DevRec /\ Idle(dev[Host], 1).refcount = dev[Host].refcount - 1
  BY <1>1, IdleRec
<1>3. PICK e \in DevRec : /\ ~Up(e) /\ e.at = "free"
                          /\ dev' = [dev EXCEPT ![Host] = Idle(dev[Host], 1), ![m] = e]
  BY <1>1, GateRec DEF GateChild, ParentInv
<1>4. /\ dev' \in [Mods -> DevRec] /\ dev'[m] = e /\ dev'[Host] = Idle(dev[Host], 1)
      /\ \A k \in Mods \ {m, Host} : dev'[k] = dev[k]
  BY <1>1, <1>2, <1>3 DEF ParentInv
<1>5. m \in Powered
  BY DEF Powered, GateChild, ParentInv, Section, Up
<1>6. Powered' = Powered \ {m}
  <2>1. \A c \in Children \ {m} : dev'[c] = dev[c]
    BY <1>4, AcmAssumption DEF Mods
  <2> QED
    BY <1>3, <1>4, <2>1 DEF Powered, Up, nvhost_module_powered
<1>7. Cardinality(Powered') = Cardinality(Powered) - 1
  BY <1>5, <1>6, PoweredFinite, FS_RemoveElement
<1>8. ParentRefs'
  BY <1>2, <1>4, <1>7, PoweredFinite DEF ParentInv, ParentRefs, Powered, GateChild
<1>9. \A k \in Children : Section(dev'[k])
  BY <1>3, <1>4, AcmAssumption DEF ParentInv, Mods, Section
<1> QED
  BY <1>4, <1>8, <1>9 DEF ParentInv, GateChild

LEMMA CtrlParent ==
    ASSUME ParentInv, NEW k \in Ctrls, CtrlLock(k) \/ CtrlUnlock(k)
    PROVE  ParentInv'
<1>1. Host \in Mods /\ dev[Host] \in DevRec
  BY DEF ParentInv, Mods
<1>2. PICK e \in DevRec :
        /\ dev' = [dev EXCEPT ![Host] = e]
        /\ \/ e.refcount = dev[Host].refcount + 1 /\ k \notin holding /\ holding' = holding \cup {k}
           \/ e.refcount = dev[Host].refcount - 1 /\ k \in holding /\ holding' = holding \ {k}
  BY <1>1, BusyRec, IdleRec DEF CtrlLock, CtrlUnlock, HostBusy, HostIdle, ParentInv
<1>3. leaked' = leaked
  BY DEF CtrlLock, CtrlUnlock, HostBusy, HostIdle
<1>4. /\ dev' \in [Mods -> DevRec] /\ dev'[Host] = e
      /\ \A c \in Children : dev'[c] = dev[c]
  BY <1>1, <1>2, AcmAssumption DEF ParentInv, Mods
<1>5. Powered' = Powered
  BY <1>4 DEF Powered
<1>6. holding' \subseteq Ctrls
  BY <1>2 DEF ParentInv
<1>7. \/ e.refcount = dev[Host].refcount + 1 /\ Cardinality(holding') = Cardinality(holding) + 1
      \/ e.refcount = dev[Host].refcount - 1 /\ Cardinality(holding') = Cardinality(holding) - 1
  BY <1>2, PoweredFinite, FS_AddElement, FS_RemoveElement DEF ParentInv
<1>8. ParentRefs'
  <2>1. /\ dev[Host].refcount = Cardinality(holding) + Cardinality(Powered) + leaked
        /\ Cardinality(holding) \in Nat /\ Cardinality(Powered) \in Nat /\ leaked \in Int
    BY PoweredFinite DEF ParentInv, ParentRefs, Powered
  <2>2. dev'[Host].refcount = Cardinality(holding') + Cardinality(Powered) + leaked
    BY <1>4, <1>7, <2>1
  <2> QED
    BY <1>3, <1>5, <2>2 DEF ParentRefs, Powered
<1> QED
  BY <1>3, <1>4, <1>6, <1>8 DEF ParentInv

-----------------------------------------------------------------------------
(* Jobs and completions *)

DoneIn(q) == {i \in DOMAIN q : q[i].stage = 2}
OpenIn(q) == {i \in DOMAIN q : q[i].stage < 2}

IrqRec == [at : {"idle", "update", "drop"}, n : Nat]

(* for queue q, o owed completions, interrupt thread r, teardown or not:   *)
(* the interrupt thread has something to do, and not more than there is,   *)
(* and a teardown has a job to punish                                      *)
JobOK(q, o, r, t) ==
    /\ r.at # "idle" => r.n > 0
    /\ r.at = "update" => r.n <= Cardinality(DoneIn(q)) + o
    /\ t => OpenIn(q) # {}

JobTypes ==
    /\ queue \in [Children -> Seq(Job)] /\ owed \in [Children -> Nat]
    /\ irq \in [Children -> IrqRec] /\ td \subseteq Children

JobInv == JobTypes /\ \A m \in Children : JobOK(queue[m], owed[m], irq[m], m \in td)

LEMMA DoneCount ==
    ASSUME NEW q \in Seq(Job)
    PROVE  /\ IsFiniteSet(DoneIn(q)) /\ Cardinality(DoneIn(q)) \in Nat
           /\ Cardinality(DoneIn(q)) <= Len(q)
           /\ OpenIn(q) # {} => Cardinality(DoneIn(q)) + 1 \in 1 .. Len(q)
<1>1. DOMAIN q = 1 .. Len(q) /\ Len(q) \in Nat
  OBVIOUS
<1>2. IsFiniteSet(1 .. Len(q)) /\ Cardinality(1 .. Len(q)) = Len(q)
  BY <1>1, FS_Interval
<1>3. DoneIn(q) \subseteq 1 .. Len(q)
  BY <1>1 DEF DoneIn
<1>4. /\ IsFiniteSet(DoneIn(q)) /\ Cardinality(DoneIn(q)) \in Nat
      /\ Cardinality(DoneIn(q)) <= Len(q)
      /\ Cardinality(DoneIn(q)) = Len(q) => DoneIn(q) = 1 .. Len(q)
  BY <1>2, <1>3, FS_Subset, FS_CardinalityType
<1>5. OpenIn(q) # {} => DoneIn(q) # 1 .. Len(q)
  BY <1>1 DEF DoneIn, OpenIn
<1> QED
  BY <1>1, <1>4, <1>5

(* only module m's jobs change *)
LEMMA JobFrame ==
    ASSUME JobInv, JobTypes', NEW m \in Children,
           \A k \in Children \ {m} : /\ queue'[k] = queue[k] /\ owed'[k] = owed[k]
                                     /\ irq'[k] = irq[k] /\ (k \in td' => k \in td),
           JobOK(queue'[m], owed'[m], irq'[m], m \in td')
    PROVE  JobInv'
<1>1. \A k \in Children \ {m} : JobOK(queue'[k], owed'[k], irq'[k], k \in td')
  BY DEF JobInv, JobOK
<1> QED
  BY <1>1 DEF JobInv

LEMMA JobPush ==
    ASSUME Places, CtxInv, JobInv, NEW u \in Users, Push(u)
    PROVE  JobInv' /\ on[u] \in Children /\ Len(queue'[on[u]]) = Len(queue[on[u]]) + 1
<1> DEFINE m == on[u]
           q == queue[m]
<1>1. m \in Children
  BY DEF Push, Places
<1>2. q \in Seq(Job)
  BY <1>1 DEF JobInv, JobTypes
<1>3. PICK j \in Job : j.stage = 0 /\ queue' = [queue EXCEPT ![m] = Append(q, j)]
  <2> DEFINE c == cur_ctx[m]
             j == [ctx |-> u, save |-> IF SaveNeeded(u, c) THEN c ELSE None,
                   restore |-> RestoreNeeded(u, c), stage |-> 0]
  <2>1. c \in Users \cup {None}
    BY <1>1 DEF CtxInv
  <2>2. RestoreNeeded(u, c) \in BOOLEAN
    BY DEF RestoreNeeded
  <2>3. j \in Job
    BY <2>1, <2>2 DEF Job
  <2>4. queue' = [queue EXCEPT ![m] = Append(q, j)]
    BY <1>1 DEF Push, JobInv, JobTypes
  <2> QED
    BY <2>3, <2>4
<1>4. UNCHANGED <<owed, irq, td>>
  BY DEF Push
<1> HIDE DEF m, q
<1>5. DoneIn(Append(q, j)) = DoneIn(q)
  BY <1>2, <1>3 DEF DoneIn
<1>6. OpenIn(q) \subseteq OpenIn(Append(q, j))
  BY <1>2, <1>3 DEF OpenIn
<1>7. Append(q, j) \in Seq(Job) /\ Len(Append(q, j)) = Len(q) + 1
  BY <1>2, <1>3
<1>8. JobTypes' /\ queue'[m] = Append(q, j) /\ \A k \in Children \ {m} : queue'[k] = queue[k]
  BY <1>1, <1>3, <1>4, <1>7 DEF JobInv, JobTypes
<1>9. JobOK(queue'[m], owed'[m], irq'[m], m \in td')
  BY <1>1, <1>4, <1>5, <1>6, <1>8 DEF JobInv, JobOK, q
<1>10. JobInv'
  BY <1>1, <1>4, <1>8, <1>9, JobFrame
<1> QED
  BY <1>1, <1>7, <1>8, <1>10 DEF m, q

(* the engine's job is in the queue *)
LEMMA HeadInQueue ==
    ASSUME JobInv, NEW m \in Children, Unfinished(m) # {}
    PROVE  AtHead(m) \in 1 .. Len(queue[m]) /\ AtHead(m) = Cardinality(DoneIn(queue[m])) + 1
<1>1. queue[m] \in Seq(Job)
  BY DEF JobInv, JobTypes
<1>2. OpenIn(queue[m]) # {}
  BY DEF Unfinished, OpenIn
<1>3. AtHead(m) = Cardinality(DoneIn(queue[m])) + 1
  BY DEF AtHead, Done, DoneIn
<1> QED
  BY <1>1, <1>2, <1>3, DoneCount

LEMMA JobEngine ==
    ASSUME JobInv, NEW m \in Children, Switch(m) \/ Execute(m)
    PROVE  JobInv' /\ Len(queue'[m]) = Len(queue[m])
<1> DEFINE q == queue[m]
           h == AtHead(m)
<1>1. q \in Seq(Job) /\ m \notin td /\ UNCHANGED <<owed, irq, td>>
  BY DEF Switch, Execute, CanExecute, JobInv, JobTypes
<1>2. h \in 1 .. Len(q) /\ q[h] \in Job
  BY <1>1, HeadInQueue DEF Switch, Execute, CanExecute
<1>3. PICK n \in {1, 2} : q[h].stage = n - 1 /\ queue' = [queue EXCEPT ![m][h].stage = n]
  BY DEF Switch, Execute, SetStage
<1> DEFINE p == [q EXCEPT ![h].stage = n]
<1>4. queue' = [queue EXCEPT ![m] = p]
  BY <1>3 DEF JobInv, JobTypes
<1> HIDE DEF q, h
<1>5. p \in Seq(Job) /\ Len(p) = Len(q) /\ DOMAIN p = DOMAIN q /\ DoneIn(q) \subseteq DoneIn(p)
  <2>1. [q[h] EXCEPT !.stage = n] \in Job /\ [q[h] EXCEPT !.stage = n].stage = n
    BY <1>2 DEF Job
  <2>2. p = [q EXCEPT ![h] = [q[h] EXCEPT !.stage = n]]
    OBVIOUS
  <2>3. p \in Seq(Job) /\ Len(p) = Len(q) /\ DOMAIN p = DOMAIN q
    BY <1>1, <1>2, <2>1, <2>2
  <2>4. q[h].stage < 2
    BY <1>3
  <2> QED
    BY <2>1, <2>2, <2>3, <2>4, <1>2 DEF DoneIn
<1> HIDE DEF p
<1>6. Cardinality(DoneIn(q)) <= Cardinality(DoneIn(p))
  BY <1>5, DoneCount, FS_Subset
<1>7. JobTypes' /\ queue'[m] = p /\ \A k \in Children \ {m} : queue'[k] = queue[k]
  BY <1>1, <1>4, <1>5 DEF JobInv, JobTypes
<1>8. /\ Cardinality(DoneIn(q)) \in Nat /\ Cardinality(DoneIn(p)) \in Nat
      /\ owed[m] \in Nat /\ irq[m].n \in Nat
  BY <1>1, <1>5, DoneCount DEF JobInv, JobTypes, IrqRec
<1>9. JobOK(queue'[m], owed'[m], irq'[m], m \in td')
  BY <1>1, <1>6, <1>7, <1>8 DEF JobInv, JobOK, q
<1>10. JobInv'
  BY <1>1, <1>7, <1>9, JobFrame
<1> QED
  BY <1>5, <1>7, <1>10 DEF q

LEMMA JobIrq ==
    ASSUME JobInv, NEW m \in Children, IrqStart(m) \/ IrqDrop(m) \/ TdBegin(m)
    PROVE  JobInv' /\ queue' = queue /\ owed' = owed
<1>1. /\ queue[m] \in Seq(Job) /\ owed[m] \in Nat /\ irq[m] \in IrqRec
      /\ Done(m) = DoneIn(queue[m]) /\ Unfinished(m) = OpenIn(queue[m])
      /\ Cardinality(DoneIn(queue[m])) \in Nat
  BY DoneCount DEF JobInv, JobTypes, Done, DoneIn, Unfinished, OpenIn
<1>2. UNCHANGED <<queue, owed>>
  BY DEF IrqStart, IrqDrop, TdBegin
<1>3. CASE IrqStart(m)
  <2> DEFINE n == Cardinality(DoneIn(queue[m])) + owed[m]
             r == [at |-> "update", n |-> n]
  <2>1. irq' = [irq EXCEPT ![m] = r] /\ n > 0
    BY <1>1, <1>3 DEF IrqStart
  <2>2. JobTypes' /\ td' = td /\ irq'[m] = r /\ \A k \in Children \ {m} : irq'[k] = irq[k]
    BY <1>1, <1>2, <1>3, <2>1 DEF IrqStart, JobInv, JobTypes, IrqRec
  <2>3. JobOK(queue'[m], owed'[m], irq'[m], m \in td')
    BY <1>1, <1>2, <2>1, <2>2 DEF JobInv, JobOK
  <2> QED
    BY <1>2, <2>2, <2>3, JobFrame
<1>4. CASE IrqDrop(m)
  <2>1. irq' = [irq EXCEPT ![m] = [at |-> "idle", n |-> 0]] /\ td' = td
    BY <1>4 DEF IrqDrop
  <2>2. JobTypes' /\ irq'[m].at = "idle" /\ \A k \in Children \ {m} : irq'[k] = irq[k]
    BY <1>2, <2>1 DEF JobInv, JobTypes, IrqRec
  <2>3. JobOK(queue'[m], owed'[m], irq'[m], m \in td')
    BY <1>2, <2>1, <2>2 DEF JobInv, JobOK
  <2> QED
    BY <1>2, <2>1, <2>2, <2>3, JobFrame
<1>5. CASE TdBegin(m)
  <2>1. td' = td \cup {m} /\ irq' = irq /\ OpenIn(queue[m]) # {}
    BY <1>1, <1>5 DEF TdBegin
  <2>2. JobTypes'
    BY <1>2, <2>1 DEF JobInv, JobTypes
  <2>3. JobOK(queue'[m], owed'[m], irq'[m], m \in td')
    BY <1>2, <2>1 DEF JobInv, JobOK
  <2> QED
    BY <1>2, <2>1, <2>2, <2>3, JobFrame
<1> QED
  BY <1>3, <1>4, <1>5

(* the completed jobs leave the queue and their references change hands *)
LEMMA JobUpdate ==
    ASSUME JobInv, NEW m \in Children, IrqUpdate(m)
    PROVE  /\ JobInv' /\ irq'[m].n = irq[m].n /\ irq[m].at = "update" /\ irq'[m].at = "drop"
           /\ Len(queue'[m]) + owed'[m] + irq[m].n = Len(queue[m]) + owed[m]
           /\ \A k \in Children \ {m} :
                queue'[k] = queue[k] /\ owed'[k] = owed[k] /\ irq'[k] = irq[k]
<1> DEFINE q == queue[m]
           d == Cardinality(DoneIn(q))
           p == SubSeq(q, d + 1, Len(q))
<1>1. /\ q \in Seq(Job) /\ owed[m] \in Nat /\ irq[m] \in IrqRec /\ d \in Nat /\ d <= Len(q)
      /\ Done(m) = DoneIn(q) /\ AtHead(m) = d + 1
  BY DoneCount DEF JobInv, JobTypes, Done, DoneIn, AtHead
<1>2. /\ queue' = [queue EXCEPT ![m] = p] /\ owed' = [owed EXCEPT ![m] = owed[m] + d - irq[m].n]
      /\ irq' = [irq EXCEPT ![m].at = "drop"] /\ td' = td /\ m \notin td /\ irq[m].at = "update"
  BY <1>1 DEF IrqUpdate, CdmaLockFree, JobInv, JobTypes
<1>3. irq[m].n > 0 /\ irq[m].n <= d + owed[m]
  BY <1>2 DEF JobInv, JobOK
<1>4. p \in Seq(Job) /\ Len(p) = Len(q) - d
  <2>1. d + 1 \in 1 .. Len(q) + 1 /\ Len(q) \in d .. Len(q)
    BY <1>1
  <2> QED
    <3> HIDE DEF q, d
    <3> QED BY <1>1, <2>1, SubSeqProperties
<1> HIDE DEF q, d, p
<1>5. owed[m] + d - irq[m].n \in Nat
  BY <1>1, <1>3 DEF IrqRec
<1>6. /\ JobTypes' /\ queue'[m] = p /\ owed'[m] = owed[m] + d - irq[m].n
      /\ irq'[m].at = "drop" /\ irq'[m].n = irq[m].n
      /\ \A k \in Children \ {m} :
            queue'[k] = queue[k] /\ owed'[k] = owed[k] /\ irq'[k] = irq[k]
  BY <1>2, <1>4, <1>5 DEF JobInv, JobTypes, IrqRec
<1>7. JobOK(queue'[m], owed'[m], irq'[m], m \in td')
  BY <1>2, <1>3, <1>6 DEF JobOK
<1>8. JobInv'
  BY <1>2, <1>6, <1>7, JobFrame
<1>9. Len(p) + (owed[m] + d - irq[m].n) + irq[m].n = Len(q) + owed[m]
  BY <1>1, <1>4 DEF IrqRec
<1> QED
  BY <1>2, <1>6, <1>8, <1>9 DEF q

LEMMA JobReset ==
    ASSUME JobInv, NEW m \in Children, TdReset(m)
    PROVE  JobInv' /\ Len(queue'[m]) = Len(queue[m])
<1> DEFINE q == queue[m]
<1>1. q \in Seq(Job) /\ UNCHANGED <<owed, irq>> /\ td' = td \ {m}
  BY DEF TdReset, JobInv, JobTypes
<1>2. PICK gone : queue' = [queue EXCEPT ![m] =
                    [i \in DOMAIN q |-> IF i \in gone THEN [q[i] EXCEPT !.stage = 2] ELSE q[i]]]
  BY DEF TdReset, JobInv, JobTypes
<1> DEFINE p == [i \in DOMAIN q |-> IF i \in gone THEN [q[i] EXCEPT !.stage = 2] ELSE q[i]]
<1> HIDE DEF q
<1>3. DOMAIN q = 1 .. Len(q) /\ Len(q) \in Nat /\ \A i \in DOMAIN q : q[i] \in Job
  BY <1>1
<1>4. \A i \in DOMAIN q : p[i] \in Job /\ (q[i].stage = 2 => p[i].stage = 2)
  BY <1>3 DEF Job
<1>5. p \in Seq(Job) /\ Len(p) = Len(q) /\ DOMAIN p = DOMAIN q
  <2>1. p = [i \in 1 .. Len(q) |-> p[i]]
    BY <1>3
  <2> HIDE DEF p
  <2> QED
    BY <1>3, <1>4, <2>1
<1>6. DoneIn(q) \subseteq DoneIn(p)
  <2> HIDE DEF p
  <2> QED BY <1>4, <1>5 DEF DoneIn
<1>7. queue' = [queue EXCEPT ![m] = p]
  BY <1>2
<1> HIDE DEF p
<1>8. Cardinality(DoneIn(q)) <= Cardinality(DoneIn(p))
  BY <1>5, <1>6, DoneCount, FS_Subset
<1>9. JobTypes' /\ queue'[m] = p /\ \A k \in Children \ {m} : queue'[k] = queue[k]
  BY <1>1, <1>5, <1>7 DEF JobInv, JobTypes
<1>10. /\ Cardinality(DoneIn(q)) \in Nat /\ Cardinality(DoneIn(p)) \in Nat
       /\ owed[m] \in Nat /\ irq[m].n \in Nat
  BY <1>1, <1>5, DoneCount DEF JobInv, JobTypes, IrqRec
<1>11. JobOK(queue'[m], owed'[m], irq'[m], m \in td')
  BY <1>1, <1>8, <1>9, <1>10 DEF JobInv, JobOK, q
<1>12. JobInv'
  BY <1>1, <1>9, <1>11, JobFrame
<1> QED
  BY <1>5, <1>9, <1>12 DEF q

LEMMA JobInit == Init => JobInv
<1> SUFFICES ASSUME Init PROVE JobInv
  OBVIOUS
<1>1. JobTypes
  BY DEF Init, JobTypes, IrqRec
<1>2. \A m \in Children : JobOK(queue[m], owed[m], irq[m], m \in td)
  BY DEF Init, JobOK
<1> QED
  BY <1>1, <1>2 DEF JobInv

LEMMA JobSame == JobInv /\ UNCHANGED jobVars => JobInv'
BY DEF JobInv, JobTypes, jobVars

LEMMA JobNext == Places /\ CtxInv /\ JobInv /\ [Next]_vars => JobInv'
<1> SUFFICES ASSUME Places, CtxInv, JobInv, [Next]_vars PROVE JobInv'
  OBVIOUS
<1>1. CASE UNCHANGED vars
  BY <1>1, JobSame DEF vars
<1>2. CASE \E u \in Users : UserStep(u)
  <2>1. PICK u \in Users : UserStep(u)
    BY <1>2
  <2>2. CASE Push(u)
    BY <2>2, JobPush
  <2>3. CASE ~Push(u)
    BY <2>1, <2>3, JobSame
    DEF UserStep, Open, TakeRef, TakeRefUp, LockSubmit, SubmitFails, DropRef, Close, Put, Stop
  <2> QED
    BY <2>2, <2>3
<1>3. CASE \E t \in Threads : SuspendStep(t)
  BY <1>3, JobSame DEF SuspendStep, SeenIdle, SuspendBusy, SuspendOff, SuspendReturns
<1>4. CASE Freeze \/ \E m \in Mods : PmSuspend(m)
  BY <1>4, JobSame DEF Freeze, PmSuspend
<1>5. CASE \E k \in Ctrls : CtrlLock(k) \/ CtrlUnlock(k)
  BY <1>5, JobSame DEF CtrlLock, CtrlUnlock
<1>6. CASE \E m \in Children : ChannelStep(m)
  BY <1>6, JobEngine, JobIrq, JobUpdate, JobReset, JobSame DEF ChannelStep, OffSave, OffWait
<1>7. CASE \E m \in Mods : PowerStep(m)
  BY <1>7, JobSame DEF PowerStep
<1> QED
  BY <1>1, <1>2, <1>3, <1>4, <1>5, <1>6, <1>7 DEF Next

-----------------------------------------------------------------------------
(* The host's references are exact *)

LEMMA ParentSame == ParentInv /\ UNCHANGED <<acmVars, holding>> => ParentInv'
BY DEF ParentInv, ParentRefs, acmVars

(* nvhost_module_busy of a client module, up to its wait for the host *)
LEMMA BusyParent ==
    ASSUME ParentInv, NEW m \in Children, Busy(m), UNCHANGED holding
    PROVE  ParentInv'
<1> DEFINE e == [Cancel(dev[m]) EXCEPT !.refcount = @ + 1]
           l == IF e.refcount > 0 /\ ~nvhost_module_powered(e) THEN "busy" ELSE "free"
<1>1. m \in Mods /\ dev[m] \in DevRec /\ m # Host
  BY AcmAssumption DEF ParentInv, Mods
<1>2. e \in DevRec /\ e.powerstate = dev[m].powerstate
  BY <1>1, CountedRec
<1>3. dev' = [dev EXCEPT ![m] = At(e, l)] /\ leaked' = leaked
  BY DEF Busy
<1> HIDE DEF e
<1>4. At(e, l) \in DevRec /\ At(e, l).powerstate = e.powerstate /\ At(e, l).at = l
  BY <1>2 DEF At, DevRec, Steps
<1>5. Section(At(e, l)) /\ (Up(At(e, l)) <=> Up(dev[m]))
  <2>1. l = "free" \/ (l = "busy" /\ ~nvhost_module_powered(e))
    OBVIOUS
  <2> HIDE DEF l
  <2>2. Up(At(e, l)) <=> Up(dev[m])
    BY <1>2, <1>4 DEF Up, nvhost_module_powered
  <2>3. l = "busy" => ~Up(At(e, l))
    BY <1>4, <2>1 DEF Up, nvhost_module_powered
  <2> QED BY <1>4, <2>1, <2>2, <2>3 DEF Section
<1> QED
  BY <1>1, <1>3, <1>4, <1>5, QuietParent

LEMMA IdleParent ==
    ASSUME ParentInv, NEW m \in Children, NEW n \in Int, IdleMult(m, n), UNCHANGED holding
    PROVE  ParentInv'
<1>1. m \in Mods /\ dev[m] \in DevRec /\ m # Host /\ Section(dev[m])
  BY AcmAssumption DEF ParentInv, Mods
<1>2. /\ Idle(dev[m], n) \in DevRec /\ Section(Idle(dev[m], n))
      /\ (Up(Idle(dev[m], n)) <=> Up(dev[m]))
  BY <1>1, IdleRec DEF Section, Up, nvhost_module_powered
<1>3. dev' = [dev EXCEPT ![m] = Idle(dev[m], n)] /\ leaked' = leaked
  BY DEF IdleMult
<1> QED
  BY <1>1, <1>2, <1>3, QuietParent

(* the delayed work of any module *)
LEMMA WorkParent ==
    ASSUME ParentInv, NEW m \in Mods, WorkStart(m) \/ WorkRun(m), UNCHANGED holding
    PROVE  ParentInv'
<1>1. dev[m] \in DevRec /\ leaked' = leaked /\ (m \in Children => Section(dev[m]))
  BY DEF ParentInv, WorkStart, WorkRun
<1>2. CASE WorkStart(m)
  <2> DEFINE d == [dev[m] EXCEPT !.pending = FALSE]
             e == [d EXCEPT !.started = d.started + 1]
  <2>1. dev' = [dev EXCEPT ![m] = e]
    BY <1>2 DEF WorkStart, ParentInv
  <2>2. /\ d \in DevRec /\ d.refcount = dev[m].refcount /\ d.at = dev[m].at
        /\ d.powerstate = dev[m].powerstate
    BY <1>1 DEF DevRec
  <2>4. /\ e \in DevRec /\ e.refcount = dev[m].refcount /\ e.at = dev[m].at
        /\ e.powerstate = dev[m].powerstate
    <3> HIDE DEF d
    <3> QED BY <2>2 DEF DevRec
  <2> HIDE DEF e
  <2>3. m \in Children => Section(e) /\ (Up(e) <=> Up(dev[m]))
    BY <1>1, <2>4 DEF Section, Up, nvhost_module_powered
  <2> QED
    BY <1>1, <2>1, <2>3, <2>4, QuietParent DEF WorkStart
<1>3. CASE WorkRun(m)
  <2> DEFINE d == [dev[m] EXCEPT !.started = @ - 1]
             e == powerstate_down(m, d)
  <2>1. dev' = [dev EXCEPT ![m] = e] /\ dev[m].at = "free"
    BY <1>3, Zenon DEF WorkRun, LockFree
  <2>2. /\ d \in DevRec /\ d.refcount = dev[m].refcount /\ d.at = "free"
        /\ d.powerstate = dev[m].powerstate
    BY <1>1, <2>1 DEF DevRec
  <2> HIDE DEF d
  <2>3. Same(d, d) /\ Section(d)
    BY <2>2 DEF Same, Section
  <2>4. CASE m = Host
    <3>1. PowerOff(m, d, "work") \in DevRec /\ PowerOff(m, d, "work").refcount = d.refcount
      BY <2>2, <2>4, PowerOffHostRec
    <3>2. At(d, "stop") \in DevRec /\ At(d, "stop").refcount = d.refcount
      BY <2>2 DEF At, DevRec, Steps
    <3>3. e \in {d, At(d, "stop"), PowerOff(m, d, "work")}
      BY <2>4 DEF powerstate_down
    <3>4. e \in DevRec /\ e.refcount = d.refcount
      <4> HIDE DEF e
      <4> QED BY <2>2, <3>1, <3>2, <3>3
    <3> QED
      BY <2>1, <2>2, <2>4, <3>4, <1>1, AcmAssumption, QuietParent
  <2>5. CASE m \in Children
    <3>1. Same(d, PowerOff(m, d, "work")) /\ Section(PowerOff(m, d, "work"))
      BY <2>2, <2>5, PowerOffRec
    <3>2. Up(d) => Same(d, At(d, "down_idle")) /\ Section(At(d, "down_idle"))
      BY <2>2 DEF At, DevRec, Steps, Same, Section, Up, nvhost_module_powered
    <3>3. \/ e = d \/ e = PowerOff(m, d, "work")
          \/ Up(d) /\ e = At(d, "down_idle")
      BY <2>5, AcmAssumption DEF powerstate_down, Up
    <3>4. Same(d, e) /\ Section(e)
      <4> HIDE DEF e
      <4> QED BY <2>3, <3>1, <3>2, <3>3
    <3>5. e \in DevRec /\ (Up(e) <=> Up(dev[m]))
      <4> HIDE DEF e
      <4> QED BY <2>2, <3>4 DEF Same, Up, nvhost_module_powered
    <3> QED
      BY <2>1, <2>5, <3>4, <3>5, <1>1, AcmAssumption, QuietParent
  <2> QED
    BY <2>4, <2>5 DEF Mods
<1> QED
  BY <1>2, <1>3

LEMMA SuspendParent ==
    ASSUME ParentInv, NEW m \in Mods, SuspendLocked(m), UNCHANGED holding
    PROVE  ParentInv'
<1> DEFINE d == Cancel(dev[m])
           e == PowerOff(m, d, "suspend")
<1>1. /\ dev[m] \in DevRec /\ leaked' = leaked /\ dev' = [dev EXCEPT ![m] = e]
  BY DEF ParentInv, SuspendLocked
<1>2. d \in DevRec /\ d.refcount = dev[m].refcount /\ d.powerstate = dev[m].powerstate
  BY <1>1, CountedRec
<1> HIDE DEF d
<1>3. m = Host => e \in DevRec /\ e.refcount = d.refcount
  BY <1>2, PowerOffHostRec
<1>4. m \in Children => Same(d, e) /\ Section(e)
  BY <1>2, PowerOffRec
<1> HIDE DEF e
<1>5. e \in DevRec /\ (m \in Children => Section(e) /\ (Up(e) <=> Up(dev[m])))
  BY <1>2, <1>3, <1>4 DEF Same, Mods, Up, nvhost_module_powered
<1> QED
  BY <1>1, <1>2, <1>3, <1>5, AcmAssumption, QuietParent

(* the ends of prepare_poweroff *)
LEMMA OffParent ==
    ASSUME ParentInv, NEW m \in Children, OffSave(m) \/ OffWait(m)
    PROVE  ParentInv'
<1>1. m \in Mods /\ dev[m] \in DevRec /\ m # Host /\ Section(dev[m])
  BY AcmAssumption DEF ParentInv, Mods
<1>2. dev[m].at \in {"off_save", "off_wait"} /\ UNCHANGED <<leaked, holding>>
  BY DEF OffSave, OffWait
<1>3. \A err \in BOOLEAN : /\ Same(dev[m], AfterPoweroff(m, dev[m], err))
                           /\ Section(AfterPoweroff(m, dev[m], err))
  BY <1>1, AfterPoweroffRec
<1>4. Same(dev[m], At(dev[m], "off_wait")) /\ Section(At(dev[m], "off_wait"))
  BY <1>1, <1>2 DEF At, DevRec, Steps, Same, Section, Up, nvhost_module_powered
<1>5. PICK e : dev' = [dev EXCEPT ![m] = e] /\ Same(dev[m], e) /\ Section(e)
  BY <1>3, <1>4 DEF OffSave, OffWait
<1> QED
  BY <1>1, <1>2, <1>5, QuietParent DEF Same

LEMMA GateHostParent ==
    ASSUME ParentInv, GateHost, UNCHANGED holding
    PROVE  ParentInv'
<1>1. Host \in Mods /\ dev[Host] \in DevRec /\ leaked' = leaked
  BY DEF ParentInv, Mods, GateHost
<1>2. PICK e \in DevRec : dev' = [dev EXCEPT ![Host] = e] /\ e.refcount = dev[Host].refcount
  BY <1>1, GateRec DEF GateHost
<1> QED
  BY <1>1, <1>2, AcmAssumption, QuietParent

LEMMA ParentNext == Places /\ JobInv /\ ParentInv /\ [Next]_vars => ParentInv'
<1> SUFFICES ASSUME Places, JobInv, ParentInv, [Next]_vars PROVE ParentInv'
  OBVIOUS
<1>1. CASE UNCHANGED vars
  BY <1>1, ParentSame DEF vars
<1>2. CASE \E u \in Users : UserStep(u)
  <2>1. PICK u \in Users : UserStep(u)
    BY <1>2
  <2>2. CASE TakeRef(u)
    BY <2>2, BusyParent DEF TakeRef, Places
  <2>3. CASE TakeRefUp(u)
    <3>1. on[u] \in Children /\ dev[on[u]].at = "busy" /\ UNCHANGED holding
      BY <2>3 DEF TakeRefUp, Places
    <3>2. ~Up(dev[on[u]])
      BY <3>1 DEF ParentInv, Section
    <3> QED
      BY <2>3, <3>1, <3>2, UpParent DEF TakeRefUp
  <2>4. CASE DropRef(u)
    BY <2>4, IdleParent DEF DropRef, Places
  <2>5. CASE ~(TakeRef(u) \/ TakeRefUp(u) \/ DropRef(u))
    BY <2>1, <2>5, ParentSame DEF UserStep, Open, LockSubmit, SubmitFails, Push, Close, Put, Stop
  <2> QED
    BY <2>2, <2>3, <2>4, <2>5
<1>3. CASE \E t \in Threads : SuspendStep(t)
  <2>1. PICK t \in Threads : SuspendStep(t)
    BY <1>3
  <2>2. CASE SuspendOff(t)
    <3>1. on[t] \in Mods
      BY <2>2 DEF SuspendOff, Places, Threads, Mods, SuspendPcs
    <3> QED
      BY <2>2, <3>1, SuspendParent DEF SuspendOff
  <2>3. CASE ~SuspendOff(t)
    BY <2>1, <2>3, ParentSame DEF SuspendStep, SeenIdle, SuspendBusy, SuspendReturns
  <2> QED
    BY <2>2, <2>3
<1>4. CASE Freeze \/ \E m \in Mods : PmSuspend(m)
  BY <1>4, ParentSame DEF Freeze, PmSuspend
<1>5. CASE \E k \in Ctrls : CtrlLock(k) \/ CtrlUnlock(k)
  BY <1>5, CtrlParent
<1>6. CASE \E m \in Children : ChannelStep(m)
  <2>1. PICK m \in Children : ChannelStep(m)
    BY <1>6
  <2>2. CASE IrqDrop(m)
    BY <2>2, IdleParent DEF IrqDrop, JobInv, JobTypes, IrqRec
  <2>3. CASE OffSave(m) \/ OffWait(m)
    BY <2>3, OffParent
  <2>4. CASE ~(IrqDrop(m) \/ OffSave(m) \/ OffWait(m))
    BY <2>1, <2>4, ParentSame
    DEF ChannelStep, Switch, Execute, IrqStart, IrqUpdate, TdBegin, TdReset
  <2> QED
    BY <2>2, <2>3, <2>4
<1>7. CASE \E m \in Mods : PowerStep(m)
  <2>1. PICK m \in Mods : PowerStep(m)
    BY <1>7
  <2>2. UNCHANGED holding
    BY <2>1 DEF PowerStep
  <2>3. CASE WorkStart(m) \/ WorkRun(m)
    BY <2>2, <2>3, WorkParent
  <2>4. CASE m \in Children /\ GateChild(m)
    BY <2>2, <2>4, GateParent
  <2>5. CASE m \in Children /\ OffUp(m)
    <3>1. ~Up(dev[m]) /\ ToRunning(m, TRUE, "off_save")
      BY <2>5 DEF OffUp, ParentInv, Section
    <3> QED
      BY <2>2, <2>5, <3>1, UpParent
  <2>6. CASE m = Host /\ GateHost
    BY <2>2, <2>6, GateHostParent
  <2> QED
    BY <2>1, <2>3, <2>4, <2>5, <2>6 DEF PowerStep
<1> QED
  BY <1>1, <1>2, <1>3, <1>4, <1>5, <1>6, <1>7 DEF Next

LEMMA ParentInit == Init => ParentInv
<1> SUFFICES ASSUME Init PROVE ParentInv
  OBVIOUS
<1>1. dev \in [Mods -> DevRec] /\ leaked = 0 /\ holding = {}
  BY DEF Init, AcmInit, DevRec, Steps
<1>2. \A m \in Children : Section(dev[m])
  BY DEF Init, AcmInit, Section, Mods
<1>3. Powered = {} /\ dev[Host].refcount = 0
  BY DEF Init, AcmInit, Powered, nvhost_module_powered, Mods
<1>4. ParentRefs
  BY <1>1, <1>3, FS_EmptySet DEF ParentRefs, Powered
<1> QED
  BY <1>1, <1>2, <1>4 DEF ParentInv

(* Every nvhost_module_busy of the parent is paired with one               *)
(* nvhost_module_idle: the host's reference count is the number of client  *)
(* modules with their clocks on, plus the module mutexes held, plus one    *)
(* for each clk_enable that failed, for any number of modules, files and   *)
(* failures, through clock gating, power gating, context saves, retries    *)
(* and suspends.                                                           *)
THEOREM ParentRefsCorrect == Spec => []ParentRefs
<1>1. Init => CtxInv
  BY ChannelAssumption DEF Init, CtxInv, CtxIsOpen
<1>2. ParentInv => ParentRefs
  BY DEF ParentInv
<1> QED
  BY <1>1, <1>2, PlacesInit, PlacesNext, CtxNext, JobInit, JobNext, ParentInit, ParentNext, PTL
  DEF Spec

-----------------------------------------------------------------------------
(* The references to a client module are exact *)

JobSum(q, o, r) == Len(q) + o + (IF r.at = "drop" THEN r.n ELSE 0)
RefSum(s, k, q, o, r) == s + k + Len(q) + o + (IF r.at = "drop" THEN r.n ELSE 0)

JobRefs(m) == JobSum(queue[m], owed[m], irq[m])

One(b) == IF b THEN 1 ELSE 0

LEMMA RefsFinite ==
    ASSUME NEW m \in Children
    PROVE  /\ IsFiniteSet(SubmitRefs(m)) /\ Cardinality(SubmitRefs(m)) \in Nat
           /\ IsFiniteSet(KeepRefs(m)) /\ Cardinality(KeepRefs(m)) \in Nat
<1>1. IsFiniteSet(SubmitRefs(m)) /\ IsFiniteSet(KeepRefs(m))
  BY ChannelAssumption, FS_Subset DEF SubmitRefs, KeepRefs
<1> QED
  BY <1>1, FS_CardinalityType

(* a set that differs from another in u only *)
LEMMA MoveOne ==
    ASSUME NEW S, NEW T, NEW u, IsFiniteSet(S), IsFiniteSet(T), S \ {u} = T \ {u}
    PROVE  Cardinality(T) = Cardinality(S) + One(u \in T) - One(u \in S)
<1>1. Cardinality(S) \in Nat /\ Cardinality(T) \in Nat
  BY FS_CardinalityType
<1>2. Cardinality(S \ {u}) = Cardinality(S) - One(u \in S)
  BY <1>1, FS_RemoveElement DEF One
<1>3. Cardinality(T \ {u}) = Cardinality(T) - One(u \in T)
  BY <1>1, FS_RemoveElement DEF One
<1> QED
  BY <1>1, <1>2, <1>3 DEF One

(* the sum of ChildRefs *)
LEMMA RefsSum ==
    ASSUME NEW s \in Nat, NEW k \in Nat, NEW q \in Seq(Job), NEW o \in Nat, NEW r \in IrqRec
    PROVE  JobSum(q, o, r) \in Nat /\ RefSum(s, k, q, o, r) = s + k + JobSum(q, o, r)
BY DEF IrqRec, JobSum, RefSum

(* a step of u's changes the references to module m by those of u and of   *)
(* the module's jobs                                                       *)
LEMMA MoveRefs ==
    ASSUME JobTypes, JobTypes', ParentInv, ParentInv', ChildRefs, NEW u \in Users,
           \A v \in Users \ {u} : pc'[v] = pc[v] /\ on'[v] = on[v],
           \A m \in Children :
              dev'[m].refcount = dev[m].refcount + JobRefs(m)' - JobRefs(m)
                   + One(u \in SubmitRefs(m)') - One(u \in SubmitRefs(m))
                   + One(u \in KeepRefs(m)') - One(u \in KeepRefs(m))
    PROVE  ChildRefs'
<1> SUFFICES ASSUME NEW m \in Children
             PROVE  dev'[m].refcount =
                      RefSum(Cardinality(SubmitRefs(m)'), Cardinality(KeepRefs(m)'),
                             queue'[m], owed'[m], irq'[m])
  BY DEF ChildRefs, RefSum
<1>1. SubmitRefs(m) \ {u} = SubmitRefs(m)' \ {u}
  BY DEF SubmitRefs
<1>2. KeepRefs(m) \ {u} = KeepRefs(m)' \ {u}
  BY DEF KeepRefs
<1>3. /\ IsFiniteSet(SubmitRefs(m)') /\ Cardinality(SubmitRefs(m)') \in Nat
      /\ IsFiniteSet(KeepRefs(m)') /\ Cardinality(KeepRefs(m)') \in Nat
  <2>1. IsFiniteSet(SubmitRefs(m)') /\ IsFiniteSet(KeepRefs(m)')
    BY ChannelAssumption, FS_Subset DEF SubmitRefs, KeepRefs
  <2> QED
    BY <2>1, FS_CardinalityType
<1>4. Cardinality(SubmitRefs(m)') = Cardinality(SubmitRefs(m)) + One(u \in SubmitRefs(m)') - One(u \in SubmitRefs(m))
  BY <1>1, <1>3, RefsFinite, MoveOne
<1>5. Cardinality(KeepRefs(m)') = Cardinality(KeepRefs(m)) + One(u \in KeepRefs(m)') - One(u \in KeepRefs(m))
  BY <1>2, <1>3, RefsFinite, MoveOne
<1>6. /\ dev[m].refcount = Cardinality(SubmitRefs(m)) + Cardinality(KeepRefs(m)) + JobRefs(m)
      /\ JobRefs(m) \in Nat
  <2>1. dev[m].refcount = RefSum(Cardinality(SubmitRefs(m)), Cardinality(KeepRefs(m)),
                                 queue[m], owed[m], irq[m])
    BY DEF ChildRefs, RefSum
  <2>2. queue[m] \in Seq(Job) /\ owed[m] \in Nat /\ irq[m] \in IrqRec
    BY DEF JobTypes
  <2> QED
    BY <2>1, <2>2, RefsSum, RefsFinite DEF JobRefs
<1>7. /\ RefSum(Cardinality(SubmitRefs(m)'), Cardinality(KeepRefs(m)'), queue'[m], owed'[m], irq'[m])
          = Cardinality(SubmitRefs(m)') + Cardinality(KeepRefs(m)') + JobRefs(m)'
      /\ JobRefs(m)' \in Nat
  <2>1. queue'[m] \in Seq(Job) /\ owed'[m] \in Nat /\ irq'[m] \in IrqRec
    BY DEF JobTypes
  <2> QED
    BY <1>3, <2>1, RefsSum DEF JobRefs
<1>8. /\ One(u \in SubmitRefs(m)') \in Int /\ One(u \in SubmitRefs(m)) \in Int
      /\ One(u \in KeepRefs(m)') \in Int /\ One(u \in KeepRefs(m)) \in Int
  BY DEF One
<1> QED
  BY <1>3, <1>4, <1>5, <1>6, <1>7, <1>8, RefsFinite

(* a step that moves no user *)
LEMMA StayRefs ==
    ASSUME JobTypes, JobTypes', ParentInv, ChildRefs,
           \A v \in Users : pc'[v] = pc[v] /\ on'[v] = on[v],
           \A m \in Children : dev'[m].refcount = dev[m].refcount + JobRefs(m)' - JobRefs(m)
    PROVE  ChildRefs'
<1> SUFFICES ASSUME NEW m \in Children
             PROVE  dev'[m].refcount =
                      RefSum(Cardinality(SubmitRefs(m)'), Cardinality(KeepRefs(m)'),
                             queue'[m], owed'[m], irq'[m])
  BY DEF ChildRefs, RefSum
<1>1. SubmitRefs(m)' = SubmitRefs(m) /\ KeepRefs(m)' = KeepRefs(m)
  BY DEF SubmitRefs, KeepRefs
<1>2. /\ dev[m].refcount = Cardinality(SubmitRefs(m)) + Cardinality(KeepRefs(m)) + JobRefs(m)
      /\ JobRefs(m) \in Nat
  <2>1. dev[m].refcount = RefSum(Cardinality(SubmitRefs(m)), Cardinality(KeepRefs(m)),
                                 queue[m], owed[m], irq[m])
    BY DEF ChildRefs, RefSum
  <2>2. queue[m] \in Seq(Job) /\ owed[m] \in Nat /\ irq[m] \in IrqRec
    BY DEF JobTypes
  <2> QED
    BY <2>1, <2>2, RefsSum, RefsFinite DEF JobRefs
<1>3. /\ RefSum(Cardinality(SubmitRefs(m)), Cardinality(KeepRefs(m)), queue'[m], owed'[m], irq'[m])
          = Cardinality(SubmitRefs(m)) + Cardinality(KeepRefs(m)) + JobRefs(m)'
      /\ JobRefs(m)' \in Nat
  <2>1. queue'[m] \in Seq(Job) /\ owed'[m] \in Nat /\ irq'[m] \in IrqRec
    BY DEF JobTypes
  <2> QED
    BY <2>1, RefsSum, RefsFinite DEF JobRefs
<1> QED
  BY <1>1, <1>2, <1>3, RefsFinite

(* the lock is held by a section that takes the module down *)
Taken(d) == d.at \in {"down_idle", "off_up", "off_save", "off_wait", "off_idle"}

(* a step of the power management that changes no reference to a client    *)
(* module and takes none down that is referenced                           *)
Keeps == \A k \in Children : /\ dev'[k].refcount = dev[k].refcount
                             /\ Taken(dev'[k]) => Taken(dev[k]) \/ dev[k].refcount = 0

LEMMA KeepsOne ==
    ASSUME ParentInv, NEW m \in Mods, NEW e \in DevRec, dev' = [dev EXCEPT ![m] = e],
           m \in Children => /\ e.refcount = dev[m].refcount
                             /\ Taken(e) => Taken(dev[m]) \/ dev[m].refcount = 0
    PROVE  Keeps
BY DEF Keeps, ParentInv, Mods

LEMMA BusyRefs ==
    ASSUME ParentInv, NEW m \in Children, Busy(m)
    PROVE  /\ dev[m].at = "free" /\ dev'[m].refcount = dev[m].refcount + 1 /\ ~Taken(dev'[m])
           /\ \A k \in Children \ {m} : dev'[k] = dev[k]
<1> DEFINE e == [Cancel(dev[m]) EXCEPT !.refcount = @ + 1]
           l == IF e.refcount > 0 /\ ~nvhost_module_powered(e) THEN "busy" ELSE "free"
<1>1. m \in Mods /\ dev[m] \in DevRec /\ dev \in [Mods -> DevRec]
  BY DEF ParentInv, Mods
<1>2. e \in DevRec /\ e.refcount = dev[m].refcount + 1
  BY <1>1, CountedRec
<1>3. dev' = [dev EXCEPT ![m] = At(e, l)] /\ dev[m].at = "free" /\ l \in {"busy", "free"}
  BY DEF Busy, LockFree
<1> HIDE DEF e, l
<1>4. At(e, l).refcount = e.refcount /\ At(e, l).at = l
  BY <1>2 DEF At, DevRec
<1> QED
  BY <1>1, <1>2, <1>3, <1>4 DEF Taken, Mods

LEMMA IdleRefs ==
    ASSUME ParentInv, NEW m \in Children, NEW n \in Int, IdleMult(m, n)
    PROVE  /\ dev[m].at = "free" /\ dev'[m].refcount = dev[m].refcount - n /\ ~Taken(dev'[m])
           /\ \A k \in Children \ {m} : dev'[k] = dev[k]
<1>1. m \in Mods /\ dev[m] \in DevRec /\ dev \in [Mods -> DevRec]
  BY DEF ParentInv, Mods
<1>2. Idle(dev[m], n).refcount = dev[m].refcount - n /\ Idle(dev[m], n).at = dev[m].at
  BY <1>1, IdleRec
<1>3. dev' = [dev EXCEPT ![m] = Idle(dev[m], n)] /\ dev[m].at = "free"
  BY DEF IdleMult, LockFree
<1> QED
  BY <1>1, <1>2, <1>3 DEF Taken, Mods

LEMMA UpKeeps ==
    ASSUME ParentInv, NEW m \in Children, NEW ok \in BOOLEAN, NEW l \in {"free", "off_save"},
           ToRunning(m, ok, l), l = "off_save" => Taken(dev[m])
    PROVE  Keeps
<1> DEFINE e == At(ClocksOn(dev[m], ok), l)
<1>1. /\ m \in Mods /\ Host \in Mods /\ m # Host
      /\ dev[m] \in DevRec /\ dev \in [Mods -> DevRec]
  BY AcmAssumption DEF ParentInv, Mods
<1>2. e.refcount = dev[m].refcount /\ e.at = l
  <2>1. l \in Steps
    BY DEF Steps
  <2> QED
    BY <1>1, <2>1, ClocksRec
<1>3. dev'[m] = e /\ \A k \in Children \ {m} : dev'[k] = dev[k]
  <2> HIDE DEF e
  <2>1. dev' = [dev EXCEPT ![Host] = BusyHost(dev[Host]), ![m] = e]
    BY <1>1 DEF ToRunning, e
  <2> QED
    BY <1>1, <2>1, AcmAssumption DEF Mods
<1> HIDE DEF e
<1> QED
  BY <1>2, <1>3 DEF Keeps, Taken

LEMMA GateKeeps ==
    ASSUME ParentInv, NEW m \in Children, GateChild(m)
    PROVE  Keeps
<1>1. /\ m \in Mods /\ Host \in Mods /\ m # Host
      /\ dev[m] \in DevRec /\ dev \in [Mods -> DevRec]
  BY AcmAssumption DEF ParentInv, Mods
<1>2. PICK e \in DevRec : /\ e.refcount = dev[m].refcount /\ e.at = "free"
                          /\ dev' = [dev EXCEPT ![Host] = Idle(dev[Host], 1), ![m] = e]
  BY <1>1, GateRec DEF GateChild
<1>3. dev'[m] = e /\ \A k \in Children \ {m} : dev'[k] = dev[k]
  BY <1>1, <1>2, AcmAssumption DEF Mods
<1> QED
  BY <1>2, <1>3 DEF Keeps, Taken

LEMMA WorkKeeps ==
    ASSUME ParentInv, NEW m \in Mods, WorkStart(m) \/ WorkRun(m)
    PROVE  Keeps
<1>1. dev[m] \in DevRec /\ dev \in [Mods -> DevRec]
  BY DEF ParentInv
<1>2. CASE WorkStart(m)
  <2> DEFINE d == [dev[m] EXCEPT !.pending = FALSE]
             e == [d EXCEPT !.started = d.started + 1]
  <2>1. dev' = [dev EXCEPT ![m] = e]
    BY <1>2 DEF WorkStart, ParentInv
  <2>2. d \in DevRec /\ d.refcount = dev[m].refcount /\ d.at = dev[m].at
    BY <1>1 DEF DevRec
  <2>3. e \in DevRec /\ e.refcount = dev[m].refcount /\ e.at = dev[m].at
    <3> HIDE DEF d
    <3> QED BY <2>2 DEF DevRec
  <2> HIDE DEF e
  <2> QED
    BY <1>1, <2>1, <2>3, KeepsOne DEF Taken
<1>3. CASE WorkRun(m)
  <2> DEFINE d == [dev[m] EXCEPT !.started = @ - 1]
             e == powerstate_down(m, d)
  <2>1. dev' = [dev EXCEPT ![m] = e] /\ dev[m].at = "free"
    BY <1>3, Zenon DEF WorkRun, LockFree
  <2>2. d \in DevRec /\ d.refcount = dev[m].refcount /\ d.at = "free"
    BY <1>1, <2>1 DEF DevRec
  <2> HIDE DEF d
  <2>3. CASE m = Host
    <3>1. \A k \in Children : dev'[k] = dev[k]
      BY <1>1, <2>1, <2>3, AcmAssumption DEF Mods
    <3> QED
      BY <3>1 DEF Keeps
  <2>4. CASE m \in Children
    <3>1. PowerOff(m, d, "work") \in DevRec /\ PowerOff(m, d, "work").refcount = d.refcount
      BY <2>2, <2>4, PowerOffRec DEF Same
    <3>2. At(d, "down_idle") \in DevRec /\ At(d, "down_idle").refcount = d.refcount
      BY <2>2 DEF At, DevRec, Steps
    <3>3. \/ e = d
          \/ d.refcount = 0 /\ e \in {PowerOff(m, d, "work"), At(d, "down_idle")}
      BY <2>4, AcmAssumption DEF powerstate_down
    <3>4. e \in DevRec /\ e.refcount = dev[m].refcount /\ (Taken(e) => dev[m].refcount = 0)
      <4> HIDE DEF e
      <4> QED BY <2>2, <3>1, <3>2, <3>3 DEF Taken
    <3> QED
      BY <2>1, <3>4, KeepsOne
  <2> QED
    BY <2>3, <2>4 DEF Mods
<1> QED
  BY <1>2, <1>3

LEMMA SuspendKeeps ==
    ASSUME ParentInv, NEW m \in Mods, SuspendLocked(m), NEW b \in BOOLEAN,
           b => (m \in Children => dev[m].refcount = 0)
    PROVE  /\ b => Keeps
           /\ \A k \in Children : dev'[k].refcount = dev[k].refcount
<1> DEFINE d == Cancel(dev[m])
           e == PowerOff(m, d, "suspend")
<1>1. /\ dev[m] \in DevRec /\ dev' = [dev EXCEPT ![m] = e] /\ dev \in [Mods -> DevRec]
  BY DEF ParentInv, SuspendLocked
<1>2. d \in DevRec /\ d.refcount = dev[m].refcount
  BY <1>1, CountedRec
<1> HIDE DEF d
<1>3. m = Host => e \in DevRec
  BY <1>2, PowerOffHostRec
<1>4. m \in Children => e \in DevRec /\ e.refcount = d.refcount
  BY <1>2, PowerOffRec DEF Same
<1> HIDE DEF e
<1>5. \A k \in Children : dev'[k].refcount = dev[k].refcount
  BY <1>1, <1>2, <1>4 DEF Mods
<1>6. b => Keeps
  BY <1>1, <1>2, <1>3, <1>4, KeepsOne DEF Mods
<1> QED
  BY <1>5, <1>6

LEMMA OffKeeps ==
    ASSUME ParentInv, NEW m \in Children, OffSave(m) \/ OffWait(m)
    PROVE  Keeps
<1>1. m \in Mods /\ dev[m] \in DevRec
  BY DEF ParentInv, Mods
<1>2. Taken(dev[m])
  BY DEF OffSave, OffWait, Taken
<1>3. \A err \in BOOLEAN : Same(dev[m], AfterPoweroff(m, dev[m], err))
  BY <1>1, AfterPoweroffRec
<1>4. Same(dev[m], At(dev[m], "off_wait"))
  BY <1>1 DEF At, DevRec, Steps, Same, Up, nvhost_module_powered
<1>5. PICK e : dev' = [dev EXCEPT ![m] = e] /\ Same(dev[m], e)
  BY <1>3, <1>4 DEF OffSave, OffWait
<1> QED
  BY <1>1, <1>2, <1>5, KeepsOne DEF Same

LEMMA HostKeeps ==
    ASSUME ParentInv, HostBusy \/ HostIdle \/ GateHost
    PROVE  Keeps
<1>1. \A k \in Children : dev'[k] = dev[k]
  BY AcmAssumption DEF HostBusy, HostIdle, GateHost, ParentInv, Mods
<1> QED
  BY <1>1 DEF Keeps

LEMMA PowerKeeps ==
    ASSUME ParentInv, NEW m \in Mods, PowerStep(m)
    PROVE  Keeps
<1>1. CASE WorkStart(m) \/ WorkRun(m)
  BY <1>1, WorkKeeps
<1>2. CASE m \in Children /\ GateChild(m)
  BY <1>2, GateKeeps
<1>3. CASE m \in Children /\ OffUp(m)
  BY <1>3, UpKeeps DEF OffUp, Taken
<1>4. CASE GateHost
  BY <1>4, HostKeeps
<1> QED
  BY <1>1, <1>2, <1>3, <1>4 DEF PowerStep

SubmitAt == {"submit_up", "lock", "push", "err", "err_locked"}
GoneAt == {"keep", "put", "stop"} \cup SuspendPcs

LEMMA JobRefsInt ==
    ASSUME JobTypes, NEW m \in Children
    PROVE  JobRefs(m) \in Nat
<1>1. queue[m] \in Seq(Job) /\ owed[m] \in Nat /\ irq[m] \in IrqRec
  BY DEF JobTypes
<1> QED
  BY <1>1 DEF JobRefs, JobSum, IrqRec

(* u goes on, with the references it has *)
LEMMA MoveFree ==
    ASSUME JobTypes, ParentInv, ParentInv', ChildRefs, NEW u \in Users,
           \A v \in Users \ {u} : pc'[v] = pc[v] /\ on'[v] = on[v],
           \A m \in Children : /\ dev'[m].refcount = dev[m].refcount
                               /\ u \in SubmitRefs(m)' <=> u \in SubmitRefs(m)
                               /\ u \in KeepRefs(m)' <=> u \in KeepRefs(m),
           UNCHANGED jobVars
    PROVE  ChildRefs'
<1>1. JobTypes' /\ \A m \in Children : JobRefs(m)' = JobRefs(m) /\ JobRefs(m) \in Nat
  BY JobRefsInt DEF JobTypes, jobVars, JobRefs
<1>2. ASSUME NEW m \in Children
      PROVE  dev'[m].refcount = dev[m].refcount + JobRefs(m)' - JobRefs(m)
                + One(u \in SubmitRefs(m)') - One(u \in SubmitRefs(m))
                + One(u \in KeepRefs(m)') - One(u \in KeepRefs(m))
  <2>1. dev[m].refcount \in Int
    BY DEF ParentInv, Mods, DevRec
  <2>2. One(u \in SubmitRefs(m)') = One(u \in SubmitRefs(m)) /\ One(u \in SubmitRefs(m)) \in Int
    BY <1>2 DEF One
  <2>3. One(u \in KeepRefs(m)') = One(u \in KeepRefs(m)) /\ One(u \in KeepRefs(m)) \in Int
    BY <1>2 DEF One
  <2> QED
    BY <1>1, <1>2, <2>1, <2>2, <2>3
<1> QED
  BY <1>1, <1>2, MoveRefs

(* u takes or drops a reference to c *)
LEMMA MoveTake ==
    ASSUME JobTypes, ParentInv, ParentInv', ChildRefs, NEW u \in Users, NEW c \in Children,
           \A v \in Users \ {u} : pc'[v] = pc[v] /\ on'[v] = on[v],
           \A m \in Children \ {c} : /\ dev'[m].refcount = dev[m].refcount
                                     /\ u \in SubmitRefs(m)' <=> u \in SubmitRefs(m)
                                     /\ u \in KeepRefs(m)' <=> u \in KeepRefs(m),
           dev'[c].refcount = dev[c].refcount
                + One(u \in SubmitRefs(c)') - One(u \in SubmitRefs(c))
                + One(u \in KeepRefs(c)') - One(u \in KeepRefs(c)),
           UNCHANGED jobVars
    PROVE  ChildRefs'
<1>1. JobTypes' /\ \A m \in Children : JobRefs(m)' = JobRefs(m) /\ JobRefs(m) \in Nat
  BY JobRefsInt DEF JobTypes, jobVars, JobRefs
<1>2. ASSUME NEW m \in Children
      PROVE  dev'[m].refcount = dev[m].refcount + JobRefs(m)' - JobRefs(m)
                + One(u \in SubmitRefs(m)') - One(u \in SubmitRefs(m))
                + One(u \in KeepRefs(m)') - One(u \in KeepRefs(m))
  <2>1. dev[m].refcount \in Int
    BY DEF ParentInv, Mods, DevRec
  <2>2. /\ One(u \in SubmitRefs(m)') \in Int /\ One(u \in SubmitRefs(m)) \in Int
        /\ One(u \in KeepRefs(m)') \in Int /\ One(u \in KeepRefs(m)) \in Int
    BY DEF One
  <2>3. CASE m = c
    BY <1>1, <1>2, <2>1, <2>2, <2>3
  <2>4. CASE m # c
    <3>1. /\ One(u \in SubmitRefs(m)') = One(u \in SubmitRefs(m))
          /\ One(u \in KeepRefs(m)') = One(u \in KeepRefs(m))
      BY <1>2, <2>4 DEF One
    <3> QED
      BY <1>1, <1>2, <2>1, <2>2, <2>4, <3>1
  <2> QED
    BY <2>3, <2>4
<1> QED
  BY <1>1, <1>2, MoveRefs

(* what a user's place says about its references *)
LEMMA UserRefs ==
    ASSUME NEW u \in Users, NEW m \in Children
    PROVE  /\ u \in SubmitRefs(m) <=> on[u] = m /\ pc[u] \in SubmitAt
           /\ u \in KeepRefs(m) <=> m \in Keepalive /\ on[u] = m /\ pc[u] \notin GoneAt
           /\ u \in SubmitRefs(m)' <=> on'[u] = m /\ pc'[u] \in SubmitAt
           /\ u \in KeepRefs(m)' <=> m \in Keepalive /\ on'[u] = m /\ pc'[u] \notin GoneAt
BY DEF SubmitRefs, KeepRefs, SubmitAt, GoneAt

LEMMA RefsUser ==
    ASSUME Places, CtxInv, JobInv, JobInv', ParentInv, ParentInv', ChildRefs,
           NEW u \in Users, UserStep(u)
    PROVE  ChildRefs'
<1>1. /\ JobTypes /\ JobTypes' /\ pc \in [Threads -> AllPcs]
      /\ on \in [Threads -> Mods \cup {None}] /\ u \in Threads
  BY DEF JobInv, Places, Threads
<1>2. \A v \in Users \ {u} : pc'[v] = pc[v] /\ on'[v] = on[v]
  <2>1. \A l : Goto(u, l) => \A v \in Users \ {u} : pc'[v] = pc[v]
    BY <1>1 DEF Goto, Threads
  <2>2. \E l : Goto(u, l)
    BY DEF UserStep, Open, TakeRef, TakeRefUp, LockSubmit, SubmitFails, DropRef, Push,
           Close, Put, Stop
  <2>3. \A v \in Users \ {u} : on'[v] = on[v]
    <3>1. on' = on \/ \E m : on' = [on EXCEPT ![u] = m]
      BY DEF UserStep, Open, TakeRef, TakeRefUp, LockSubmit, SubmitFails, DropRef, Push,
             Close, Put, Stop
    <3> QED
      BY <1>1, <3>1 DEF Threads
  <2> QED
    BY <2>1, <2>2, <2>3
<1>3. CASE \E m \in Children : Open(u, m)
  <2>1. PICK m \in Children : Open(u, m)
    BY <1>3
  <2>2. /\ on[u] = None /\ on'[u] = m /\ pc'[u] \in {"keep", "open"}
        /\ (m \in Keepalive => pc'[u] = "keep")
        /\ UNCHANGED <<dev, jobVars>>
    BY <1>1, <2>1 DEF Open, Places, Goto, acmVars
  <2>3. \A c \in Children : /\ u \in SubmitRefs(c)' <=> u \in SubmitRefs(c)
                            /\ u \in KeepRefs(c)' <=> u \in KeepRefs(c)
    BY <2>2, UserRefs, ChannelAssumption DEF Mods, SubmitAt, GoneAt
  <2> QED
    BY <1>1, <1>2, <2>2, <2>3, MoveFree
<1>4. CASE TakeRef(u)
  <2>0. PICK m \in Children : m = on[u]
    BY <1>4 DEF TakeRef, Places
  <2>1. /\ m \in Children /\ Busy(m) /\ on' = on /\ UNCHANGED jobVars
        /\ \/ pc[u] = "keep" /\ m \in Keepalive /\ pc'[u] \in {"open", "keep_up"}
           \/ pc[u] = "open" /\ pc'[u] \in {"lock", "submit_up"}
    BY <1>1, <1>4, <2>0 DEF TakeRef, Places, Goto, Referenced
  <2>2. /\ dev'[m].refcount = dev[m].refcount + 1 /\ dev[m].refcount \in Int
        /\ \A k \in Children \ {m} : dev'[k] = dev[k]
    BY <2>1, BusyRefs DEF ParentInv, Mods, DevRec
  <2>3. \A c \in Children \ {m} : /\ u \in SubmitRefs(c)' <=> u \in SubmitRefs(c)
                                  /\ u \in KeepRefs(c)' <=> u \in KeepRefs(c)
    BY <2>0, <2>1, UserRefs
  <2>4. /\ One(u \in SubmitRefs(m)') - One(u \in SubmitRefs(m))
             + One(u \in KeepRefs(m)') - One(u \in KeepRefs(m)) = 1
        /\ One(u \in SubmitRefs(m)') \in Int /\ One(u \in SubmitRefs(m)) \in Int
        /\ One(u \in KeepRefs(m)') \in Int /\ One(u \in KeepRefs(m)) \in Int
    <3>1. CASE pc[u] = "keep"
      <4>1. /\ u \notin SubmitRefs(m) /\ u \notin SubmitRefs(m)'
            /\ u \notin KeepRefs(m) /\ u \in KeepRefs(m)'
        BY <2>0, <2>1, <3>1, UserRefs DEF SubmitAt, GoneAt, SuspendPcs
      <4> QED
        BY <4>1 DEF One
    <3>2. CASE pc[u] = "open"
      <4>1. /\ u \notin SubmitRefs(m) /\ u \in SubmitRefs(m)'
            /\ (u \in KeepRefs(m)' <=> u \in KeepRefs(m))
        BY <2>0, <2>1, <3>2, UserRefs DEF SubmitAt, GoneAt, SuspendPcs
      <4> QED
        BY <4>1 DEF One
    <3> QED
      BY <2>1, <3>1, <3>2
  <2> QED
    BY <1>1, <1>2, <2>1, <2>2, <2>3, <2>4, MoveTake
<1>5. CASE TakeRefUp(u)
  <2>1. /\ on[u] \in Children /\ on' = on /\ UNCHANGED jobVars
        /\ \/ pc[u] = "keep_up" /\ pc'[u] = "open"
           \/ pc[u] = "submit_up" /\ pc'[u] = "lock"
    BY <1>1, <1>5 DEF TakeRefUp, Places, Goto, Referenced
  <2>2. Keeps
    BY <1>5, <2>1, UpKeeps DEF TakeRefUp
  <2>3. \A c \in Children : /\ u \in SubmitRefs(c)' <=> u \in SubmitRefs(c)
                            /\ u \in KeepRefs(c)' <=> u \in KeepRefs(c)
    BY <2>1, UserRefs DEF SubmitAt, GoneAt, SuspendPcs
  <2> QED
    BY <1>1, <1>2, <2>1, <2>2, <2>3, MoveFree DEF Keeps
<1>6. CASE LockSubmit(u) \/ SubmitFails(u)
  <2>1. /\ on' = on /\ UNCHANGED <<dev, jobVars>> /\ pc[u] \in SubmitAt /\ pc'[u] \in SubmitAt
    BY <1>1, <1>6 DEF LockSubmit, SubmitFails, Goto, SubmitAt, acmVars
  <2>2. \A c \in Children : /\ u \in SubmitRefs(c)' <=> u \in SubmitRefs(c)
                            /\ u \in KeepRefs(c)' <=> u \in KeepRefs(c)
    BY <2>1, UserRefs DEF SubmitAt, GoneAt, SuspendPcs
  <2> QED
    BY <1>1, <1>2, <2>1, <2>2, MoveFree
<1>7. CASE DropRef(u)
  <2>0. PICK m \in Children : m = on[u]
    BY <1>7 DEF DropRef, Places
  <2>1. /\ m \in Children /\ IdleMult(m, 1) /\ on' = on /\ UNCHANGED jobVars
        /\ \/ pc[u] = "unkeep" /\ m \in Keepalive /\ pc'[u] = "put"
           \/ pc[u] \in {"err", "err_locked"} /\ pc'[u] = "open"
    BY <1>1, <1>7, <2>0 DEF DropRef, Places, Goto
  <2>2. /\ dev'[m].refcount = dev[m].refcount - 1 /\ dev[m].refcount \in Int
        /\ \A k \in Children \ {m} : dev'[k] = dev[k]
    BY <2>1, IdleRefs DEF ParentInv, Mods, DevRec
  <2>3. \A c \in Children \ {m} : /\ u \in SubmitRefs(c)' <=> u \in SubmitRefs(c)
                                  /\ u \in KeepRefs(c)' <=> u \in KeepRefs(c)
    BY <2>0, <2>1, UserRefs
  <2>4. /\ One(u \in SubmitRefs(m)') - One(u \in SubmitRefs(m))
             + One(u \in KeepRefs(m)') - One(u \in KeepRefs(m)) = -1
        /\ One(u \in SubmitRefs(m)') \in Int /\ One(u \in SubmitRefs(m)) \in Int
        /\ One(u \in KeepRefs(m)') \in Int /\ One(u \in KeepRefs(m)) \in Int
    <3>1. CASE pc[u] = "unkeep"
      <4>1. /\ u \notin SubmitRefs(m) /\ u \notin SubmitRefs(m)'
            /\ u \in KeepRefs(m) /\ u \notin KeepRefs(m)'
        BY <2>0, <2>1, <3>1, UserRefs DEF SubmitAt, GoneAt, SuspendPcs
      <4> QED
        BY <4>1 DEF One
    <3>2. CASE pc[u] \in {"err", "err_locked"}
      <4>1. /\ u \in SubmitRefs(m) /\ u \notin SubmitRefs(m)'
            /\ (u \in KeepRefs(m)' <=> u \in KeepRefs(m))
        BY <2>0, <2>1, <3>2, UserRefs DEF SubmitAt, GoneAt, SuspendPcs
      <4> QED
        BY <4>1 DEF One
    <3> QED
      BY <2>1, <3>1, <3>2
  <2> QED
    BY <1>1, <1>2, <2>1, <2>2, <2>3, <2>4, MoveTake
<1>8. CASE Push(u)
  <2>0. PICK m \in Children : m = on[u]
    BY <1>8 DEF Push, Places
  <2>1. /\ m \in Children /\ on' = on /\ UNCHANGED <<dev, owed, irq>>
        /\ pc[u] = "push" /\ pc'[u] = "open" /\ Len(queue'[m]) = Len(queue[m]) + 1
        /\ \A c \in Children \ {m} : queue'[c] = queue[c]
    BY <1>1, <1>8, <2>0, JobPush DEF Push, Goto, acmVars, JobTypes
  <2>2. \A c \in Children \ {m} : /\ u \in SubmitRefs(c)' <=> u \in SubmitRefs(c)
                                  /\ u \in KeepRefs(c)' <=> u \in KeepRefs(c)
                                  /\ JobRefs(c)' = JobRefs(c)
    BY <2>0, <2>1, UserRefs DEF JobRefs
  <2>3. /\ u \in SubmitRefs(m) /\ u \notin SubmitRefs(m)'
        /\ (u \in KeepRefs(m)' <=> u \in KeepRefs(m))
    BY <2>0, <2>1, UserRefs DEF SubmitAt, GoneAt, SuspendPcs
  <2>4. JobRefs(m)' = JobRefs(m) + 1
    <3>1. queue[m] \in Seq(Job) /\ owed[m] \in Nat /\ irq[m] \in IrqRec
      BY <1>1, <2>1 DEF JobTypes
    <3> QED
      BY <2>1, <3>1 DEF JobRefs, JobSum, IrqRec
  <2>5. ASSUME NEW c \in Children
        PROVE  dev'[c].refcount = dev[c].refcount + JobRefs(c)' - JobRefs(c)
                  + One(u \in SubmitRefs(c)') - One(u \in SubmitRefs(c))
                  + One(u \in KeepRefs(c)') - One(u \in KeepRefs(c))
    <3>1. dev'[c].refcount = dev[c].refcount /\ dev[c].refcount \in Int /\ JobRefs(c) \in Nat
      BY <1>1, <2>1, JobRefsInt DEF ParentInv, Mods, DevRec
    <3>2. One(u \in KeepRefs(c)') = One(u \in KeepRefs(c)) /\ One(u \in KeepRefs(c)) \in Int
      BY <2>2, <2>3 DEF One
    <3>3. CASE c = m
      <4>1. One(u \in SubmitRefs(c)') = 0 /\ One(u \in SubmitRefs(c)) = 1
        BY <2>3, <3>3 DEF One
      <4> QED
        BY <2>4, <3>1, <3>2, <3>3, <4>1
    <3>4. CASE c # m
      <4>1. One(u \in SubmitRefs(c)') = One(u \in SubmitRefs(c)) /\ One(u \in SubmitRefs(c)) \in Int
        BY <2>2, <3>4 DEF One
      <4> QED
        BY <2>2, <3>1, <3>2, <3>4, <4>1
    <3> QED
      BY <3>3, <3>4
  <2> QED
    BY <1>1, <1>2, <2>5, MoveRefs
<1>9. CASE Close(u)
  <2>1. /\ on' = on /\ UNCHANGED <<dev, jobVars>> /\ pc[u] = "open"
        /\ \/ on[u] \in Keepalive /\ pc'[u] = "unkeep"
           \/ on[u] \notin Keepalive /\ pc'[u] = "put"
    BY <1>1, <1>9 DEF Close, Goto, acmVars
  <2>2. \A c \in Children : /\ u \in SubmitRefs(c)' <=> u \in SubmitRefs(c)
                            /\ u \in KeepRefs(c)' <=> u \in KeepRefs(c)
    BY <2>1, UserRefs DEF SubmitAt, GoneAt, SuspendPcs
  <2> QED
    BY <1>1, <1>2, <2>1, <2>2, MoveFree
<1>10. CASE Put(u) \/ Stop(u)
  <2>1. /\ UNCHANGED <<dev, jobVars>> /\ pc[u] \in {"put", "stop"}
        /\ \/ pc'[u] \in {"stop", "susp_wait"}
           \/ pc'[u] = "closed" /\ on'[u] = None
    BY <1>1, <1>10 DEF Put, Stop, Goto, acmVars
  <2>2. \A c \in Children : /\ u \in SubmitRefs(c)' <=> u \in SubmitRefs(c)
                            /\ u \in KeepRefs(c)' <=> u \in KeepRefs(c)
    BY <2>1, UserRefs, ChannelAssumption DEF SubmitAt, GoneAt, SuspendPcs, Mods
  <2> QED
    BY <1>1, <1>2, <2>1, <2>2, MoveFree
<1> QED
  BY <1>3, <1>4, <1>5, <1>6, <1>7, <1>8, <1>9, <1>10 DEF UserStep

(* no user moves and no reference changes hands *)
LEMMA StayFree ==
    ASSUME JobTypes, ParentInv, ChildRefs,
           \A v \in Users : pc'[v] = pc[v] /\ on'[v] = on[v],
           \A m \in Children : dev'[m].refcount = dev[m].refcount,
           UNCHANGED jobVars
    PROVE  ChildRefs'
<1>1. JobTypes' /\ \A m \in Children : JobRefs(m)' = JobRefs(m) /\ JobRefs(m) \in Nat
  BY JobRefsInt DEF JobTypes, jobVars, JobRefs
<1>2. \A m \in Children : dev'[m].refcount = dev[m].refcount + JobRefs(m)' - JobRefs(m)
  BY <1>1 DEF ParentInv, Mods, DevRec
<1> QED
  BY <1>1, <1>2, StayRefs

LEMMA RefsSuspend ==
    ASSUME Places, JobInv, ParentInv, ParentInv', ChildRefs, NEW t \in Threads, SuspendStep(t)
    PROVE  ChildRefs'
<1>1. /\ JobTypes /\ pc \in [Threads -> AllPcs] /\ on \in [Threads -> Mods \cup {None}]
      /\ UNCHANGED jobVars
  BY DEF JobInv, Places, SuspendStep, SeenIdle, SuspendBusy, SuspendOff, SuspendReturns
<1>2. \A m \in Children : dev'[m].refcount = dev[m].refcount
  <2>1. CASE SuspendOff(t)
    <3>1. on[t] \in Mods
      BY <2>1 DEF SuspendOff, Places, Threads, Mods, SuspendPcs
    <3> QED
      BY <2>1, <3>1, SuspendKeeps DEF SuspendOff
  <2>2. CASE ~SuspendOff(t)
    BY <2>2 DEF SuspendStep, SeenIdle, SuspendBusy, SuspendReturns, acmVars
  <2> QED
    BY <2>1, <2>2
<1>3. \A v \in Threads \ {t} : pc'[v] = pc[v] /\ on'[v] = on[v]
  BY <1>1 DEF SuspendStep, SeenIdle, SuspendBusy, SuspendOff, SuspendReturns, Returns, Goto
<1>4. CASE t \in Users
  <2>1. /\ pc[t] \in SuspendPcs
        /\ \/ pc'[t] \in SuspendPcs /\ on'[t] = on[t]
           \/ pc'[t] = "closed" /\ on'[t] = None
    BY <1>1, <1>4, ChannelAssumption
    DEF SuspendStep, SeenIdle, SuspendBusy, SuspendOff, SuspendReturns, Returns, Goto, SuspendPcs
  <2>2. \A c \in Children : /\ t \in SubmitRefs(c)' <=> t \in SubmitRefs(c)
                            /\ t \in KeepRefs(c)' <=> t \in KeepRefs(c)
    BY <1>4, <2>1, UserRefs, ChannelAssumption DEF SubmitAt, GoneAt, SuspendPcs, Mods
  <2> QED
    BY <1>1, <1>2, <1>3, <1>4, <2>2, MoveFree DEF Threads
<1>5. CASE t = Pm
  BY <1>1, <1>2, <1>3, <1>5, ChannelAssumption, StayFree DEF Threads
<1> QED
  BY <1>4, <1>5 DEF Threads

LEMMA RefsChannel ==
    ASSUME Places, CtxInv, JobInv, JobInv', ParentInv, ParentInv', ChildRefs,
           NEW m \in Children, ChannelStep(m)
    PROVE  ChildRefs'
<1>1. JobTypes /\ JobTypes' /\ \A v \in Users : pc'[v] = pc[v] /\ on'[v] = on[v]
  BY DEF JobInv, ChannelStep, Switch, Execute, IrqStart, IrqUpdate, IrqDrop, TdBegin, TdReset,
         OffSave, OffWait, userVars
<1>2. /\ \A c \in Children : JobRefs(c) \in Nat /\ dev[c].refcount \in Int
      /\ queue[m] \in Seq(Job) /\ owed[m] \in Nat /\ irq[m] \in IrqRec
  BY <1>1, JobRefsInt DEF ParentInv, Mods, DevRec, JobTypes
<1>3. CASE Switch(m) \/ Execute(m) \/ TdReset(m)
  <2>1. Len(queue'[m]) = Len(queue[m]) /\ UNCHANGED <<dev, owed, irq>>
    BY <1>3, JobEngine, JobReset DEF Switch, Execute, TdReset, acmVars
  <2>2. \A c \in Children \ {m} : queue'[c] = queue[c]
    BY <1>1, <1>3 DEF Switch, Execute, TdReset, SetStage, JobTypes
  <2>3. \A c \in Children : JobRefs(c)' = JobRefs(c)
    BY <2>1, <2>2 DEF JobRefs, JobSum
  <2> QED
    BY <1>1, <1>2, <2>1, <2>3, StayRefs
<1>4. CASE IrqStart(m) \/ TdBegin(m)
  <2>1. UNCHANGED <<dev, queue, owed>>
    BY <1>4 DEF IrqStart, TdBegin, acmVars
  <2>2. \A c \in Children : irq'[c] = irq[c] \/ (irq[c].at = "idle" /\ irq'[c].at = "update")
    BY <1>1, <1>4 DEF IrqStart, TdBegin, JobTypes
  <2>3. \A c \in Children : JobRefs(c)' = JobRefs(c)
    BY <2>1, <2>2 DEF JobRefs, JobSum
  <2> QED
    BY <1>1, <1>2, <2>1, <2>3, StayRefs
<1>5. CASE IrqUpdate(m)
  <2>1. /\ irq'[m].n = irq[m].n /\ irq[m].at = "update" /\ irq'[m].at = "drop"
        /\ Len(queue'[m]) + owed'[m] + irq[m].n = Len(queue[m]) + owed[m]
        /\ \A k \in Children \ {m} :
              queue'[k] = queue[k] /\ owed'[k] = owed[k] /\ irq'[k] = irq[k]
    BY <1>5, JobUpdate
  <2>2. \A c \in Children : JobRefs(c)' = JobRefs(c)
    <3>1. JobRefs(m)' = JobRefs(m)
      BY <1>2, <2>1 DEF JobRefs, JobSum, IrqRec
    <3> QED
      BY <2>1, <3>1 DEF JobRefs
  <2>3. dev' = dev
    BY <1>5 DEF IrqUpdate, acmVars
  <2> QED
    BY <1>1, <1>2, <2>2, <2>3, StayRefs
<1>6. CASE IrqDrop(m)
  <2>1. /\ irq[m].at = "drop" /\ irq[m].n \in Nat /\ IdleMult(m, irq[m].n)
        /\ irq' = [irq EXCEPT ![m] = [at |-> "idle", n |-> 0]] /\ UNCHANGED <<queue, owed>>
    BY <1>2, <1>6 DEF IrqDrop, IrqRec
  <2>2. /\ dev'[m].refcount = dev[m].refcount - irq[m].n
        /\ \A k \in Children \ {m} : dev'[k] = dev[k]
    BY <2>1, IdleRefs
  <2>3. irq'[m].at = "idle" /\ \A k \in Children \ {m} : irq'[k] = irq[k]
    BY <1>1, <2>1 DEF JobTypes
  <2>4. JobRefs(m)' = JobRefs(m) - irq[m].n /\ \A k \in Children \ {m} : JobRefs(k)' = JobRefs(k)
    <3>1. JobRefs(m) = Len(queue[m]) + owed[m] + irq[m].n
      BY <2>1 DEF JobRefs, JobSum
    <3>2. JobRefs(m)' = Len(queue[m]) + owed[m] + 0
      BY <2>1, <2>3 DEF JobRefs, JobSum
    <3>3. \A k \in Children \ {m} : JobRefs(k)' = JobRefs(k)
      BY <2>1, <2>3 DEF JobRefs
    <3> QED
      BY <1>2, <2>1, <3>1, <3>2, <3>3
  <2>5. \A c \in Children : dev'[c].refcount = dev[c].refcount + JobRefs(c)' - JobRefs(c)
    BY <1>2, <2>1, <2>2, <2>4
  <2> QED
    BY <1>1, <2>5, StayRefs
<1>7. CASE OffSave(m) \/ OffWait(m)
  BY <1>1, <1>7, OffKeeps, StayFree DEF Keeps, OffSave, OffWait
<1> QED
  BY <1>3, <1>4, <1>5, <1>6, <1>7 DEF ChannelStep

LEMMA RefsNext ==
    Places /\ CtxInv /\ JobInv /\ JobInv' /\ ParentInv /\ ParentInv' /\ ChildRefs /\ [Next]_vars
        => ChildRefs'
<1> SUFFICES ASSUME Places, CtxInv, JobInv, JobInv', ParentInv, ParentInv', ChildRefs, [Next]_vars
             PROVE  ChildRefs'
  OBVIOUS
<1>1. CASE UNCHANGED vars
  BY <1>1, StayFree DEF vars, acmVars, userVars, JobInv
<1>2. CASE \E u \in Users : UserStep(u)
  BY <1>2, RefsUser
<1>3. CASE \E t \in Threads : SuspendStep(t)
  BY <1>3, RefsSuspend
<1>4. CASE Freeze \/ \E m \in Mods : PmSuspend(m)
  <2>1. \A v \in Users : pc'[v] = pc[v] /\ on'[v] = on[v]
    BY <1>4, ChannelAssumption DEF Freeze, PmSuspend, Goto, Places, Threads
  <2> QED
    BY <1>4, <2>1, StayFree DEF Freeze, PmSuspend, acmVars, JobInv
<1>5. CASE \E k \in Ctrls : CtrlLock(k) \/ CtrlUnlock(k)
  <2>1. Keeps
    BY <1>5, HostKeeps DEF CtrlLock, CtrlUnlock
  <2> QED
    BY <1>5, <2>1, StayFree DEF CtrlLock, CtrlUnlock, userVars, JobInv, Keeps
<1>6. CASE \E m \in Children : ChannelStep(m)
  BY <1>6, RefsChannel
<1>7. CASE \E m \in Mods : PowerStep(m)
  BY <1>7, PowerKeeps, StayFree DEF PowerStep, userVars, JobInv, Keeps
<1> QED
  BY <1>1, <1>2, <1>3, <1>4, <1>5, <1>6, <1>7 DEF Next

LEMMA RefsInit == Init => ChildRefs
<1> SUFFICES ASSUME Init, NEW m \in Children
             PROVE  dev[m].refcount = RefSum(Cardinality(SubmitRefs(m)), Cardinality(KeepRefs(m)),
                                             queue[m], owed[m], irq[m])
  BY DEF ChildRefs, RefSum
<1>1. dev[m].refcount = 0 /\ queue[m] = <<>> /\ owed[m] = 0 /\ irq[m].at = "idle"
  BY DEF Init, AcmInit, Mods
<1>2. \A u \in Users : on[u] = None
  BY DEF Init, Threads
<1>3. SubmitRefs(m) = {} /\ KeepRefs(m) = {}
  BY <1>2, ChannelAssumption DEF SubmitRefs, KeepRefs, Mods
<1>4. Cardinality({}) = 0
  BY FS_EmptySet
<1> QED
  BY <1>1, <1>3, <1>4 DEF RefSum

(* Every reference to a client module is a submit's, a queued job's, a     *)
(* completed and not yet handled job's or an open keep-alive file's, for   *)
(* any number of files, modules and jobs and with merged completions,      *)
(* interrupted and failed submits, timeouts and suspends: no path through  *)
(* host1x_channel_submit, nvhost_channelrelease or action_submit_complete  *)
(* leaks a reference or drops one twice.                                   *)
THEOREM ChildRefsCorrect == Spec => []ChildRefs
<1>1. Init => CtxInv
  BY ChannelAssumption DEF Init, CtxInv, CtxIsOpen
<1> QED
  BY <1>1, PlacesInit, PlacesNext, CtxNext, JobInit, JobNext, ParentInit, ParentNext,
     RefsInit, RefsNext, PTL
  DEF Spec

-----------------------------------------------------------------------------
(* A power-off has the module to itself *)

(* whoever stops or suspends a channel is the last one on it; a system     *)
(* suspend finds every file between two calls                              *)
Alone ==
    /\ \A u \in Users : pc[u] \in {"stop"} \cup SuspendPcs =>
          \A v \in Users \ {u} : on[v] # on[u]
    /\ pc[Pm] # "awake" => \A u \in Users : pc[u] \in {"closed", "open"}

LEMMA AloneUser ==
    ASSUME Places, Alone, NEW u \in Users, UserStep(u)
    PROVE  Alone'
<1> USE ChannelAssumption DEF Places, Alone, Threads, AllPcs, UserPcs, SuspendPcs, Mods, Goto, Awake
<1>1. CASE \E m \in Children : Open(u, m)
  BY <1>1 DEF Open, RefLockFree
<1>2. CASE TakeRef(u)
  BY <1>2 DEF TakeRef, Referenced
<1>3. CASE TakeRefUp(u)
  BY <1>3 DEF TakeRefUp, Referenced
<1>4. CASE LockSubmit(u)
  BY <1>4 DEF LockSubmit
<1>5. CASE SubmitFails(u)
  BY <1>5 DEF SubmitFails
<1>6. CASE DropRef(u)
  BY <1>6 DEF DropRef
<1>7. CASE Push(u)
  BY <1>7 DEF Push
<1>8. CASE Close(u)
  BY <1>8 DEF Close
<1>9. CASE Put(u)
  BY <1>9 DEF Put, RefLockFree
<1>10. CASE Stop(u)
  BY <1>10 DEF Stop
<1>11. QED
  BY <1>1, <1>2, <1>3, <1>4, <1>5, <1>6, <1>7, <1>8, <1>9, <1>10 DEF UserStep

LEMMA AloneSuspend ==
    ASSUME Places, Alone, NEW t \in Threads, SuspendStep(t)
    PROVE  Alone'
<1> USE ChannelAssumption DEF Places, Alone, Threads, AllPcs, UserPcs, SuspendPcs, Mods, Goto
<1>1. CASE SeenIdle(t)
  BY <1>1 DEF SeenIdle
<1>2. CASE SuspendBusy(t)
  BY <1>2 DEF SuspendBusy, Returns
<1>3. CASE SuspendOff(t)
  BY <1>3 DEF SuspendOff
<1>4. CASE SuspendReturns(t)
  BY <1>4 DEF SuspendReturns, Returns
<1>5. QED
  BY <1>1, <1>2, <1>3, <1>4 DEF SuspendStep

LEMMA AloneNext == Places /\ Alone /\ [Next]_vars => Alone'
<1> SUFFICES ASSUME Places, Alone, [Next]_vars PROVE Alone'
  OBVIOUS
<1>1. CASE UNCHANGED userVars
  BY <1>1 DEF userVars, Alone
<1>2. CASE \E u \in Users : UserStep(u)
  BY <1>2, AloneUser
<1>3. CASE \E t \in Threads : SuspendStep(t)
  BY <1>3, AloneSuspend
<1>4. CASE Freeze \/ \E m \in Mods : PmSuspend(m)
  BY <1>4, ChannelAssumption
  DEF Freeze, PmSuspend, Goto, Places, Alone, Threads, SuspendPcs
<1>5. CASE \E k \in Ctrls : CtrlLock(k) \/ CtrlUnlock(k)
  BY <1>1, <1>5 DEF CtrlLock, CtrlUnlock
<1>6. CASE \E m \in Children : ChannelStep(m)
  BY <1>1, <1>6 DEF ChannelStep, Switch, Execute, IrqStart, IrqUpdate, IrqDrop, TdBegin, TdReset,
                    OffSave, OffWait
<1>7. CASE \E m \in Mods : PowerStep(m)
  BY <1>1, <1>7 DEF PowerStep
<1>8. QED
  BY <1>1, <1>2, <1>3, <1>4, <1>5, <1>6, <1>7 DEF Next, vars

(* nobody has taken a reference to a module that a suspend has seen idle,  *)
(* or that a section of dev->lock is taking down                           *)
IdleInv ==
    /\ \A t \in Threads : pc[t] = "susp_lock" /\ on[t] \in Children => dev[on[t]].refcount = 0
    /\ \A m \in Children : Taken(dev[m]) => dev[m].refcount = 0

LEMMA IdleUser ==
    ASSUME Places, Alone, ParentInv, IdleInv, NEW u \in Users, UserStep(u)
    PROVE  IdleInv'
<1>1. /\ pc \in [Threads -> AllPcs] /\ on \in [Threads -> Mods \cup {None}] /\ u \in Threads
  BY DEF Places, Threads
<1>2. /\ \A v \in Threads \ {u} : pc'[v] = pc[v] /\ on'[v] = on[v]
      /\ pc'[u] # "susp_lock"
  <2>1. \E l : Goto(u, l) /\ l # "susp_lock"
    BY DEF UserStep, Open, TakeRef, TakeRefUp, LockSubmit, SubmitFails, DropRef, Push,
           Close, Put, Stop, Referenced
  <2>2. on' = on \/ \E m : on' = [on EXCEPT ![u] = m]
    BY DEF UserStep, Open, TakeRef, TakeRefUp, LockSubmit, SubmitFails, DropRef, Push,
           Close, Put, Stop
  <2> QED
    BY <1>1, <2>1, <2>2 DEF Goto
<1>3. CASE TakeRef(u) \/ DropRef(u)
  <2>1. PICK m \in Children : m = on[u]
    BY <1>3 DEF TakeRef, DropRef, Places
  <2>2. /\ dev[m].at = "free" /\ ~Taken(dev'[m]) /\ \A k \in Children \ {m} : dev'[k] = dev[k]
    BY <1>3, <2>1, BusyRefs, IdleRefs DEF TakeRef, DropRef
  <2>3. ASSUME NEW t \in Threads \ {u}, pc[t] = "susp_lock"
        PROVE  on[t] # m
    <3>1. CASE t \in Users
      BY <2>1, <2>3, <3>1 DEF Alone, SuspendPcs
    <3>2. CASE t = Pm
      BY <1>3, <2>3, <3>2 DEF Alone, TakeRef, DropRef, Awake
    <3> QED
      BY <3>1, <3>2 DEF Threads
  <2> QED
    BY <1>2, <2>2, <2>3 DEF IdleInv
<1>4. CASE ~(TakeRef(u) \/ DropRef(u))
  <2>1. Keeps
    <3>1. CASE TakeRefUp(u)
      BY <3>1, UpKeeps DEF TakeRefUp, Places
    <3>2. CASE dev' = dev
      BY <3>2 DEF Keeps
    <3> QED
      BY <1>4, <3>1, <3>2
      DEF UserStep, Open, LockSubmit, SubmitFails, Push, Close, Put, Stop, acmVars
  <2> QED
    BY <1>2, <2>1 DEF IdleInv, Keeps
<1> QED
  BY <1>3, <1>4

LEMMA IdleKeeps ==
    ASSUME IdleInv, Keeps,
           \A t \in Threads : pc'[t] = "susp_lock" => pc[t] = "susp_lock" /\ on'[t] = on[t]
    PROVE  IdleInv'
BY DEF IdleInv, Keeps

LEMMA IdleSuspend ==
    ASSUME Places, ParentInv, IdleInv, NEW t \in Threads, SuspendStep(t)
    PROVE  IdleInv'
<1>1. /\ pc \in [Threads -> AllPcs] /\ on \in [Threads -> Mods \cup {None}]
  BY DEF Places
<1>2. \A v \in Threads \ {t} : pc'[v] = pc[v] /\ on'[v] = on[v]
  BY <1>1 DEF SuspendStep, SeenIdle, SuspendBusy, SuspendOff, SuspendReturns, Returns, Goto
<1>3. CASE SeenIdle(t)
  BY <1>1, <1>3 DEF SeenIdle, Goto, IdleInv, acmVars
<1>4. CASE SuspendOff(t)
  <2>1. on[t] \in Mods /\ (on[t] \in Children => dev[on[t]].refcount = 0)
    BY <1>4 DEF SuspendOff, Places, Threads, Mods, SuspendPcs, IdleInv
  <2>2. Keeps
    BY <1>4, <2>1, SuspendKeeps DEF SuspendOff
  <2>3. pc'[t] = "susp_off"
    BY <1>1, <1>4 DEF SuspendOff, Goto
  <2> QED
    BY <1>2, <2>2, <2>3, IdleKeeps
<1>5. CASE SuspendBusy(t) \/ SuspendReturns(t)
  <2>1. dev' = dev /\ pc'[t] # "susp_lock"
    BY <1>1, <1>5 DEF SuspendBusy, SuspendReturns, Returns, acmVars
  <2> QED
    BY <1>2, <2>1 DEF IdleInv
<1> QED
  BY <1>3, <1>4, <1>5 DEF SuspendStep

LEMMA IdleNext ==
    Places /\ Alone /\ JobInv /\ ParentInv /\ ChildRefs /\ IdleInv /\ [Next]_vars => IdleInv'
<1> SUFFICES ASSUME Places, Alone, JobInv, ParentInv, ChildRefs, IdleInv, [Next]_vars
             PROVE  IdleInv'
  OBVIOUS
<1>0. ASSUME UNCHANGED userVars, Keeps PROVE IdleInv'
  BY <1>0, IdleKeeps DEF userVars
<1>1. CASE UNCHANGED vars
  BY <1>1 DEF vars, userVars, acmVars, IdleInv
<1>2. CASE \E u \in Users : UserStep(u)
  BY <1>2, IdleUser
<1>3. CASE \E t \in Threads : SuspendStep(t)
  BY <1>3, IdleSuspend
<1>4. CASE Freeze \/ \E m \in Mods : PmSuspend(m)
  <2>1. dev' = dev /\ pc'[Pm] # "susp_lock" /\ \A t \in Threads \ {Pm} : pc'[t] = pc[t] /\ on'[t] = on[t]
    BY <1>4 DEF Freeze, PmSuspend, Goto, Places, Threads, acmVars
  <2> QED
    BY <2>1 DEF IdleInv
<1>5. CASE \E k \in Ctrls : CtrlLock(k) \/ CtrlUnlock(k)
  BY <1>0, <1>5, HostKeeps DEF CtrlLock, CtrlUnlock
<1>6. CASE \E m \in Children : ChannelStep(m)
  <2>1. PICK m \in Children : ChannelStep(m)
    BY <1>6
  <2>2. CASE IrqDrop(m)
    <3>1. irq[m].n \in Nat /\ irq[m].n > 0 /\ irq[m].at = "drop" /\ UNCHANGED userVars
      BY <2>2 DEF IrqDrop, JobInv, JobTypes, JobOK, IrqRec
    <3>2. dev[m].refcount # 0
      <4>1. dev[m].refcount = RefSum(Cardinality(SubmitRefs(m)), Cardinality(KeepRefs(m)),
                                     queue[m], owed[m], irq[m])
        BY DEF ChildRefs, RefSum
      <4>2. queue[m] \in Seq(Job) /\ owed[m] \in Nat
        BY DEF JobInv, JobTypes
      <4> QED
        BY <3>1, <4>1, <4>2, RefsFinite DEF RefSum
    <3>3. dev[m].at = "free" /\ ~Taken(dev'[m]) /\ \A k \in Children \ {m} : dev'[k] = dev[k]
      BY <2>2, <3>1, IdleRefs DEF IrqDrop
    <3> QED
      BY <3>1, <3>2, <3>3 DEF IdleInv, userVars
  <2>3. CASE OffSave(m) \/ OffWait(m)
    BY <1>0, <2>3, OffKeeps DEF OffSave, OffWait
  <2>4. CASE ~(IrqDrop(m) \/ OffSave(m) \/ OffWait(m))
    BY <2>1, <2>4
    DEF ChannelStep, Switch, Execute, IrqStart, IrqUpdate, TdBegin, TdReset, IdleInv,
        acmVars, userVars
  <2> QED
    BY <2>2, <2>3, <2>4
<1>7. CASE \E m \in Mods : PowerStep(m)
  BY <1>0, <1>7, PowerKeeps DEF PowerStep
<1> QED
  BY <1>1, <1>2, <1>3, <1>4, <1>5, <1>6, <1>7 DEF Next

LEMMA NoRefs ==
    ASSUME NEW s \in Nat, NEW k \in Nat, NEW q \in Seq(Job), NEW o \in Nat, NEW r \in IrqRec,
           RefSum(s, k, q, o, r) = 0
    PROVE  s = 0 /\ Len(q) = 0 /\ o = 0 /\ (r.at = "drop" => r.n = 0)
<1> DEFINE d == IF r.at = "drop" THEN r.n ELSE 0
           l == Len(q)
<1>1. d \in Nat /\ l \in Nat /\ (r.at = "drop" => r.n = d)
  BY DEF IrqRec
<1>2. s + k + l + o + d = 0
  BY DEF RefSum
<1> HIDE DEF d, l
<1>3. s = 0 /\ l = 0 /\ o = 0 /\ d = 0
  BY <1>1, <1>2
<1> QED
  BY <1>1, <1>3 DEF l

(* no reference, so no user *)
LEMMA UnreferencedIsQuiet ==
    ASSUME JobInv, ChildRefs, NEW m \in Children, dev[m].refcount = 0
    PROVE  Quiet(m) /\ SubmitRefs(m) = {}
<1>1. queue[m] \in Seq(Job) /\ owed[m] \in Nat /\ irq[m] \in IrqRec
  BY DEF JobInv, JobTypes
<1>2. dev[m].refcount = RefSum(Cardinality(SubmitRefs(m)), Cardinality(KeepRefs(m)),
                               queue[m], owed[m], irq[m])
  BY DEF ChildRefs, RefSum
<1>3. /\ Cardinality(SubmitRefs(m)) = 0 /\ Len(queue[m]) = 0 /\ owed[m] = 0
      /\ irq[m].at = "drop" => irq[m].n = 0
  <2>1. Cardinality(SubmitRefs(m)) \in Nat /\ Cardinality(KeepRefs(m)) \in Nat
    BY RefsFinite
  <2> QED
    BY <1>1, <1>2, <2>1, NoRefs
<1>4. SubmitRefs(m) = {}
  BY <1>3, RefsFinite, FS_EmptySet
<1>5. queue[m] = <<>>
  BY <1>1, <1>3
<1>6. DoneIn(queue[m]) = {} /\ OpenIn(queue[m]) = {}
  BY <1>5 DEF DoneIn, OpenIn
<1>7. Cardinality(DoneIn(queue[m])) = 0
  BY <1>6, FS_EmptySet
<1>8. JobOK(queue[m], owed[m], irq[m], m \in td)
  BY DEF JobInv
<1>9. m \notin td /\ irq[m].at = "idle"
  BY <1>1, <1>3, <1>6, <1>7, <1>8 DEF JobOK, IrqRec
<1> QED
  BY <1>3, <1>4, <1>5, <1>9 DEF Quiet

(* When a module's context is saved by a power-off, with dev->lock held,   *)
(* the module has no submit under way, no job, no completion to handle and *)
(* no teardown, for any number of files and modules: the reversed order of *)
(* dev->lock with submitlock and cdma->lock in host1x_save_context never   *)
(* meets the order of host1x_channel_submit and nvhost_cdma's teardown.    *)
(* The argument is the references: the section starts only when there are  *)
(* none, none is taken while it holds the lock or since a suspend saw the  *)
(* module idle (whoever suspends is the last one out, or has frozen the    *)
(* processes), and ChildRefs turns no reference into no work.              *)
THEOREM SavingAloneCorrect == Spec => []SavingAlone
<1>1. Init => CtxInv
  BY ChannelAssumption DEF Init, CtxInv, CtxIsOpen
<1>2. Init => Alone
  BY ChannelAssumption DEF Init, Alone, Threads, SuspendPcs
<1>3. Init => IdleInv
  BY ChannelAssumption DEF Init, AcmInit, IdleInv, Threads, Mods, Taken
<1>4. JobInv /\ ChildRefs /\ IdleInv => SavingAlone
  BY UnreferencedIsQuiet DEF IdleInv, SavingAlone, Taken
<1> QED
  BY <1>1, <1>2, <1>3, <1>4, PlacesInit, PlacesNext, CtxNext, JobInit, JobNext, ParentInit,
     ParentNext, RefsInit, RefsNext, AloneNext, IdleNext, PTL
  DEF Spec

-----------------------------------------------------------------------------
(* What a step does to one module: from its record d to its record e *)

(* the fields that most sections leave alone *)
Stays(d, e) == e.refcount = d.refcount /\ e.started = d.started /\ e.clkbad = d.clkbad

(* nvhost_module_busy, up to its wait for the host *)
ToBusy(d, e) ==
    /\ d.at = "free" /\ e.refcount = d.refcount + 1 /\ e.started = d.started
    /\ e.clkbad = d.clkbad /\ e.powerstate = d.powerstate
    /\ e.at = IF e.refcount > 0 /\ ~Up(d) THEN "busy" ELSE "free"

(* nvhost_module_idle_mult *)
ToIdle(d, e) ==
    /\ d.at = "free" /\ e.at = "free" /\ e.refcount <= d.refcount /\ e.started = d.started
    /\ e.clkbad = d.clkbad /\ e.powerstate = d.powerstate
    /\ e.pending = d.pending \/ (Up(e) /\ e.pending)
    /\ e.refcount = 0 /\ Up(e) => e.pending

(* the clocks are started, for a user or for a context save *)
ToUp(d, e) ==
    /\ d.at = "busy" /\ e.at = "free" /\ e.refcount = d.refcount /\ e.started = d.started
    /\ Up(e) \/ e.clkbad
    /\ e.powerstate # "powergated"
ToOffUp(d, e) ==
    /\ d.at = "off_up" /\ e.at = "off_save" /\ e.refcount = d.refcount /\ e.started = d.started
    /\ e.by = d.by /\ Up(e) /\ e.clkbad = FALSE

(* the delayed work starts *)
ToStart(d, e) ==
    /\ d.pending /\ d.started < MaxStarted /\ e.started = d.started + 1
    /\ e.at = d.at /\ e.by = d.by /\ e.powerstate = d.powerstate
    /\ e.refcount = d.refcount /\ e.clkbad = d.clkbad

(* to_state_powergated_locked of client module m *)
ToOff(m, d, e, by) ==
    \/ /\ e.at = "free" /\ e.powerstate = "powergated"
       /\ m \in HasPoweroff => d.powerstate = "powergated"
    \/ /\ e.at \in {"off_up", "off_save", "off_idle"} /\ e.by = by
       /\ d.powerstate # "powergated" /\ e.powerstate = d.powerstate
       /\ e.at \in {"off_up", "off_save"} <=> m \in HasPoweroff

(* its delayed work has the lock *)
ToDown(m, d, e) ==
    /\ d.at = "free" /\ d.started > 0 /\ e.started = d.started - 1
    /\ e.refcount = d.refcount /\ e.clkbad = d.clkbad
    /\ \/ d.refcount # 0 /\ e.at = "free" /\ e.powerstate = d.powerstate
       \/ d.refcount = 0 /\ e.at = "down_idle" /\ Up(d) /\ e.powerstate = d.powerstate
       \/ d.refcount = 0 /\ ToOff(m, d, e, "work")

ToSuspend(m, d, e) == d.at = "free" /\ Stays(d, e) /\ ToOff(m, d, e, "suspend")

(* prepare_poweroff goes on, or fails *)
ToSaved(m, d, e) ==
    /\ d.at \in {"off_save", "off_wait"} /\ Stays(d, e) /\ e.powerstate = d.powerstate
    /\ \/ e.at \in {"off_idle", "off_wait"} /\ e.by = d.by
       \/ /\ d.at = "off_save" /\ e.at = "free" /\ (SuspendSaves => d.by = "work")
          /\ d.by = "work" /\ m \in CanPowergate => e.pending
    /\ e.at = "off_wait" => d.at = "off_save"

(* clocks off *)
ToGated(d, e) ==
    /\ d.at \in {"down_idle", "off_idle"} /\ e.at = "free" /\ Stays(d, e) /\ ~Up(e)
    /\ d.at = "off_idle" <=> e.powerstate = "powergated"

LEMMA BusyIs ==
    ASSUME NEW d \in DevRec
    PROVE  LET c == [Cancel(d) EXCEPT !.refcount = @ + 1]
               l == IF c.refcount > 0 /\ ~nvhost_module_powered(c) THEN "busy" ELSE "free"
           IN  d.at = "free" => ToBusy(d, At(c, l))
<1> DEFINE c == [Cancel(d) EXCEPT !.refcount = @ + 1]
           l == IF c.refcount > 0 /\ ~nvhost_module_powered(c) THEN "busy" ELSE "free"
<1>1. /\ c \in DevRec /\ c.refcount = d.refcount + 1 /\ c.powerstate = d.powerstate
      /\ c.clkbad = d.clkbad
  BY CountedRec
<1>2. c.started = d.started
  BY DEF Cancel, DevRec
<1>3. l = IF c.refcount > 0 /\ ~Up(d) THEN "busy" ELSE "free"
  BY <1>1 DEF Up, nvhost_module_powered
<1> HIDE DEF c, l
<1>4. /\ At(c, l).refcount = c.refcount /\ At(c, l).powerstate = c.powerstate
      /\ At(c, l).clkbad = c.clkbad /\ At(c, l).started = c.started /\ At(c, l).at = l
  BY <1>1 DEF At, DevRec
<1>5. d.at = "free" => ToBusy(d, At(c, l))
  BY <1>1, <1>2, <1>3, <1>4 DEF ToBusy
<1> QED BY <1>5 DEF c, l

LEMMA IdleIs ==
    ASSUME NEW d \in DevRec, NEW n \in Nat, d.at = "free"
    PROVE  ToIdle(d, Idle(d, n))
<1> DEFINE e == [d EXCEPT !.refcount = @ - n]
<1>1. /\ e \in DevRec /\ e.refcount = d.refcount - n /\ e.at = d.at /\ e.started = d.started
      /\ e.powerstate = d.powerstate /\ e.clkbad = d.clkbad /\ e.pending = d.pending
  BY DEF DevRec
<1>2. e.refcount <= d.refcount
  BY <1>1 DEF DevRec
<1>3. Idle(d, n) = IF e.refcount = 0 /\ Up(e) THEN [e EXCEPT !.pending = TRUE] ELSE e
  BY DEF Idle, schedule_clockgating, Up
<1> HIDE DEF e
<1>4. CASE e.refcount = 0 /\ Up(e)
  <2> DEFINE f == [e EXCEPT !.pending = TRUE]
  <2>1. /\ f.refcount = e.refcount /\ f.at = e.at /\ f.started = e.started
        /\ f.powerstate = e.powerstate /\ f.clkbad = e.clkbad /\ f.pending = TRUE
    BY <1>1 DEF DevRec
  <2> HIDE DEF f
  <2>2. ToIdle(d, f)
    BY <1>1, <1>2, <1>4, <2>1 DEF ToIdle, Up, nvhost_module_powered
  <2> QED BY <1>3, <1>4, <2>2 DEF f
<1>5. CASE ~(e.refcount = 0 /\ Up(e))
  <2>1. ToIdle(d, e)
    BY <1>1, <1>2, <1>5 DEF ToIdle
  <2> QED BY <1>3, <1>5, <2>1
<1> QED BY <1>4, <1>5

LEMMA UpIs ==
    ASSUME NEW d \in DevRec, NEW ok \in BOOLEAN
    PROVE  /\ d.at = "busy" => ToUp(d, At(ClocksOn(d, ok), "free"))
           /\ d.at = "off_up" => ToOffUp(d, At(ClocksOn(d, TRUE), "off_save"))
BY DEF ClocksOn, At, DevRec, Up, nvhost_module_powered, ToUp, ToOffUp

LEMMA OffIs ==
    ASSUME NEW m \in Children, NEW d \in DevRec, NEW by \in {"work", "suspend"}
    PROVE  Stays(d, PowerOff(m, d, by)) /\ (d.at = "free" => ToOff(m, d, PowerOff(m, d, by), by))
BY AcmAssumption
DEF PowerOff, Stays, ToOff, DevRec, At, Unlock, PoweredOff, Steps

LEMMA SavedIs ==
    ASSUME NEW m \in Children, NEW d \in DevRec, Up(d)
    PROVE  /\ d.at \in {"off_save", "off_wait"} => ToSaved(m, d, AfterPoweroff(m, d, FALSE))
           /\ d.at = "off_save" /\ (SuspendSaves => d.by = "work") => ToSaved(m, d, AfterPoweroff(m, d, TRUE))
           /\ d.at = "off_save" => ToSaved(m, d, At(d, "off_wait"))
BY DEF AfterPoweroff, ToSaved, Stays, DevRec, Up, nvhost_module_powered, At, Unlock, PoweredOff,
       schedule_powergating, Steps

LEMMA GatedIs ==
    ASSUME NEW m \in Mods, NEW d \in DevRec
    PROVE  LET e == Unlock(IF d.at = "off_idle" THEN PoweredOff(d)
                           ELSE schedule_powergating(m, [d EXCEPT !.powerstate = "clockgated"]))
           IN  d.at \in {"down_idle", "off_idle"} => ToGated(d, e)
BY DEF Unlock, PoweredOff, schedule_powergating, DevRec, Up, nvhost_module_powered, Steps, ToGated, Stays

-----------------------------------------------------------------------------
(* What a step does to a client module, and to the host *)

ChildMove(m) ==
    \/ dev'[m] = dev[m]
    \/ ToBusy(dev[m], dev'[m]) /\ \E u \in Users : TakeRef(u) /\ on[u] = m
    \/ /\ ToUp(dev[m], dev'[m]) /\ (dev'[m].clkbad => leaked' > leaked)
       /\ \E u \in Users : TakeRefUp(u) /\ on[u] = m
    \/ ToSuspend(m, dev[m], dev'[m]) /\ \E t \in Threads : SuspendOff(t) /\ on[t] = m
    \/ ToIdle(dev[m], dev'[m]) \/ ToOffUp(dev[m], dev'[m]) \/ ToStart(dev[m], dev'[m])
    \/ ToDown(m, dev[m], dev'[m]) \/ ToGated(dev[m], dev'[m])
    \/ /\ ToSaved(m, dev[m], dev'[m]) /\ (dev'[m].at = "off_wait" => cur_ctx[m] # None)
       /\ OffSave(m) \/ OffWait(m)

LEMMA StartIs ==
    ASSUME NEW m \in Mods, dev \in [Mods -> DevRec], WorkStart(m)
    PROVE  ToStart(dev[m], dev'[m]) /\ \A k \in Mods \ {m} : dev'[k] = dev[k]
<1> DEFINE d == [dev[m] EXCEPT !.pending = FALSE]
           e == [d EXCEPT !.started = d.started + 1]
<1>1. dev' = [dev EXCEPT ![m] = e] /\ dev[m].pending /\ dev[m].started < MaxStarted
  BY DEF WorkStart
<1>2. /\ d \in DevRec /\ d.refcount = dev[m].refcount /\ d.at = dev[m].at /\ d.by = dev[m].by
      /\ d.powerstate = dev[m].powerstate /\ d.clkbad = dev[m].clkbad
      /\ d.started = dev[m].started
  BY DEF DevRec
<1> HIDE DEF d
<1>3. /\ e.refcount = d.refcount /\ e.at = d.at /\ e.by = d.by
      /\ e.powerstate = d.powerstate /\ e.clkbad = d.clkbad
      /\ e.started = d.started + 1
  BY <1>2 DEF DevRec
<1> HIDE DEF e
<1> QED
  BY <1>1, <1>2, <1>3 DEF ToStart

LEMMA DownIs ==
    ASSUME NEW m \in Children, dev \in [Mods -> DevRec], WorkRun(m)
    PROVE  ToDown(m, dev[m], dev'[m]) /\ \A k \in Mods \ {m} : dev'[k] = dev[k]
<1> DEFINE d == [dev[m] EXCEPT !.started = @ - 1]
           e == powerstate_down(m, d)
<1>0. m \in Mods /\ dev[m] \in DevRec /\ m # Host
  BY AcmAssumption DEF Mods
<1>1. dev' = [dev EXCEPT ![m] = e] /\ dev[m].at = "free" /\ dev[m].started > 0
  BY Zenon DEF WorkRun, LockFree
<1>2. /\ d \in DevRec /\ d.refcount = dev[m].refcount /\ d.at = "free"
      /\ d.powerstate = dev[m].powerstate /\ d.clkbad = dev[m].clkbad
      /\ d.started = dev[m].started - 1
  BY <1>0, <1>1 DEF DevRec
<1> HIDE DEF d
<1>3. Stays(d, PowerOff(m, d, "work")) /\ ToOff(m, d, PowerOff(m, d, "work"), "work")
  BY <1>2, OffIs
<1>4. /\ Stays(d, At(d, "down_idle")) /\ At(d, "down_idle").at = "down_idle"
      /\ At(d, "down_idle").powerstate = d.powerstate
  BY <1>2 DEF At, DevRec, Stays
<1>5. \/ d.refcount # 0 /\ e = d
      \/ d.refcount = 0 /\ e = PowerOff(m, d, "work")
      \/ d.refcount = 0 /\ Up(d) /\ e = At(d, "down_idle")
  BY <1>0 DEF powerstate_down, Up
<1> HIDE DEF e
<1>6. ToDown(m, dev[m], e)
  <2>1. CASE d.refcount # 0 /\ e = d
    BY <1>1, <1>2, <2>1 DEF ToDown
  <2>2. CASE d.refcount = 0 /\ e = PowerOff(m, d, "work")
    BY <1>1, <1>2, <1>3, <2>2 DEF ToDown, Stays, ToOff
  <2>3. CASE d.refcount = 0 /\ Up(d) /\ e = At(d, "down_idle")
    BY <1>1, <1>2, <1>4, <2>3 DEF ToDown, Stays, Up, nvhost_module_powered
  <2> QED BY <1>5, <2>1, <2>2, <2>3
<1> QED
  BY <1>0, <1>1, <1>6

LEMMA SuspendIs ==
    ASSUME NEW m \in Children, dev \in [Mods -> DevRec], SuspendLocked(m)
    PROVE  ToSuspend(m, dev[m], dev'[m]) /\ \A k \in Mods \ {m} : dev'[k] = dev[k]
<1> DEFINE d == Cancel(dev[m])
           e == PowerOff(m, d, "suspend")
<1>0. m \in Mods /\ dev[m] \in DevRec
  BY DEF Mods
<1>1. dev' = [dev EXCEPT ![m] = e] /\ dev[m].at = "free"
  BY Zenon DEF SuspendLocked, LockFree
<1>2. /\ d \in DevRec /\ d.refcount = dev[m].refcount /\ d.at = "free"
      /\ d.powerstate = dev[m].powerstate /\ d.clkbad = dev[m].clkbad
      /\ d.started = dev[m].started
  BY <1>0, <1>1 DEF Cancel, DevRec
<1> HIDE DEF d
<1>3. Stays(d, e) /\ ToOff(m, d, e, "suspend")
  BY <1>2, OffIs
<1> HIDE DEF e
<1>4. ToSuspend(m, dev[m], e)
  BY <1>1, <1>2, <1>3 DEF ToSuspend, Stays, ToOff
<1> QED
  BY <1>0, <1>1, <1>4

(* where the host is called with the lock of client module m held *)
LEMMA RunningIs ==
    ASSUME NEW m \in Children, dev \in [Mods -> DevRec], leaked \in Int, NEW ok \in BOOLEAN,
           NEW l \in Steps, ToRunning(m, ok, l)
    PROVE  /\ dev'[m] = At(ClocksOn(dev[m], ok), l) /\ dev'[Host] = BusyHost(dev[Host])
           /\ \A k \in Children \ {m} : dev'[k] = dev[k]
           /\ leaked' = IF ok THEN leaked ELSE leaked + 1
           /\ dev[Host].at = "free" /\ (ok \/ leaked < MaxClkFails)
<1>0. m \in Mods /\ Host \in Mods /\ m # Host
  BY AcmAssumption DEF Mods
<1> DEFINE e == At(ClocksOn(dev[m], ok), l)
           h == BusyHost(dev[Host])
<1>1. dev' = [dev EXCEPT ![Host] = h, ![m] = e]
  BY <1>0 DEF ToRunning
<1> HIDE DEF e, h
<1>2. dev'[m] = e /\ dev'[Host] = h /\ \A k \in Children \ {m} : dev'[k] = dev[k]
  BY <1>0, <1>1, AcmAssumption DEF Mods
<1> QED
  BY <1>2 DEF e, h, ToRunning, LockFree

LEMMA GateIs ==
    ASSUME NEW m \in Children, dev \in [Mods -> DevRec], GateChild(m)
    PROVE  /\ ToGated(dev[m], dev'[m]) /\ dev'[Host] = Idle(dev[Host], 1) /\ dev[Host].at = "free"
           /\ \A k \in Children \ {m} : dev'[k] = dev[k]
<1>0. m \in Mods /\ Host \in Mods /\ m # Host /\ dev[m] \in DevRec
  BY AcmAssumption DEF Mods
<1> DEFINE d == dev[m]
           e == Unlock(IF d.at = "off_idle" THEN PoweredOff(d)
                       ELSE schedule_powergating(m, [d EXCEPT !.powerstate = "clockgated"]))
           h == Idle(dev[Host], 1)
<1>1. dev' = [dev EXCEPT ![Host] = h, ![m] = e] /\ d.at \in {"down_idle", "off_idle"}
  BY <1>0 DEF GateChild
<1>2. ToGated(d, e)
  BY <1>0, <1>1, GatedIs
<1> HIDE DEF d, e, h
<1>3. dev'[m] = e /\ dev'[Host] = h /\ \A k \in Children \ {m} : dev'[k] = dev[k]
  BY <1>0, <1>1, AcmAssumption DEF Mods
<1> QED
  BY <1>2, <1>3 DEF d, h, GateChild, LockFree

LEMMA BusyStepIs ==
    ASSUME NEW m \in Children, dev \in [Mods -> DevRec], Busy(m)
    PROVE  ToBusy(dev[m], dev'[m]) /\ \A k \in Mods \ {m} : dev'[k] = dev[k]
<1>0. m \in Mods /\ dev[m] \in DevRec
  BY DEF Mods
<1> DEFINE c == [Cancel(dev[m]) EXCEPT !.refcount = @ + 1]
           l == IF c.refcount > 0 /\ ~nvhost_module_powered(c) THEN "busy" ELSE "free"
           e == At(c, l)
<1>1. dev' = [dev EXCEPT ![m] = e] /\ dev[m].at = "free"
  BY DEF Busy, LockFree
<1>2. ToBusy(dev[m], e)
  BY <1>0, <1>1, BusyIs
<1> HIDE DEF e
<1> QED
  BY <1>0, <1>1, <1>2

LEMMA IdleStepIs ==
    ASSUME NEW m \in Mods, dev \in [Mods -> DevRec], NEW n \in Nat, IdleMult(m, n)
    PROVE  ToIdle(dev[m], dev'[m]) /\ \A k \in Mods \ {m} : dev'[k] = dev[k]
<1>1. dev' = [dev EXCEPT ![m] = Idle(dev[m], n)] /\ dev[m].at = "free"
  BY DEF IdleMult, LockFree
<1> QED
  BY <1>1, IdleIs

LEMMA OffStepIs ==
    ASSUME NEW m \in Children, dev \in [Mods -> DevRec], Section(dev[m]), OffSave(m) \/ OffWait(m)
    PROVE  /\ ToSaved(m, dev[m], dev'[m]) /\ (dev'[m].at = "off_wait" => cur_ctx[m] # None)
           /\ \A k \in Mods \ {m} : dev'[k] = dev[k]
<1>0. m \in Mods /\ dev[m] \in DevRec
  BY DEF Mods
<1>1. dev[m].at \in {"off_save", "off_wait"} /\ Up(dev[m])
  BY DEF OffSave, OffWait, Section
<1> DEFINE f == AfterPoweroff(m, dev[m], FALSE)
           g == AfterPoweroff(m, dev[m], TRUE)
           h == At(dev[m], "off_wait")
<1>2. /\ ToSaved(m, dev[m], f)
      /\ dev[m].at = "off_save" /\ (SuspendSaves => dev[m].by = "work") => ToSaved(m, dev[m], g)
      /\ dev[m].at = "off_save" => ToSaved(m, dev[m], h)
  BY <1>0, <1>1, SavedIs
<1>6. f.at # "off_wait" /\ g.at # "off_wait"
  BY <1>0, AfterPoweroffRec
<1>3. \/ dev' = [dev EXCEPT ![m] = f]
      \/ /\ dev[m].at = "off_save" /\ (SuspendSaves => dev[m].by = "work")
         /\ dev' = [dev EXCEPT ![m] = g]
      \/ dev[m].at = "off_save" /\ cur_ctx[m] # None /\ dev' = [dev EXCEPT ![m] = h]
  BY DEF OffSave, OffWait
<1> HIDE DEF f, g, h
<1>4. PICK e : /\ dev' = [dev EXCEPT ![m] = e] /\ ToSaved(m, dev[m], e)
               /\ e.at = "off_wait" => cur_ctx[m] # None
  BY <1>2, <1>3, <1>6
<1> QED
  BY <1>0, <1>4

LEMMA UpMove ==
    ASSUME Places, ParentInv, NEW u \in Users, TakeRefUp(u), NEW m \in Children
    PROVE  ChildMove(m)
<1>1. /\ dev \in [Mods -> DevRec] /\ leaked \in Int /\ on[u] \in Children /\ dev[on[u]].at = "busy"
      /\ "free" \in Steps /\ dev[on[u]] \in DevRec
  BY DEF ParentInv, Places, TakeRefUp, Steps, Mods
<1>2. PICK ok \in BOOLEAN : ToRunning(on[u], ok, "free")
  BY DEF TakeRefUp
<1> DEFINE e == At(ClocksOn(dev[on[u]], ok), "free")
<1>3. /\ dev'[on[u]] = e /\ \A k \in Children \ {on[u]} : dev'[k] = dev[k]
      /\ leaked' = IF ok THEN leaked ELSE leaked + 1
  BY <1>1, <1>2, RunningIs
<1>4. ToUp(dev[on[u]], e)
  BY <1>1, UpIs
<1>5. ok => e.clkbad = FALSE
  BY <1>1 DEF At, ClocksOn, DevRec
<1> HIDE DEF e
<1>6. e.clkbad => leaked' > leaked
  BY <1>1, <1>3, <1>5
<1>7. CASE m = on[u]
  BY <1>3, <1>4, <1>6, <1>7 DEF ChildMove
<1>8. CASE m # on[u]
  BY <1>3, <1>8 DEF ChildMove
<1> QED BY <1>7, <1>8

LEMMA ChildMoves ==
    ASSUME Places, JobInv, ParentInv, [Next]_vars, NEW m \in Children
    PROVE  ChildMove(m)
<1>0. dev \in [Mods -> DevRec] /\ m \in Mods /\ m # Host /\ Host \in Mods /\ leaked \in Int
  BY AcmAssumption DEF ParentInv, Mods
<1>1. CASE dev' = dev
  BY <1>1 DEF ChildMove
<1>2. ASSUME NEW u \in Users, UserStep(u) PROVE ChildMove(m)
  <2>1. CASE TakeRef(u)
    <3>1. on[u] \in Children /\ Busy(on[u])
      BY <2>1 DEF TakeRef, Places
    <3>2. ToBusy(dev[on[u]], dev'[on[u]]) /\ \A k \in Mods \ {on[u]} : dev'[k] = dev[k]
      BY <1>0, <3>1, BusyStepIs
    <3> QED
      BY <1>0, <2>1, <3>2 DEF ChildMove
  <2>2. CASE TakeRefUp(u)
    BY <2>2, UpMove
  <2>3. CASE DropRef(u)
    <3>1. on[u] \in Children /\ IdleMult(on[u], 1) /\ on[u] \in Mods
      BY <2>3 DEF DropRef, Places, Mods
    <3>2. ToIdle(dev[on[u]], dev'[on[u]]) /\ \A k \in Mods \ {on[u]} : dev'[k] = dev[k]
      BY <1>0, <3>1, IdleStepIs
    <3> QED
      BY <1>0, <3>2 DEF ChildMove
  <2>4. CASE ~(TakeRef(u) \/ TakeRefUp(u) \/ DropRef(u))
    BY <1>1, <1>2, <2>4
    DEF UserStep, Open, LockSubmit, SubmitFails, Push, Close, Put, Stop, acmVars
  <2> QED BY <2>1, <2>2, <2>3, <2>4
<1>3. ASSUME NEW t \in Threads, SuspendStep(t) PROVE ChildMove(m)
  <2>1. CASE SuspendOff(t) /\ on[t] \in Children
    <3>1. ToSuspend(on[t], dev[on[t]], dev'[on[t]]) /\ \A k \in Mods \ {on[t]} : dev'[k] = dev[k]
      BY <1>0, <2>1, SuspendIs DEF SuspendOff
    <3> QED
      BY <1>0, <2>1, <3>1 DEF ChildMove
  <2>2. CASE SuspendOff(t) /\ on[t] \notin Children
    <3>1. dev'[m] = dev[m]
      BY <1>0, <2>2 DEF SuspendOff, SuspendLocked
    <3> QED BY <3>1 DEF ChildMove
  <2>3. CASE ~SuspendOff(t)
    BY <1>1, <1>3, <2>3 DEF SuspendStep, SeenIdle, SuspendBusy, SuspendReturns, acmVars
  <2> QED BY <2>1, <2>2, <2>3
<1>4. CASE Freeze \/ \E k \in Mods : PmSuspend(k)
  BY <1>1, <1>4 DEF Freeze, PmSuspend, acmVars
<1>5. CASE \E k \in Ctrls : CtrlLock(k) \/ CtrlUnlock(k)
  <2>1. dev'[m] = dev[m]
    BY <1>0, <1>5 DEF CtrlLock, CtrlUnlock, HostBusy, HostIdle
  <2> QED BY <2>1 DEF ChildMove
<1>6. ASSUME NEW k \in Children, ChannelStep(k) PROVE ChildMove(m)
  <2>0. k \in Mods /\ Section(dev[k])
    BY DEF Mods, ParentInv
  <2>1. CASE IrqDrop(k)
    <3>1. IdleMult(k, irq[k].n) /\ irq[k].n \in Nat
      BY <2>1 DEF IrqDrop, JobInv, JobTypes, IrqRec
    <3>2. ToIdle(dev[k], dev'[k]) /\ \A c \in Mods \ {k} : dev'[c] = dev[c]
      BY <1>0, <2>0, <3>1, IdleStepIs
    <3> QED BY <1>0, <3>2 DEF ChildMove
  <2>2. CASE OffSave(k) \/ OffWait(k)
    <3>1. /\ ToSaved(k, dev[k], dev'[k]) /\ (dev'[k].at = "off_wait" => cur_ctx[k] # None)
          /\ \A c \in Mods \ {k} : dev'[c] = dev[c]
      BY <1>0, <2>0, <2>2, OffStepIs
    <3> QED BY <1>0, <2>2, <3>1 DEF ChildMove
  <2>3. CASE ~(IrqDrop(k) \/ OffSave(k) \/ OffWait(k))
    BY <1>1, <1>6, <2>3
    DEF ChannelStep, Switch, Execute, IrqStart, IrqUpdate, TdBegin, TdReset, acmVars
  <2> QED BY <2>1, <2>2, <2>3
<1>7. ASSUME NEW k \in Mods, PowerStep(k) PROVE ChildMove(m)
  <2>1. CASE WorkStart(k)
    BY <1>0, <2>1, StartIs DEF ChildMove
  <2>2. CASE WorkRun(k) /\ k \in Children
    BY <1>0, <2>2, DownIs DEF ChildMove
  <2>3. CASE (WorkRun(k) /\ k \notin Children) \/ (k = Host /\ GateHost)
    <3>1. dev'[m] = dev[m]
      BY <1>0, <2>3 DEF WorkRun, GateHost
    <3> QED BY <3>1 DEF ChildMove
  <2>4. CASE k \in Children /\ GateChild(k)
    BY <1>0, <2>4, GateIs DEF ChildMove
  <2>5. CASE k \in Children /\ OffUp(k)
    <3>1. /\ ToRunning(k, TRUE, "off_save") /\ dev[k].at = "off_up" /\ dev[k] \in DevRec
          /\ "off_save" \in Steps
      BY <1>0, <2>5 DEF OffUp, Steps
    <3>2. /\ dev'[k] = At(ClocksOn(dev[k], TRUE), "off_save")
          /\ \A c \in Children \ {k} : dev'[c] = dev[c]
      BY <1>0, <2>5, <3>1, RunningIs
    <3>3. ToOffUp(dev[k], At(ClocksOn(dev[k], TRUE), "off_save"))
      BY <3>1, UpIs
    <3>4. ToOffUp(dev[k], dev'[k])
      BY <3>2, <3>3
    <3> QED
      BY <3>2, <3>4 DEF ChildMove
  <2> QED
    BY <1>7, <2>1, <2>2, <2>3, <2>4, <2>5 DEF PowerStep
<1> QED
  BY <1>1, <1>2, <1>3, <1>4, <1>5, <1>6, <1>7 DEF Next, vars, acmVars

(* nvhost_module_busy of the host: it is up when it returns *)
HostUp(d, e) ==
    /\ d.at = "free" /\ e.at = "free" /\ e.refcount = d.refcount + 1 /\ e.started = d.started
    /\ e.refcount > 0 => Up(e)

(* the host is taken down, up to the wait for nvhost_intr_stop *)
HostOff(e) == e.at \in {"stop", "off_stop"} \/ (e.at = "free" /\ ~Up(e))

HostDown(d, e) ==
    /\ d.at = "free" /\ d.started > 0 /\ e.started = d.started - 1 /\ e.refcount = d.refcount
    /\ \/ d.refcount # 0 /\ e.at = "free" /\ e.powerstate = d.powerstate
       \/ d.refcount = 0 /\ HostOff(e)

HostGated(d, e) ==
    /\ d.at \in {"stop", "off_stop"} /\ e.at = "free" /\ ~Up(e)
    /\ e.refcount = d.refcount /\ e.started = d.started

HostMove ==
    \/ dev'[Host] = dev[Host]
    \/ /\ HostUp(dev[Host], dev'[Host])
       /\ Awake \/ (\E u \in Users : TakeRefUp(u)) \/ \E m \in Children : dev[m].at = "off_up"
    \/ ToIdle(dev[Host], dev'[Host]) \/ ToStart(dev[Host], dev'[Host])
    \/ HostDown(dev[Host], dev'[Host]) \/ HostGated(dev[Host], dev'[Host])
    \/ /\ dev[Host].at = "free" /\ dev'[Host].refcount = dev[Host].refcount
       /\ dev'[Host].started = dev[Host].started /\ HostOff(dev'[Host])
       /\ \E t \in Threads : SuspendOff(t) /\ on[t] = Host

LEMMA HostBusyIs ==
    ASSUME NEW d \in DevRec, d.at = "free"
    PROVE  HostUp(d, BusyHost(d))
<1> DEFINE c == [Cancel(d) EXCEPT !.refcount = @ + 1]
<1>1. c \in DevRec /\ c.refcount = d.refcount + 1 /\ c.at = "free"
  BY CountedRec
<1>2. c.started = d.started
  BY DEF Cancel, DevRec
<1>3. BusyHost(d) = IF c.refcount > 0 /\ ~Up(c) THEN ClocksOn(c, TRUE) ELSE c
  BY DEF BusyHost, Up
<1> HIDE DEF c
<1>4. /\ ClocksOn(c, TRUE).refcount = c.refcount /\ ClocksOn(c, TRUE).at = c.at
      /\ ClocksOn(c, TRUE).started = c.started /\ Up(ClocksOn(c, TRUE))
  BY <1>1 DEF ClocksOn, DevRec, Up, nvhost_module_powered
<1> QED
  BY <1>1, <1>2, <1>3, <1>4 DEF HostUp

LEMMA HostOffIs ==
    ASSUME NEW d \in DevRec, NEW by \in {"work", "suspend"}
    PROVE  Stays(d, PowerOff(Host, d, by)) /\ HostOff(PowerOff(Host, d, by))
BY DEF PowerOff, Stays, HostOff, DevRec, At, Unlock, Up, nvhost_module_powered

LEMMA HostDownIs ==
    ASSUME dev \in [Mods -> DevRec], WorkRun(Host)
    PROVE  HostDown(dev[Host], dev'[Host])
<1> DEFINE d == [dev[Host] EXCEPT !.started = @ - 1]
           e == powerstate_down(Host, d)
<1>0. Host \in Mods /\ dev[Host] \in DevRec
  BY DEF Mods
<1>1. dev' = [dev EXCEPT ![Host] = e] /\ dev[Host].at = "free" /\ dev[Host].started > 0
  BY Zenon DEF WorkRun, LockFree
<1>2. /\ d \in DevRec /\ d.refcount = dev[Host].refcount /\ d.at = "free"
      /\ d.powerstate = dev[Host].powerstate /\ d.started = dev[Host].started - 1
  BY <1>0, <1>1 DEF DevRec
<1> HIDE DEF d
<1>3. Stays(d, PowerOff(Host, d, "work")) /\ HostOff(PowerOff(Host, d, "work"))
  BY <1>2, HostOffIs
<1>4. Stays(d, At(d, "stop")) /\ HostOff(At(d, "stop"))
  BY <1>2 DEF At, DevRec, Stays, HostOff
<1>5. \/ d.refcount # 0 /\ e = d
      \/ d.refcount = 0 /\ e \in {PowerOff(Host, d, "work"), At(d, "stop")}
  BY DEF powerstate_down
<1> HIDE DEF e
<1>6. HostDown(dev[Host], e)
  BY <1>1, <1>2, <1>3, <1>4, <1>5 DEF HostDown, Stays
<1> QED
  BY <1>0, <1>1, <1>6

LEMMA HostGateIs ==
    ASSUME dev \in [Mods -> DevRec], GateHost
    PROVE  HostGated(dev[Host], dev'[Host])
<1>0. Host \in Mods /\ dev[Host] \in DevRec
  BY DEF Mods
<1> DEFINE d == dev[Host]
           f == Unlock(PoweredOff(d))
           g == Unlock(schedule_powergating(Host, [d EXCEPT !.powerstate = "clockgated"]))
<1>1. d.at \in {"stop", "off_stop"} /\ dev'[Host] \in {f, g}
  BY <1>0 DEF GateHost
<1>2. HostGated(d, f) /\ HostGated(d, g)
  BY <1>0, <1>1 DEF HostGated, Unlock, PoweredOff, schedule_powergating, DevRec, Up,
                    nvhost_module_powered, Steps
<1> HIDE DEF d, f, g
<1>3. HostGated(d, dev'[Host])
  BY <1>1, <1>2
<1> QED
  BY <1>3 DEF d

LEMMA HostMoves ==
    ASSUME Places, JobInv, ParentInv, [Next]_vars
    PROVE  HostMove
<1>0. /\ dev \in [Mods -> DevRec] /\ Host \in Mods /\ Host \notin Children /\ leaked \in Int
      /\ dev[Host] \in DevRec
  BY AcmAssumption DEF ParentInv, Mods
<1>1. CASE dev'[Host] = dev[Host]
  BY <1>1 DEF HostMove
<1>2. ASSUME NEW u \in Users, UserStep(u) PROVE HostMove
  <2>1. CASE TakeRefUp(u)
    <3>1. on[u] \in Children /\ "free" \in Steps
      BY <2>1 DEF TakeRefUp, Places, Steps
    <3>2. PICK ok \in BOOLEAN : ToRunning(on[u], ok, "free")
      BY <2>1 DEF TakeRefUp
    <3>3. dev'[Host] = BusyHost(dev[Host]) /\ dev[Host].at = "free"
      BY <1>0, <3>1, <3>2, RunningIs
    <3>4. HostUp(dev[Host], dev'[Host])
      BY <1>0, <3>3, HostBusyIs
    <3> QED BY <2>1, <3>4 DEF HostMove
  <2>2. CASE TakeRef(u) \/ DropRef(u)
    <3>1. on[u] \in Children
      BY <2>2 DEF TakeRef, DropRef, Places
    <3>2. dev'[Host] = dev[Host]
      BY <1>0, <2>2, <3>1 DEF TakeRef, DropRef, Busy, IdleMult
    <3> QED BY <1>1, <3>2
  <2>3. CASE ~(TakeRef(u) \/ TakeRefUp(u) \/ DropRef(u))
    BY <1>1, <1>2, <2>3
    DEF UserStep, Open, LockSubmit, SubmitFails, Push, Close, Put, Stop, acmVars
  <2> QED BY <2>1, <2>2, <2>3
<1>3. ASSUME NEW t \in Threads, SuspendStep(t) PROVE HostMove
  <2>1. CASE SuspendOff(t) /\ on[t] = Host
    <3> DEFINE d == Cancel(dev[Host])
               e == PowerOff(Host, d, "suspend")
    <3>1. dev' = [dev EXCEPT ![Host] = e] /\ dev[Host].at = "free"
      BY <2>1, Zenon DEF SuspendOff, SuspendLocked, LockFree
    <3>2. d \in DevRec /\ d.refcount = dev[Host].refcount /\ d.started = dev[Host].started
      BY <1>0 DEF Cancel, DevRec
    <3> HIDE DEF d
    <3>3. Stays(d, e) /\ HostOff(e)
      BY <3>2, HostOffIs
    <3> HIDE DEF e
    <3>4. dev'[Host] = e
      BY <1>0, <3>1
    <3> QED BY <2>1, <3>1, <3>2, <3>3, <3>4 DEF HostMove, Stays
  <2>2. CASE SuspendOff(t) /\ on[t] # Host
    BY <1>0, <1>1, <2>2 DEF SuspendOff, SuspendLocked
  <2>3. CASE ~SuspendOff(t)
    BY <1>1, <1>3, <2>3 DEF SuspendStep, SeenIdle, SuspendBusy, SuspendReturns, acmVars
  <2> QED BY <2>1, <2>2, <2>3
<1>4. CASE Freeze \/ \E k \in Mods : PmSuspend(k)
  BY <1>1, <1>4 DEF Freeze, PmSuspend, acmVars
<1>5. ASSUME NEW k \in Ctrls, CtrlLock(k) \/ CtrlUnlock(k) PROVE HostMove
  <2>1. CASE CtrlLock(k)
    <3>1. dev'[Host] = BusyHost(dev[Host]) /\ dev[Host].at = "free" /\ Awake
      BY <1>0, <2>1 DEF CtrlLock, HostBusy, LockFree
    <3>2. HostUp(dev[Host], dev'[Host])
      BY <1>0, <3>1, HostBusyIs
    <3> QED BY <3>1, <3>2 DEF HostMove
  <2>2. CASE CtrlUnlock(k)
    <3>1. dev'[Host] = Idle(dev[Host], 1) /\ dev[Host].at = "free"
      BY <1>0, <2>2 DEF CtrlUnlock, HostIdle, LockFree
    <3>2. ToIdle(dev[Host], dev'[Host])
      BY <1>0, <3>1, IdleIs
    <3> QED BY <3>2 DEF HostMove
  <2> QED BY <1>5, <2>1, <2>2
<1>6. ASSUME NEW k \in Children, ChannelStep(k) PROVE HostMove
  BY <1>0, <1>1, <1>6
  DEF ChannelStep, IrqDrop, IdleMult, OffSave, OffWait, Switch, Execute, IrqStart, IrqUpdate,
      TdBegin, TdReset, acmVars
<1>7. ASSUME NEW k \in Mods, PowerStep(k) PROVE HostMove
  <2>1. CASE WorkStart(k)
    BY <1>0, <2>1, StartIs DEF HostMove
  <2>2. CASE WorkRun(k) /\ k = Host
    BY <1>0, <2>2, HostDownIs DEF HostMove
  <2>3. CASE WorkRun(k) /\ k # Host
    BY <1>0, <1>1, <2>3 DEF WorkRun
  <2>4. CASE k \in Children /\ GateChild(k)
    <3>1. dev'[Host] = Idle(dev[Host], 1) /\ dev[Host].at = "free"
      BY <1>0, <2>4, GateIs
    <3>2. ToIdle(dev[Host], dev'[Host])
      BY <1>0, <3>1, IdleIs
    <3> QED BY <3>2 DEF HostMove
  <2>5. CASE k \in Children /\ OffUp(k)
    <3>1. ToRunning(k, TRUE, "off_save") /\ dev[k].at = "off_up" /\ "off_save" \in Steps
      BY <2>5 DEF OffUp, Steps
    <3>2. dev'[Host] = BusyHost(dev[Host]) /\ dev[Host].at = "free"
      BY <1>0, <2>5, <3>1, RunningIs
    <3>3. HostUp(dev[Host], dev'[Host])
      BY <1>0, <3>2, HostBusyIs
    <3> QED BY <2>5, <3>1, <3>3 DEF HostMove
  <2>6. CASE k = Host /\ GateHost
    BY <1>0, <2>6, HostGateIs DEF HostMove
  <2> QED
    BY <1>7, <2>1, <2>2, <2>3, <2>4, <2>5, <2>6 DEF PowerStep
<1> QED
  BY <1>1, <1>2, <1>3, <1>4, <1>5, <1>6, <1>7 DEF Next, vars, acmVars

LEMMA LeakMoves ==
    ASSUME Places, JobInv, ParentInv, [Next]_vars
    PROVE  leaked' = leaked \/ (leaked < MaxClkFails /\ leaked' = leaked + 1)
<1>0. leaked \in Int
  BY DEF ParentInv
<1>1. CASE \E u \in Users : TakeRefUp(u)
  BY <1>1 DEF TakeRefUp, ToRunning
<1>2. CASE \E u \in Users : UserStep(u) /\ ~TakeRefUp(u)
  BY <1>2 DEF UserStep, Open, TakeRef, DropRef, LockSubmit, SubmitFails, Push, Close, Put, Stop,
              acmVars, Busy, IdleMult
<1>3. CASE \E t \in Threads : SuspendStep(t)
  BY <1>3 DEF SuspendStep, SeenIdle, SuspendBusy, SuspendOff, SuspendReturns, SuspendLocked, acmVars
<1>4. CASE Freeze \/ \E k \in Mods : PmSuspend(k)
  BY <1>4 DEF Freeze, PmSuspend, acmVars
<1>5. CASE \E k \in Ctrls : CtrlLock(k) \/ CtrlUnlock(k)
  BY <1>5 DEF CtrlLock, CtrlUnlock, HostBusy, HostIdle
<1>6. CASE \E m \in Children : ChannelStep(m)
  BY <1>6 DEF ChannelStep, Switch, Execute, IrqStart, IrqUpdate, IrqDrop, IdleMult, TdBegin, TdReset,
              OffSave, OffWait, acmVars
<1>7. CASE \E m \in Mods : PowerStep(m)
  BY <1>7 DEF PowerStep, WorkStart, WorkRun, GateChild, OffUp, ToRunning, GateHost
<1> QED
  BY <1>1, <1>2, <1>3, <1>4, <1>5, <1>6, <1>7 DEF Next, vars, acmVars

-----------------------------------------------------------------------------
(* The types *)

(* all that was shown so far *)
Base == Places /\ CtxInv /\ JobInv /\ ParentInv /\ ChildRefs /\ Alone /\ IdleInv

LEMMA BaseInit == Init => Base
<1>1. Init => CtxInv
  BY ChannelAssumption DEF Init, CtxInv, CtxIsOpen
<1>2. Init => Alone
  BY ChannelAssumption DEF Init, Alone, Threads, SuspendPcs
<1>3. Init => IdleInv
  BY ChannelAssumption DEF Init, AcmInit, IdleInv, Threads, Mods, Taken
<1> QED
  BY <1>1, <1>2, <1>3, PlacesInit, JobInit, ParentInit, RefsInit DEF Base

LEMMA BaseNext == Base /\ [Next]_vars => Base'
BY PlacesNext, CtxNext, JobNext, ParentNext, RefsNext, AloneNext, IdleNext DEF Base

(* handlers and failed clocks are counted within their bounds, and a       *)
(* failed clock has left a reference to the host behind                    *)
Bounded ==
    /\ \A m \in Mods : dev[m].started \in 0 .. MaxStarted
    /\ leaked \in 0 .. MaxClkFails
    /\ \A m \in Children : dev[m].clkbad => leaked > 0

LEMMA BoundedInit == Init => Bounded
BY AcmAssumption DEF Init, AcmInit, Bounded, Mods

LEMMA StartedChild ==
    ASSUME Bounded, NEW m \in Children, ChildMove(m), dev[m] \in DevRec
    PROVE  dev'[m].started \in 0 .. MaxStarted
<1>1. dev[m].started \in 0 .. MaxStarted /\ MaxStarted \in Nat
  BY AcmAssumption DEF Bounded, Mods
<1>2. \/ dev'[m].started = dev[m].started
      \/ dev[m].started < MaxStarted /\ dev'[m].started = dev[m].started + 1
      \/ dev[m].started > 0 /\ dev'[m].started = dev[m].started - 1
  BY DEF ChildMove, ToBusy, ToUp, ToSuspend, Stays, ToIdle, ToOffUp, ToStart, ToDown, ToSaved, ToGated
<1> QED
  BY <1>1, <1>2

LEMMA StartedHost ==
    ASSUME Bounded, HostMove
    PROVE  dev'[Host].started \in 0 .. MaxStarted
<1>1. dev[Host].started \in 0 .. MaxStarted /\ MaxStarted \in Nat
  BY AcmAssumption DEF Bounded, Mods
<1>2. \/ dev'[Host].started = dev[Host].started
      \/ dev[Host].started < MaxStarted /\ dev'[Host].started = dev[Host].started + 1
      \/ dev[Host].started > 0 /\ dev'[Host].started = dev[Host].started - 1
  BY DEF HostMove, HostUp, ToIdle, ToStart, HostDown, HostGated
<1> QED
  BY <1>1, <1>2

LEMMA BoundedNext == Base /\ Bounded /\ [Next]_vars => Bounded'
<1> SUFFICES ASSUME Base, Bounded, [Next]_vars PROVE Bounded'
  OBVIOUS
<1>1. HostMove /\ \A m \in Children : ChildMove(m)
  BY HostMoves, ChildMoves DEF Base
<1>2. leaked \in 0 .. MaxClkFails /\ MaxClkFails \in Nat
  BY AcmAssumption DEF Bounded
<1>3. leaked' = leaked \/ (leaked < MaxClkFails /\ leaked' = leaked + 1)
  BY LeakMoves DEF Base
<1>4. leaked' \in 0 .. MaxClkFails /\ leaked' >= leaked
  BY <1>2, <1>3
<1>5. ASSUME NEW m \in Mods PROVE dev'[m].started \in 0 .. MaxStarted
  BY <1>1, StartedHost, StartedChild DEF Mods, Base, ParentInv
<1>6. ASSUME NEW m \in Children, dev'[m].clkbad PROVE leaked' > 0
  <2>1. dev[m].clkbad => leaked > 0
    BY DEF Bounded
  <2>2. (dev'[m].clkbad => dev[m].clkbad) \/ leaked' > leaked
    <3>1. ChildMove(m)
      BY <1>1
    <3> QED
      BY <1>6, <3>1, Zenon
      DEF ChildMove, ToBusy, ToUp, ToSuspend, Stays, ToIdle, ToOffUp, ToStart, ToDown, ToSaved, ToGated
  <2> QED
    BY <1>2, <1>4, <1>6, <2>1, <2>2
<1> QED
  BY <1>4, <1>5, <1>6 DEF Bounded

Counts == \A m \in Mods : dev[m].refcount \in Nat

LEMMA CountsHold == Base /\ Bounded => Counts
<1> SUFFICES ASSUME Base, Bounded PROVE Counts
  OBVIOUS
<1>1. dev[Host].refcount \in Nat
  <2>1. /\ dev[Host].refcount = Cardinality(holding) + Cardinality(Powered) + leaked
        /\ holding \subseteq Ctrls
    BY DEF Base, ParentInv, ParentRefs, Powered
  <2>2. leaked \in Nat
    BY AcmAssumption DEF Bounded
  <2> QED
    BY <2>1, <2>2, PoweredFinite
<1>2. ASSUME NEW m \in Children PROVE dev[m].refcount \in Nat
  <2>1. /\ queue[m] \in Seq(Job) /\ owed[m] \in Nat /\ irq[m] \in IrqRec
    BY DEF Base, JobInv, JobTypes
  <2>2. Cardinality(SubmitRefs(m)) \in Nat /\ Cardinality(KeepRefs(m)) \in Nat
    BY RefsFinite
  <2>3. Len(queue[m]) \in Nat /\ (IF irq[m].at = "drop" THEN irq[m].n ELSE 0) \in Nat
    BY <2>1 DEF IrqRec
  <2>4. dev[m].refcount = Cardinality(SubmitRefs(m)) + Cardinality(KeepRefs(m)) + Len(queue[m])
                            + owed[m] + (IF irq[m].at = "drop" THEN irq[m].n ELSE 0)
    BY DEF Base, ChildRefs
  <2> QED
    BY <2>1, <2>2, <2>3, <2>4
<1> QED
  BY <1>1, <1>2 DEF Counts, Mods

(* what belongs to the contexts, and the suspended modules *)
CtxTypes ==
    /\ timedout \subseteq Users /\ valid \subseteq Users
    /\ regs \in [Children -> Users \cup {None}]
    /\ fresh \subseteq Users /\ ran \subseteq Users
    /\ suspended \subseteq Children

LEMMA LostType ==
    ASSUME CtxTypes, NEW m \in Mods
    PROVE  Lost(m) \in [Children -> Users \cup {None}]
BY DEF Lost, CtxTypes

LEMMA ForgetTypes ==
    ASSUME CtxTypes, NEW S, Forget(S)
    PROVE  /\ timedout' \subseteq Users /\ valid' \subseteq Users
           /\ regs' \in [Children -> Users \cup {None}]
           /\ fresh' \subseteq Users /\ ran' \subseteq Users
BY DEF Forget, CtxTypes

LEMMA HeadJob ==
    ASSUME JobInv, NEW m \in Children, Unfinished(m) # {}
    PROVE  /\ queue[m][AtHead(m)] \in Job /\ queue[m][AtHead(m)].ctx \in Users
           /\ queue[m][AtHead(m)].save \in Users \cup {None}
<1>1. queue[m] \in Seq(Job)
  BY DEF JobInv, JobTypes
<1>2. AtHead(m) \in 1 .. Len(queue[m])
  BY HeadInQueue
<1>3. queue[m][AtHead(m)] \in Job
  BY <1>1, <1>2
<1> QED BY <1>3 DEF Job

(* the steps that change a current context *)
LEMMA CurrentMoves ==
    ASSUME [Next]_vars
    PROVE  \/ cur_ctx' = cur_ctx \/ (\E u \in Users : Push(u)) \/ (\E u \in Users : Close(u))
           \/ \E k \in Children : OffWait(k)
<1>1. CASE \E u \in Users : UserStep(u)
  BY <1>1 DEF UserStep, Open, TakeRef, TakeRefUp, LockSubmit, SubmitFails, DropRef, Put, Stop
<1>2. CASE \E t \in Threads : SuspendStep(t)
  BY <1>2 DEF SuspendStep, SeenIdle, SuspendBusy, SuspendOff, SuspendReturns
<1>3. CASE Freeze \/ (\E k \in Mods : PmSuspend(k)) \/ \E k \in Ctrls : CtrlLock(k) \/ CtrlUnlock(k)
  BY <1>3 DEF Freeze, PmSuspend, CtrlLock, CtrlUnlock
<1>4. CASE \E k \in Children : ChannelStep(k)
  BY <1>4 DEF ChannelStep, Switch, Execute, IrqStart, IrqUpdate, IrqDrop, TdBegin, TdReset, OffSave
<1>5. CASE \E k \in Mods : PowerStep(k)
  BY <1>5 DEF PowerStep
<1> QED
  BY <1>1, <1>2, <1>3, <1>4, <1>5 DEF Next, vars

(* the context that a power-off waits for stays, since a close needs       *)
(* submitlock to take it away                                              *)
SaveInv == \A m \in Children : dev[m].at = "off_wait" => cur_ctx[m] # None

LEMMA SaveNext == Base /\ SaveInv /\ [Next]_vars => SaveInv'
<1> SUFFICES ASSUME Base, SaveInv, [Next]_vars, NEW m \in Children, dev'[m].at = "off_wait"
             PROVE  cur_ctx'[m] # None
  BY DEF SaveInv
<1>0. /\ cur_ctx \in [Children -> Users \cup {None}] /\ pc \in [Threads -> AllPcs]
      /\ None \notin Users
  BY ChannelAssumption DEF Base, CtxInv, Places
<1>1. ChildMove(m)
  BY ChildMoves DEF Base
<1>2. dev[m].at \in {"off_save", "off_wait"} /\ cur_ctx[m] # None
  BY <1>1
  DEF ChildMove, ToBusy, ToUp, ToSuspend, ToOff, ToIdle, ToOffUp, ToStart, ToDown, ToSaved, ToGated, SaveInv
<1>3. CASE cur_ctx'[m] = cur_ctx[m]
  BY <1>2, <1>3
<1>4. CASE \E u \in Users : Push(u)
  BY <1>0, <1>2, <1>4 DEF Push, Base, Places
<1>5. CASE \E u \in Users : Close(u)
  <2>1. PICK u \in Users : Close(u)
    BY <1>5
  <2>2. dev' = dev /\ dev[on[u]].at # "off_wait"
    BY <2>1 DEF Close, acmVars, SubmitLockFree
  <2>3. on[u] \in Children /\ on[u] # m
    BY <2>1, <2>2 DEF Close, Base, Places
  <2> QED
    BY <1>0, <1>2, <2>1, <2>3 DEF Close, ClearCtx
<1>6. CASE \E k \in Children : OffWait(k)
  <2>1. PICK k \in Children : OffWait(k)
    BY <1>6
  <2>2. k = m => dev'[m].at # "off_wait"
    <3>1. dev \in [Mods -> DevRec] /\ m \in Mods
      BY DEF Base, ParentInv, Mods
    <3>2. AfterPoweroff(m, dev[m], FALSE).at # "off_wait"
      BY <3>1, AfterPoweroffRec
    <3> QED
      BY <2>1, <3>1, <3>2 DEF OffWait
  <2> QED
    BY <1>0, <1>2, <2>1, <2>2 DEF OffWait
<1> QED
  BY <1>3, <1>4, <1>5, <1>6, CurrentMoves

LEMMA CtxTypesNext == Base /\ SaveInv /\ CtxTypes /\ [Next]_vars => CtxTypes'
<1> SUFFICES ASSUME Base, SaveInv, CtxTypes, [Next]_vars PROVE CtxTypes'
  OBVIOUS
<1>0. CASE UNCHANGED <<ctxVars, suspended>>
  BY <1>0 DEF ctxVars, CtxTypes
<1>2. ASSUME NEW u \in Users, UserStep(u) PROVE CtxTypes'
  <2>1. CASE \E m \in Children : Open(u, m)
    BY <2>1, ForgetTypes DEF Open, CtxTypes
  <2>2. CASE Put(u)
    BY <2>2, ForgetTypes DEF Put, CtxTypes
  <2>3. CASE Push(u)
    <3>1. on[u] \in Children
      BY <2>3 DEF Push, Base, Places
    <3>2. cur_ctx[on[u]] \in Users \cup {None}
      BY <3>1 DEF Base, CtxInv
    <3> QED
      BY <2>3, <3>2 DEF Push, SaveNeeded, CtxTypes
  <2>4. CASE ~(Put(u) \/ Push(u) \/ \E m \in Children : Open(u, m))
    BY <1>0, <1>2, <2>4
    DEF UserStep, TakeRef, TakeRefUp, LockSubmit, SubmitFails, DropRef, Close, Stop
  <2> QED BY <2>1, <2>2, <2>3, <2>4
<1>3. ASSUME NEW t \in Threads, SuspendStep(t) PROVE CtxTypes'
  <2>1. pc[t] \in SuspendPcs /\ on[t] \in Mods
    BY <1>3 DEF SuspendStep, SeenIdle, SuspendBusy, SuspendOff, SuspendReturns, SuspendPcs, Base,
                Places, Threads, Mods
  <2>2. ASSUME NEW ok \in BOOLEAN, Returns(t, ok) PROVE CtxTypes'
    BY <2>1, <2>2, ForgetTypes DEF Returns, CtxTypes, Mods
  <2>3. CASE SuspendOff(t)
    BY <2>1, <2>3, LostType DEF SuspendOff, CtxTypes
  <2> QED
    BY <1>0, <1>3, <2>2, <2>3 DEF SuspendStep, SeenIdle, SuspendBusy, SuspendReturns
<1>4. CASE Freeze \/ \E k \in Mods : PmSuspend(k)
  BY <1>0, <1>4 DEF Freeze, PmSuspend
<1>5. CASE \E k \in Ctrls : CtrlLock(k) \/ CtrlUnlock(k)
  BY <1>0, <1>5 DEF CtrlLock, CtrlUnlock
<1>6. ASSUME NEW m \in Children, ChannelStep(m) PROVE CtxTypes'
  <2>0. m \in Mods /\ JobInv
    BY DEF Mods, Base
  <2>1. CASE Switch(m)
    <3> DEFINE j == queue[m][AtHead(m)]
    <3>1. j.ctx \in Users /\ j.save \in Users \cup {None}
      BY <2>0, <2>1, HeadJob DEF Switch, CanExecute
    <3>2. fresh' = SavedFresh(m, j.save)
      BY <2>1 DEF Switch
    <3>3. \E c \in Users \cup {None} : regs' = [regs EXCEPT ![m] = c]
      <4>1. regs' = [regs EXCEPT ![m] = IF j.restore THEN (IF j.ctx \in fresh' THEN j.ctx ELSE None)
                                        ELSE IF j.ctx \in ran THEN regs[m] ELSE j.ctx]
        BY <2>1 DEF Switch
      <4>2. regs[m] \in Users \cup {None}
        BY DEF CtxTypes
      <4> HIDE DEF j
      <4> QED
        BY <3>1, <4>1, <4>2
    <3> HIDE DEF j
    <3>4. fresh' \subseteq Users
      BY <3>1, <3>2 DEF SavedFresh, CtxTypes
    <3> QED
      BY <2>1, <3>3, <3>4 DEF Switch, CtxTypes
  <2>2. CASE Execute(m)
    <3>1. queue[m][AtHead(m)].ctx \in Users
      BY <2>0, <2>2, HeadJob DEF Execute, CanExecute
    <3> QED
      BY <2>2, <3>1 DEF Execute, CtxTypes
  <2>3. CASE TdReset(m)
    <3>1. Unfinished(m) # {}
      BY <2>0, <2>3 DEF TdReset, JobInv, JobOK, OpenIn, Unfinished
    <3>2. queue[m][AtHead(m)].ctx \in Users
      BY <2>0, <3>1, HeadJob
    <3> QED
      BY <2>3, <3>2 DEF TdReset, CtxTypes
  <2>4. CASE OffSave(m)
    BY <2>0, <2>4, LostType DEF OffSave, CtxTypes
  <2>5. CASE OffWait(m)
    <3>1. cur_ctx[m] # None
      BY <2>5 DEF OffWait, SaveInv
    <3>2. cur_ctx[m] \in Users
      BY <3>1 DEF Base, CtxInv
    <3> QED
      BY <2>0, <2>5, <3>2, LostType DEF OffWait, SavedFresh, CtxTypes
  <2>6. CASE ~(Switch(m) \/ Execute(m) \/ TdReset(m) \/ OffSave(m) \/ OffWait(m))
    BY <1>0, <1>6, <2>6 DEF ChannelStep, IrqStart, IrqUpdate, IrqDrop, TdBegin
  <2> QED BY <2>1, <2>2, <2>3, <2>4, <2>5, <2>6
<1>7. CASE \E m \in Mods : PowerStep(m)
  BY <1>7, LostType DEF PowerStep, CtxTypes
<1> QED
  BY <1>0, <1>2, <1>3, <1>4, <1>5, <1>6, <1>7 DEF Next, vars

(* Every variable stays in its type, the bounded counters within their     *)
(* bounds, and no reference count of a module ever becomes negative: a     *)
(* reference is dropped only by its holder, nvhost_module_idle_mult drops  *)
(* as many as there are completed jobs, and the host's are those of the    *)
(* client modules that run.                                                *)
THEOREM ChannelTypes == Spec => []TypeOK
<1>1. Init => CtxTypes /\ SaveInv
  BY DEF Init, AcmInit, CtxTypes, SaveInv, Mods
<1>2. Base /\ Bounded /\ CtxTypes /\ Counts => TypeOK
  <2> SUFFICES ASSUME Base, Bounded, CtxTypes, Counts PROVE TypeOK
    OBVIOUS
  <2>1. \A m \in Mods : dev[m] \in Device
    <3> SUFFICES ASSUME NEW m \in Mods PROVE dev[m] \in Device
      OBVIOUS
    <3>1. dev[m] \in DevRec /\ dev[m].started \in 0 .. MaxStarted /\ dev[m].refcount \in Nat
      BY DEF Base, ParentInv, Bounded, Counts
    <3> QED
      BY <3>1 DEF DevRec, Device
  <2>2. AcmTypeOK
    BY <2>1 DEF AcmTypeOK, Base, ParentInv, Bounded
  <2> QED
    BY <2>2 DEF TypeOK, Base, Places, AllPcs, CtxInv, JobInv, JobTypes, IrqRec, ParentInv, CtxTypes
<1> QED
  BY <1>1, <1>2, BaseInit, BaseNext, BoundedInit, BoundedNext, CountsHold, SaveNext, CtxTypesNext, PTL
  DEF Spec

-----------------------------------------------------------------------------
(* Client modules: referenced means powered *)

(* A client module that is referenced is up, unless its clocks failed, or  *)
(* somebody is bringing it up, who holds the only reference.               *)
ChildOK(m, d) ==
    /\ d.at \notin {"stop", "off_stop"}
    /\ d.at = "free" /\ d.refcount > 0 => Up(d) \/ d.clkbad
    /\ d.at = "busy" => d.refcount > 0 /\ (d.clkbad \/ d.refcount = 1)
    /\ d.at \in {"off_up", "off_save", "off_wait"} => m \in HasPoweroff

ChildInv == \A m \in Children : ChildOK(m, dev[m])

LEMMA ChildNext == Base /\ Counts /\ ChildInv /\ [Next]_vars => ChildInv'
<1> SUFFICES ASSUME Base, Counts, ChildInv, [Next]_vars, NEW m \in Children
             PROVE  ChildOK(m, dev'[m])
  BY DEF ChildInv
<1> DEFINE d == dev[m]
           e == dev'[m]
<1>1. ChildMove(m)
  BY ChildMoves DEF Base
<1>2. d \in DevRec /\ d.refcount \in Nat /\ ChildOK(m, d)
  BY DEF Base, ParentInv, Counts, ChildInv, Mods
<1>3. Taken(d) => d.refcount = 0
  BY DEF Base, IdleInv
<1>4. ASSUME NEW t \in Threads, SuspendOff(t), on[t] = m PROVE d.refcount = 0
  BY <1>4 DEF SuspendOff, Base, IdleInv
<1>5. e \in DevRec
  BY BaseNext DEF Base, ParentInv, Mods
<1>6. CASE ToBusy(d, e)
  BY <1>2, <1>6 DEF ToBusy, ChildOK, Up, nvhost_module_powered
<1>7. CASE ToUp(d, e)
  BY <1>7 DEF ToUp, ChildOK
<1>8. CASE ToSuspend(m, d, e) /\ d.refcount = 0
  BY <1>8 DEF ToSuspend, Stays, ToOff, ChildOK
<1>9. CASE ToIdle(d, e)
  BY <1>2, <1>5, <1>9 DEF ToIdle, ChildOK, Up, nvhost_module_powered, DevRec
<1>10. CASE ToOffUp(d, e)
  BY <1>2, <1>10 DEF ToOffUp, ChildOK
<1>11. CASE ToStart(d, e)
  BY <1>2, <1>11 DEF ToStart, ChildOK, Up, nvhost_module_powered
<1>12. CASE ToDown(m, d, e)
  BY <1>2, <1>12 DEF ToDown, ToOff, ChildOK, Up, nvhost_module_powered
<1>13. CASE ToGated(d, e)
  BY <1>3, <1>13 DEF ToGated, Stays, ChildOK, Taken
<1>14. CASE ToSaved(m, d, e)
  BY <1>2, <1>3, <1>14 DEF ToSaved, Stays, ChildOK, Taken
<1> HIDE DEF d, e
<1>15. CASE e = d
  BY <1>2, <1>15 DEF d, e
<1> QED
  BY <1>1, <1>4, <1>6, <1>7, <1>8, <1>9, <1>10, <1>11, <1>12, <1>13, <1>14, <1>15
  DEF ChildMove, d, e

-----------------------------------------------------------------------------
(* A running module without a user is watched by its work *)

Watched(d) == d.at = "free" /\ d.refcount = 0 /\ Up(d) => d.pending \/ d.started > 0

LEMMA WatchedChild ==
    ASSUME SuspendSaves, HasPoweroff \subseteq CanPowergate, Base, Bounded, Counts, ChildInv,
           NEW m \in Children, Watched(dev[m]), [Next]_vars
    PROVE  Watched(dev'[m])
<1> DEFINE d == dev[m]
           e == dev'[m]
<1>1. ChildMove(m)
  BY ChildMoves DEF Base
<1>2. /\ d \in DevRec /\ d.refcount \in Nat /\ ChildOK(m, d) /\ d.started \in Nat
  BY AcmAssumption DEF Base, ParentInv, Counts, ChildInv, Mods, Bounded
<1>3. e \in DevRec
  BY BaseNext DEF Base, ParentInv, Mods
<1>4. CASE ToBusy(d, e)
  BY <1>2, <1>4 DEF ToBusy, Watched
<1>5. CASE ToUp(d, e)
  BY <1>2, <1>5 DEF ToUp, Watched, ChildOK
<1>6. CASE ToSuspend(m, d, e)
  BY <1>6 DEF ToSuspend, ToOff, Watched, Up, nvhost_module_powered
<1>7. CASE ToIdle(d, e)
  BY <1>7 DEF ToIdle, Watched
<1>8. CASE ToOffUp(d, e)
  BY <1>8 DEF ToOffUp, Watched
<1>9. CASE ToStart(d, e)
  BY <1>2, <1>9 DEF ToStart, Watched
<1>10. CASE ToDown(m, d, e)
  BY <1>10 DEF ToDown, ToOff, Watched, Up, nvhost_module_powered
<1>11. CASE ToGated(d, e)
  BY <1>11 DEF ToGated, Watched
<1>12. CASE ToSaved(m, d, e)
  BY <1>2, <1>12 DEF ToSaved, Watched, ChildOK
<1> HIDE DEF d, e
<1>13. CASE e = d
  BY <1>13 DEF d, e
<1> QED
  BY <1>1, <1>4, <1>5, <1>6, <1>7, <1>8, <1>9, <1>10, <1>11, <1>12, <1>13 DEF ChildMove, d, e

LEMMA WatchedHost ==
    ASSUME Base, Bounded, Counts, Watched(dev[Host]), [Next]_vars
    PROVE  Watched(dev'[Host])
<1> DEFINE d == dev[Host]
           e == dev'[Host]
<1>1. HostMove
  BY HostMoves DEF Base
<1>2. /\ d \in DevRec /\ d.refcount \in Nat /\ d.started \in Nat
  BY AcmAssumption DEF Base, ParentInv, Counts, Mods, Bounded
<1>3. CASE HostUp(d, e)
  BY <1>2, <1>3 DEF HostUp, Watched
<1>4. CASE ToIdle(d, e)
  BY <1>4 DEF ToIdle, Watched
<1>5. CASE ToStart(d, e)
  BY <1>2, <1>5 DEF ToStart, Watched
<1>6. CASE HostDown(d, e) \/ HostGated(d, e) \/ HostOff(e)
  BY <1>6 DEF HostDown, HostGated, HostOff, Watched
<1> HIDE DEF d, e
<1>7. CASE e = d
  BY <1>7 DEF d, e
<1> QED
  BY <1>1, <1>3, <1>4, <1>5, <1>6, <1>7 DEF HostMove, d, e

WatchedInv == \A m \in Mods : Watched(dev[m])

(* A module that runs without a user has its delayed work pending or       *)
(* started, for any number of modules and handlers: nvhost_module_busy     *)
(* cancels the work only where a reference is taken, whose holder          *)
(* schedules it again as the last one out, the handler that finds no user  *)
(* takes the module down, and a power-off whose save failed is retried.    *)
(* The last of these is why a suspend must get the memory for its save     *)
(* (its failure is not retried), and why a module that saves a context     *)
(* must be one that may be power-gated (schedule_powergating does nothing  *)
(* for the others).                                                        *)
THEOREM IdleWatched ==
    ASSUME SuspendSaves, HasPoweroff \subseteq CanPowergate
    PROVE  Spec => []IdleIsWatched
<1>1. Init => ChildInv
  BY AcmAssumption DEF Init, AcmInit, ChildInv, ChildOK, Mods
<1>2. Init => WatchedInv
  BY DEF Init, AcmInit, WatchedInv, Watched, Up, nvhost_module_powered
<1>3. Base /\ Bounded /\ Counts /\ ChildInv /\ WatchedInv /\ [Next]_vars => WatchedInv'
  <2> SUFFICES ASSUME Base, Bounded, Counts, ChildInv, WatchedInv, [Next]_vars, NEW m \in Mods
               PROVE  Watched(dev'[m])
    BY DEF WatchedInv
  <2>1. CASE m = Host
    BY <2>1, WatchedHost DEF WatchedInv
  <2>2. CASE m \in Children
    BY <2>2, WatchedChild DEF WatchedInv
  <2> QED BY <2>1, <2>2 DEF Mods
<1>4. WatchedInv => IdleIsWatched
  BY DEF WatchedInv, Watched, IdleIsWatched, LockFree, Up
<1> QED
  BY <1>1, <1>2, <1>3, <1>4, BaseInit, BaseNext, BoundedInit, BoundedNext, CountsHold, ChildNext, PTL
  DEF Spec

-----------------------------------------------------------------------------
(* The threads: who moves, and what they keep *)

LEMMA ThreadMoves ==
    ASSUME Places, [Next]_vars, NEW t \in Threads
    PROVE  \/ pc'[t] = pc[t] /\ on'[t] = on[t]
           \/ t \in Users /\ UserStep(t)
           \/ SuspendStep(t)
           \/ t = Pm /\ (Freeze \/ \E m \in Mods : PmSuspend(m))
<1>0. pc \in [Threads -> AllPcs] /\ on \in [Threads -> Mods \cup {None}]
  BY DEF Places
<1>1. CASE UNCHANGED userVars
  BY <1>1 DEF userVars
<1>2. ASSUME NEW u \in Users, UserStep(u), u # t PROVE pc'[t] = pc[t] /\ on'[t] = on[t]
  <2>1. \E l : Goto(u, l)
    BY <1>2 DEF UserStep, Open, TakeRef, TakeRefUp, LockSubmit, SubmitFails, DropRef, Push,
           Close, Put, Stop
  <2>2. on' = on \/ \E m : on' = [on EXCEPT ![u] = m]
    BY <1>2 DEF UserStep, Open, TakeRef, TakeRefUp, LockSubmit, SubmitFails, DropRef, Push,
           Close, Put, Stop
  <2> QED
    BY <1>0, <1>2, <2>1, <2>2 DEF Goto
<1>3. ASSUME NEW v \in Threads, SuspendStep(v), v # t PROVE pc'[t] = pc[t] /\ on'[t] = on[t]
  BY <1>0, <1>3 DEF SuspendStep, SeenIdle, SuspendBusy, SuspendOff, SuspendReturns, Returns, Goto
<1>4. CASE Freeze \/ \E m \in Mods : PmSuspend(m)
  <2>1. t # Pm => pc'[t] = pc[t] /\ on'[t] = on[t]
    BY <1>0, <1>4 DEF Freeze, PmSuspend, Goto
  <2> QED BY <1>4, <2>1
<1>5. CASE \E k \in Ctrls : CtrlLock(k) \/ CtrlUnlock(k)
  BY <1>1, <1>5 DEF CtrlLock, CtrlUnlock
<1>6. CASE \E m \in Children : ChannelStep(m)
  BY <1>1, <1>6 DEF ChannelStep, Switch, Execute, IrqStart, IrqUpdate, IrqDrop, TdBegin, TdReset,
                    OffSave, OffWait
<1>7. CASE \E m \in Mods : PowerStep(m)
  BY <1>1, <1>7 DEF PowerStep
<1> QED
  BY <1>1, <1>2, <1>3, <1>4, <1>5, <1>6, <1>7 DEF Next, vars

(* during a suspend the files stay where they are *)
LEMMA FrozenStay ==
    ASSUME Places, Alone, [Next]_vars, ~Awake, NEW u \in Users
    PROVE  /\ pc'[u] = pc[u] /\ on'[u] = on[u] /\ pc[u] \in {"closed", "open"}
           /\ ~UserStep(u) /\ ~SuspendStep(u)
<1>1. pc[u] \in {"closed", "open"} /\ u \in Threads /\ u # Pm
  BY ChannelAssumption DEF Alone, Awake, Threads
<1>2. ~UserStep(u)
  BY <1>1 DEF UserStep, Open, TakeRef, TakeRefUp, LockSubmit, SubmitFails, DropRef, Push,
              Close, Put, Stop
<1>3. ~SuspendStep(u)
  BY <1>1 DEF SuspendStep, SeenIdle, SuspendBusy, SuspendOff, SuspendReturns
<1> QED
  BY <1>1, <1>2, <1>3, ThreadMoves

(* whoever waits for the host with dev->lock held is there *)
UpInv ==
    \A m \in Children : dev[m].at = "busy" =>
        \E u \in Users : on[u] = m /\ pc[u] \in {"keep_up", "submit_up"}

LEMMA UpNext == Base /\ UpInv /\ [Next]_vars => UpInv'
<1> SUFFICES ASSUME Base, UpInv, [Next]_vars, NEW m \in Children, dev'[m].at = "busy"
             PROVE  \E u \in Users : on'[u] = m /\ pc'[u] \in {"keep_up", "submit_up"}
  BY DEF UpInv
<1>1. ChildMove(m) /\ pc \in [Threads -> AllPcs] /\ Places
  BY ChildMoves DEF Base, Places
<1>2. \/ dev[m].at = "busy"
      \/ \E u \in Users : TakeRef(u) /\ on[u] = m
  BY <1>1
  DEF ChildMove, ToUp, ToSuspend, ToOff, ToIdle, ToOffUp, ToStart, ToDown, ToSaved, ToGated
<1>3. CASE \E u \in Users : TakeRef(u) /\ on[u] = m
  BY <1>1, <1>3 DEF TakeRef, Goto, Threads
<1>4. CASE dev[m].at = "busy"
  <2>1. PICK u \in Users : on[u] = m /\ pc[u] \in {"keep_up", "submit_up"}
    BY <1>4 DEF UpInv
  <2>2. ~TakeRefUp(u)
    <3>1. SUFFICES ASSUME TakeRefUp(u) PROVE FALSE
      OBVIOUS
    <3>2. PICK ok \in BOOLEAN : ToRunning(m, ok, "free")
      BY <2>1, <3>1 DEF TakeRefUp
    <3>3. dev'[m] = At(ClocksOn(dev[m], ok), "free") /\ dev[m] \in DevRec
      BY <3>2, RunningIs DEF Base, ParentInv, Steps, Mods
    <3>4. dev'[m].at = "free"
      BY <3>3, ClocksRec DEF Steps
    <3> QED BY <3>4
  <2>3. ~UserStep(u) /\ ~SuspendStep(u) /\ u # Pm /\ u \in Threads
    BY <2>1, <2>2, ChannelAssumption
    DEF UserStep, Open, TakeRef, LockSubmit, SubmitFails, DropRef, Push, Close, Put, Stop,
        SuspendStep, SeenIdle, SuspendBusy, SuspendOff, SuspendReturns, Threads
  <2>4. pc'[u] = pc[u] /\ on'[u] = on[u]
    BY <1>1, <2>3, ThreadMoves
  <2> QED BY <2>1, <2>4
<1> QED BY <1>2, <1>3, <1>4

(* the steps that change a queue *)
LEMMA QueueMoves ==
    ASSUME [Next]_vars
    PROVE  \/ queue' = queue \/ (\E u \in Users : Push(u))
           \/ \E k \in Children : Switch(k) \/ Execute(k) \/ TdReset(k) \/ IrqUpdate(k)
<1>1. CASE \E u \in Users : UserStep(u)
  BY <1>1 DEF UserStep, Open, TakeRef, TakeRefUp, LockSubmit, SubmitFails, DropRef, Close, Put,
              Stop, jobVars
<1>2. CASE \E t \in Threads : SuspendStep(t)
  BY <1>2 DEF SuspendStep, SeenIdle, SuspendBusy, SuspendOff, SuspendReturns, jobVars
<1>3. CASE Freeze \/ (\E k \in Mods : PmSuspend(k)) \/ \E k \in Ctrls : CtrlLock(k) \/ CtrlUnlock(k)
  BY <1>3 DEF Freeze, PmSuspend, CtrlLock, CtrlUnlock, jobVars
<1>4. CASE \E k \in Children : ChannelStep(k)
  BY <1>4 DEF ChannelStep, IrqStart, IrqDrop, TdBegin, OffSave, OffWait, jobVars
<1>5. CASE \E k \in Mods : PowerStep(k)
  BY <1>5 DEF PowerStep, jobVars
<1> QED
  BY <1>1, <1>2, <1>3, <1>4, <1>5 DEF Next, vars, jobVars

(* an empty queue stays empty but for a submit *)
LEMMA EmptyStays ==
    ASSUME Base, [Next]_vars, NEW m \in Children, queue[m] = <<>>,
           \A u \in Users : Push(u) => on[u] # m
    PROVE  queue'[m] = <<>>
<1>0. JobInv /\ queue \in [Children -> Seq(Job)] /\ Len(queue[m]) = 0
  BY DEF Base, JobInv, JobTypes
<1>1. JobInv'
  BY BaseNext DEF Base
<1>2. queue'[m] \in Seq(Job)
  BY <1>1 DEF JobInv, JobTypes
<1>3. CASE queue' = queue
  BY <1>3
<1>4. CASE \E u \in Users : Push(u)
  BY <1>0, <1>4 DEF Push
<1>5. CASE \E k \in Children : Switch(k) \/ Execute(k) \/ TdReset(k)
  <2>1. PICK k \in Children : Switch(k) \/ Execute(k) \/ TdReset(k)
    BY <1>5
  <2>2. k = m => Len(queue'[m]) = 0
    BY <1>0, <2>1, JobEngine, JobReset
  <2>3. k # m => queue'[m] = queue[m]
    BY <1>0, <2>1 DEF Switch, Execute, SetStage, TdReset
  <2> QED BY <1>2, <2>2, <2>3
<1>6. CASE \E k \in Children : IrqUpdate(k)
  <2>1. PICK k \in Children : IrqUpdate(k)
    BY <1>6
  <2>2. CASE k = m
    <3>1. DoneIn(queue[m]) = {} /\ Done(m) = DoneIn(queue[m])
      BY DEF DoneIn, Done
    <3>2. AtHead(m) = 1
      BY <3>1, FS_EmptySet DEF AtHead
    <3>3. queue'[m] = SubSeq(queue[m], 1, 0)
      BY <1>0, <2>1, <2>2, <3>2 DEF IrqUpdate
    <3> QED
      BY <1>0, <3>3
  <2>3. k # m => queue'[m] = queue[m]
    BY <1>0, <2>1 DEF IrqUpdate
  <2> QED BY <2>2, <2>3
<1> QED
  BY <1>3, <1>4, <1>5, <1>6, QueueMoves

(* the last close has found the queue empty, and nobody is left to submit *)
ClosingInv == \A u \in Users : pc[u] \in SuspendPcs => queue[on[u]] = <<>>

LEMMA ClosingNext ==
    ASSUME Base, ClosingInv, [Next]_vars
    PROVE  ClosingInv'
<1>0. /\ pc \in [Threads -> AllPcs] /\ on \in [Threads -> Mods \cup {None}] /\ Places /\ Alone
      /\ Users \subseteq Threads /\ Pm \notin Users
  BY ChannelAssumption DEF Base, Places, Threads
<1>1. ASSUME NEW u \in Users, pc'[u] \in SuspendPcs PROVE queue'[on'[u]] = <<>>
  <2>1. CASE pc[u] \in SuspendPcs /\ on'[u] = on[u]
    <3>1. queue[on[u]] = <<>> /\ on[u] \in Children
      BY <1>0, <2>1 DEF ClosingInv, Places, SuspendPcs
    <3>2. \A v \in Users \ {u} : on[v] # on[u]
      BY <1>0, <2>1 DEF Alone
    <3>3. ~Push(u)
      BY <2>1 DEF Push, SuspendPcs
    <3> QED
      BY <2>1, <3>1, <3>2, <3>3, EmptyStays
  <2>2. CASE Stop(u)
    BY <2>2 DEF Stop, jobVars
  <2>3. CASE ~Stop(u) /\ ~(pc[u] \in SuspendPcs /\ on'[u] = on[u])
    <3>1. ASSUME UserStep(u) PROVE FALSE
      BY <1>0, <1>1, <2>3, <3>1
      DEF UserStep, Open, TakeRef, TakeRefUp, LockSubmit, SubmitFails, DropRef, Push, Close, Put,
          Goto, Referenced, SuspendPcs
    <3>2. ASSUME SuspendStep(u) PROVE FALSE
      BY <1>0, <1>1, <2>3, <3>2
      DEF SuspendStep, SeenIdle, SuspendBusy, SuspendOff, SuspendReturns, Returns, Goto, SuspendPcs
    <3> QED
      BY <1>0, <1>1, <2>3, <3>1, <3>2, ThreadMoves
  <2> QED BY <2>1, <2>2, <2>3
<1> QED
  BY <1>1 DEF ClosingInv

-----------------------------------------------------------------------------
(* Modules that nobody may use stay down *)

(* off, with nothing that could bring it up again *)
Down(d) ==
    /\ d.at = "free" /\ ~Up(d)
    /\ d.powerstate = "powergated" \/ (~d.pending /\ d.started = 0)

(* a suspend is taking it there *)
GoingDown(d) == d.by = "suspend" /\ d.at \in {"off_up", "off_save", "off_wait", "off_idle"}

(* no file is open on the module, or the system suspend has passed it *)
Asleep(m) == (\A u \in Users : on[u] # m) \/ m \in suspended

(* A close that is the last, and a suspend, leave the module down, and it  *)
(* stays so; the host is suspended when all the client modules are asleep. *)
SleepInv ==
    /\ \A m \in Children : Asleep(m) => Down(dev[m])
    /\ suspended # {} => ~Awake
    /\ \A t \in Threads : pc[t] = "susp_off" /\ on[t] \in Children =>
          Down(dev[on[t]]) \/ GoingDown(dev[on[t]])
    /\ pc[Pm] \in SuspendPcs /\ on[Pm] = Host => \A m \in Children : Asleep(m)
    /\ pc[Pm] \in SuspendPcs /\ on[Pm] # Host =>
          on[Pm] \notin suspended /\ \E u \in Users : on[u] = on[Pm]
    /\ ClosingInv

(* nobody takes a reference to module m in this step, nor powers it off for a suspend *)
LeftAlone(m) ==
    /\ \A u \in Users : TakeRef(u) => on[u] # m
    /\ \A t \in Threads : SuspendOff(t) => on[t] # m

LEMMA DownStays ==
    ASSUME Bounded, NEW m \in Children, dev[m] \in DevRec, ChildMove(m), LeftAlone(m), Down(dev[m])
    PROVE  Down(dev'[m])
<1> DEFINE d == dev[m]
           e == dev'[m]
<1>1. d.started \in Nat /\ d.at = "free" /\ ~Up(d)
  BY AcmAssumption DEF Bounded, Mods, Down
<1>2. CASE ToIdle(d, e)
  BY <1>1, <1>2 DEF ToIdle, Down, Up, nvhost_module_powered
<1>3. CASE ToStart(d, e)
  BY <1>1, <1>3 DEF ToStart, Down, Up, nvhost_module_powered
<1>4. CASE ToDown(m, d, e)
  BY <1>1, <1>4 DEF ToDown, ToOff, Down, Up, nvhost_module_powered
<1>5. ~ToUp(d, e) /\ ~ToOffUp(d, e) /\ ~ToSaved(m, d, e) /\ ~ToGated(d, e)
  BY <1>1 DEF ToUp, ToOffUp, ToSaved, ToGated
<1> HIDE DEF d, e
<1>6. CASE e = d
  BY <1>6 DEF d, e
<1> QED
  BY <1>2, <1>3, <1>4, <1>5, <1>6 DEF ChildMove, LeftAlone, d, e

LEMMA GoingDownGoesOn ==
    ASSUME SuspendSaves, NEW m \in Children, ChildMove(m), GoingDown(dev[m])
    PROVE  GoingDown(dev'[m]) \/ Down(dev'[m])
<1> DEFINE d == dev[m]
           e == dev'[m]
<1>1. d.at # "free" /\ d.at # "busy" /\ d.at # "down_idle" /\ d.by = "suspend"
  BY DEF GoingDown
<1>2. CASE ToOffUp(d, e)
  BY <1>1, <1>2 DEF ToOffUp, GoingDown
<1>3. CASE ToStart(d, e)
  BY <1>3 DEF ToStart, GoingDown
<1>4. CASE ToSaved(m, d, e)
  BY <1>1, <1>4 DEF ToSaved, GoingDown
<1>5. CASE ToGated(d, e)
  BY <1>1, <1>5 DEF ToGated, Down
<1>6. ~ToBusy(d, e) /\ ~ToUp(d, e) /\ ~ToSuspend(m, d, e) /\ ~ToIdle(d, e) /\ ~ToDown(m, d, e)
  BY <1>1 DEF ToBusy, ToUp, ToSuspend, ToIdle, ToDown
<1> HIDE DEF d, e
<1>7. CASE e = d
  BY <1>7 DEF d, e
<1> QED
  BY <1>2, <1>3, <1>4, <1>5, <1>6, <1>7 DEF ChildMove, d, e

(* Nobody uses a module that is asleep, or that is being suspended. *)
LEMMA AsleepAlone ==
    ASSUME Base, SleepInv, NEW m \in Children, Asleep(m)
    PROVE  LeftAlone(m)
<1>1. CASE m \in suspended
  <2>1. pc[Pm] # "awake" /\ \A u \in Users : pc[u] \in {"closed", "open"}
    BY <1>1 DEF SleepInv, Awake, Base, Alone
  <2>2. \A u \in Users : ~TakeRef(u)
    BY <2>1 DEF TakeRef, Awake
  <2>3. \A t \in Threads : SuspendOff(t) => t = Pm
    BY <2>1 DEF SuspendOff, Threads
  <2>4. SuspendOff(Pm) => on[Pm] # m
    BY <1>1, AcmAssumption DEF SuspendOff, SuspendPcs, SleepInv
  <2> QED
    BY <2>2, <2>3, <2>4 DEF LeftAlone
<1>2. CASE \A u \in Users : on[u] # m
  <2>1. SuspendOff(Pm) => on[Pm] # m
    BY <1>2, AcmAssumption DEF SuspendOff, SuspendPcs, SleepInv
  <2> QED
    BY <1>2, <2>1 DEF LeftAlone, Threads
<1> QED
  BY <1>1, <1>2 DEF Asleep

LEMMA OffAlone ==
    ASSUME Base, NEW t \in Threads, pc[t] = "susp_off", on[t] \in Children
    PROVE  LeftAlone(on[t])
<1>1. CASE t = Pm
  <2>1. pc[Pm] # "awake" /\ \A u \in Users : pc[u] \in {"closed", "open"}
    BY <1>1 DEF Base, Alone
  <2>2. \A u \in Users : ~TakeRef(u)
    BY <2>1 DEF TakeRef, Awake
  <2>3. \A v \in Threads : ~SuspendOff(v)
    BY <1>1, <2>1 DEF SuspendOff, Threads
  <2> QED
    BY <2>2, <2>3 DEF LeftAlone
<1>2. CASE t \in Users
  <2>1. \A v \in Users \ {t} : on[v] # on[t]
    BY <1>2 DEF Base, Alone, SuspendPcs
  <2>2. ~TakeRef(t) /\ ~SuspendOff(t)
    BY DEF TakeRef, SuspendOff
  <2>3. ~SuspendOff(Pm)
    BY <1>2 DEF Base, Alone, SuspendOff
  <2> QED
    BY <2>1, <2>2, <2>3 DEF LeftAlone, Threads
<1> QED
  BY <1>1, <1>2 DEF Threads

(* Completed jobs being retired in time, the close that stops a channel    *)
(* finds its module idle.                                                  *)
LEMMA CloseFindsIdle ==
    ASSUME PromptIrq, Base, SleepInv, NEW u \in Users
    PROVE  ~SuspendBusy(u)
<1> SUFFICES ASSUME SuspendBusy(u) PROVE FALSE
  OBVIOUS
<1> DEFINE m == on[u]
<1>1. pc[u] = "susp_wait" /\ dev[m].refcount # 0 /\ m \in Children
  BY DEF SuspendBusy, Base, Places
<1>2. queue[m] = <<>> /\ owed[m] = 0 /\ irq[m].at = "idle"
  BY <1>1 DEF SuspendBusy, SleepInv, ClosingInv, SuspendPcs
<1>3. \A v \in Users \ {u} : on[v] # m
  BY <1>1 DEF Base, Alone, SuspendPcs
<1>4. SubmitRefs(m) = {} /\ KeepRefs(m) = {}
  BY <1>1, <1>3 DEF SubmitRefs, KeepRefs, SuspendPcs
<1>5. Cardinality(SubmitRefs(m)) = 0 /\ Cardinality(KeepRefs(m)) = 0 /\ Len(queue[m]) = 0
  BY <1>2, <1>4, FS_EmptySet
<1>6. dev[m].refcount = 0
  BY <1>1, <1>2, <1>5 DEF Base, ChildRefs
<1> QED BY <1>1, <1>6

LEMMA SuspendedMoves ==
    ASSUME [Next]_vars
    PROVE  suspended' = suspended \/ SuspendBusy(Pm) \/ SuspendReturns(Pm)
<1>1. CASE \E u \in Users : UserStep(u)
  BY <1>1 DEF UserStep, Open, TakeRef, TakeRefUp, LockSubmit, SubmitFails, DropRef, Push, Close, Put, Stop
<1>2. CASE \E t \in Threads : SuspendStep(t)
  BY <1>2 DEF SuspendStep, SeenIdle, SuspendBusy, SuspendOff, SuspendReturns, Returns
<1>3. CASE Freeze \/ \E m \in Mods : PmSuspend(m)
  BY <1>3 DEF Freeze, PmSuspend
<1>4. CASE \E k \in Ctrls : CtrlLock(k) \/ CtrlUnlock(k)
  BY <1>4 DEF CtrlLock, CtrlUnlock
<1>5. CASE \E m \in Children : ChannelStep(m)
  BY <1>5 DEF ChannelStep, Switch, Execute, IrqStart, IrqUpdate, IrqDrop, TdBegin, TdReset,
              OffSave, OffWait
<1>6. CASE \E m \in Mods : PowerStep(m)
  BY <1>6 DEF PowerStep
<1> QED
  BY <1>1, <1>2, <1>3, <1>4, <1>5, <1>6 DEF Next, vars

(* module m falls asleep: its last file was closed, or its suspend ended *)
LEMMA FallsAsleep ==
    ASSUME PromptIrq, Base, SleepInv, [Next]_vars, NEW m \in Children, ~Asleep(m), Asleep(m)'
    PROVE  Down(dev'[m])
<1>0. /\ pc \in [Threads -> AllPcs] /\ on \in [Threads -> Mods \cup {None}] /\ Places
      /\ m \in Mods /\ m # None /\ Pm \in Threads /\ Users \subseteq Threads /\ Pm \notin Users
  BY ChannelAssumption DEF Base, Places, Mods, Threads
<1>1. ASSUME NEW t \in Threads, SuspendReturns(t), on[t] = m PROVE Down(dev'[m])
  <2>1. pc[t] = "susp_off" /\ dev[m].by # "suspend" /\ dev' = dev
    BY <1>1 DEF SuspendReturns, acmVars
  <2>2. Down(dev[m]) \/ GoingDown(dev[m])
    BY <1>1, <2>1 DEF SleepInv
  <2> QED
    BY <2>1, <2>2 DEF GoingDown
<1>2. CASE m \in suspended'
  <2>1. m \notin suspended
    BY DEF Asleep
  <2>2. SuspendReturns(Pm) /\ on[Pm] = m
    BY <1>2, <2>1, SuspendedMoves DEF SuspendBusy, SuspendReturns, Returns
  <2> QED
    BY <1>0, <1>1, <2>2
<1>3. CASE \A u \in Users : on'[u] # m
  <2>1. PICK u \in Users : on[u] = m
    BY DEF Asleep
  <2>2. on'[u] # on[u] /\ pc[u] # "closed"
    BY <1>0, <1>3, <2>1 DEF Places
  <2>3. CASE UserStep(u)
    <3>1. Put(u)
      BY <2>2, <2>3
      DEF UserStep, Open, TakeRef, TakeRefUp, LockSubmit, SubmitFails, DropRef, Push, Close, Stop
    <3>2. PICK v \in Users \ {u} : on[v] = m
      BY <2>1, <2>2, <3>1 DEF Put
    <3>3. on' = [on EXCEPT ![u] = None]
      BY <2>2, <3>1 DEF Put
    <3>4. on'[v] = m
      BY <1>0, <3>2, <3>3
    <3> QED BY <1>3, <3>2, <3>4
  <2>4. CASE SuspendStep(u)
    <3>1. SuspendReturns(u)
      BY <2>2, <2>4, CloseFindsIdle DEF SuspendStep, SeenIdle, SuspendOff
    <3> QED
      BY <1>0, <1>1, <2>1, <3>1
  <2> QED
    BY <1>0, <2>2, <2>3, <2>4, ThreadMoves
<1> QED
  BY <1>2, <1>3 DEF Asleep

LEMMA SleepNext ==
    ASSUME PromptIrq, SuspendSaves, Base, Bounded, SleepInv, [Next]_vars
    PROVE  SleepInv'
<1>0. /\ pc \in [Threads -> AllPcs] /\ on \in [Threads -> Mods \cup {None}] /\ Places /\ Alone
      /\ Pm \in Threads /\ Users \subseteq Threads /\ Pm \notin Users /\ Host \notin Children
      /\ dev \in [Mods -> DevRec] /\ Children \subseteq Mods
  BY ChannelAssumption, AcmAssumption DEF Base, Places, Mods, Threads, ParentInv
<1>1. \A m \in Children : ChildMove(m)
  BY ChildMoves DEF Base
<1>2. ASSUME NEW m \in Children, Asleep(m)' PROVE Down(dev'[m])
  <2>1. CASE Asleep(m)
    <3>1. Down(dev[m]) /\ LeftAlone(m)
      BY <2>1, AsleepAlone DEF SleepInv
    <3> QED
      BY <1>0, <1>1, <3>1, DownStays
  <2>2. CASE ~Asleep(m)
    BY <1>2, <2>2, FallsAsleep
  <2> QED BY <2>1, <2>2
<1>3. ASSUME suspended' # {} PROVE ~Awake'
  <2>1. CASE suspended' = suspended
    <3>1. pc[Pm] # "awake"
      BY <1>3, <2>1 DEF SleepInv, Awake
    <3>2. CASE SuspendBusy(Pm) \/ SuspendReturns(Pm)
      BY <1>0, <1>3, <3>2 DEF SuspendBusy, SuspendReturns, Returns, Awake
    <3>3. CASE ~(SuspendBusy(Pm) \/ SuspendReturns(Pm))
      <4>1. \/ pc'[Pm] = pc[Pm] \/ SeenIdle(Pm) \/ SuspendOff(Pm) \/ Freeze
            \/ \E m \in Mods : PmSuspend(m)
        BY <1>0, <3>3, ThreadMoves DEF SuspendStep
      <4> QED
        BY <1>0, <3>1, <4>1 DEF SeenIdle, SuspendOff, Freeze, PmSuspend, Goto, Awake
    <3> QED BY <3>2, <3>3
  <2>2. CASE SuspendBusy(Pm) \/ SuspendReturns(Pm)
    BY <1>0, <1>3, <2>2 DEF SuspendBusy, SuspendReturns, Returns, Awake
  <2> QED BY <2>1, <2>2, SuspendedMoves
<1>4. ASSUME NEW t \in Threads, pc'[t] = "susp_off", on'[t] \in Children
      PROVE  Down(dev'[on'[t]]) \/ GoingDown(dev'[on'[t]])
  <2>1. CASE pc[t] = "susp_off" /\ on'[t] = on[t]
    <3>1. on[t] \in Children /\ (Down(dev[on[t]]) \/ GoingDown(dev[on[t]])) /\ LeftAlone(on[t])
      BY <1>4, <2>1, OffAlone DEF SleepInv
    <3> QED
      BY <1>0, <1>1, <2>1, <3>1, DownStays, GoingDownGoesOn
  <2>2. CASE SuspendOff(t)
    <3>1. on'[t] = on[t] /\ on[t] \in Children /\ SuspendLocked(on[t])
      BY <1>4, <2>2 DEF SuspendOff
    <3>2. ToSuspend(on[t], dev[on[t]], dev'[on[t]])
      BY <1>0, <3>1, SuspendIs
    <3>3. Down(dev'[on[t]]) \/ GoingDown(dev'[on[t]])
      BY <3>2 DEF ToSuspend, ToOff, Down, GoingDown, Up, nvhost_module_powered
    <3> QED BY <3>1, <3>3
  <2>3. CASE ~SuspendOff(t) /\ ~(pc[t] = "susp_off" /\ on'[t] = on[t])
    <3>1. ASSUME UserStep(t), t \in Users PROVE FALSE
      BY <1>0, <1>4, <3>1
      DEF UserStep, Open, TakeRef, TakeRefUp, LockSubmit, SubmitFails, DropRef, Push, Close, Put,
          Stop, Goto, Referenced
    <3>2. ASSUME SuspendStep(t) PROVE FALSE
      BY <1>0, <1>4, <2>3, <3>2
      DEF SuspendStep, SeenIdle, SuspendBusy, SuspendReturns, Returns, Goto
    <3>3. ASSUME t = Pm, Freeze \/ \E m \in Mods : PmSuspend(m) PROVE FALSE
      BY <1>0, <1>4, <3>3 DEF Freeze, PmSuspend, Goto
    <3> QED
      BY <1>0, <1>4, <2>3, <3>1, <3>2, <3>3, ThreadMoves
  <2> QED BY <2>1, <2>2, <2>3
<1>5. ASSUME pc'[Pm] \in SuspendPcs
      PROVE  /\ on'[Pm] = Host => \A m \in Children : Asleep(m)'
             /\ on'[Pm] # Host => on'[Pm] \notin suspended' /\ \E u \in Users : on'[u] = on'[Pm]
  <2>1. ~SuspendBusy(Pm) /\ ~SuspendReturns(Pm)
    BY <1>0, <1>5 DEF SuspendBusy, SuspendReturns, Returns, SuspendPcs
  <2>2. suspended' = suspended
    BY <2>1, SuspendedMoves
  <2>3. CASE \E m \in Mods : PmSuspend(m)
    <3>1. PICK m \in Mods : PmSuspend(m)
      BY <2>3
    <3>2. on'[Pm] = m /\ \A u \in Users : on'[u] = on[u]
      BY <1>0, <3>1 DEF PmSuspend
    <3> QED
      BY <2>2, <3>1, <3>2 DEF PmSuspend, Asleep
  <2>4. CASE ~\E m \in Mods : PmSuspend(m)
    <3>1. pc[Pm] \in SuspendPcs /\ on'[Pm] = on[Pm]
      <4>1. (pc'[Pm] = pc[Pm] /\ on'[Pm] = on[Pm]) \/ SeenIdle(Pm) \/ SuspendOff(Pm) \/ Freeze
        BY <1>0, <2>1, <2>4, ThreadMoves DEF SuspendStep
      <4> QED
        BY <1>0, <1>5, <4>1 DEF SeenIdle, SuspendOff, Freeze, Goto, SuspendPcs
    <3>2. ~Awake
      BY <3>1 DEF Awake, SuspendPcs
    <3>3. \A u \in Users : on'[u] = on[u]
      BY <1>0, <3>2, FrozenStay
    <3> QED
      BY <2>2, <3>1, <3>3 DEF SleepInv, Asleep
  <2> QED BY <2>3, <2>4
<1>6. ClosingInv'
  BY ClosingNext DEF SleepInv
<1> QED
  BY <1>2, <1>3, <1>4, <1>5, <1>6 DEF SleepInv

(* The host is up while it is referenced, and is taken down, and seen idle *)
(* by a suspend, without a reference.                                      *)
HostInv ==
    /\ dev[Host].at # "free" => dev[Host].refcount = 0
    /\ dev[Host].at = "free" /\ dev[Host].refcount > 0 => Up(dev[Host])
    /\ pc[Pm] = "susp_lock" /\ on[Pm] = Host => dev[Host].refcount = 0

LEMMA HostNext ==
    ASSUME Base, Counts, Counts', SleepInv, HostInv, [Next]_vars
    PROVE  HostInv'
<1> DEFINE d == dev[Host]
           e == dev'[Host]
<1>0. /\ pc \in [Threads -> AllPcs] /\ on \in [Threads -> Mods \cup {None}] /\ Places /\ Alone
      /\ Pm \in Threads /\ Pm \notin Users /\ Host \notin Children
      /\ d \in DevRec /\ d.refcount \in Nat /\ e.refcount \in Nat
  BY ChannelAssumption, AcmAssumption DEF Base, Places, Mods, Threads, ParentInv, Counts
<1>1. HostMove
  BY HostMoves DEF Base
<1>2. ASSUME NEW t \in Threads, SuspendOff(t), on[t] = Host PROVE d.refcount = 0
  BY <1>0, <1>2 DEF SuspendOff, HostInv, Places, Threads
<1>3. e.at # "free" => e.refcount = 0
  BY <1>1, <1>2
  DEF HostMove, HostUp, ToIdle, ToStart, HostDown, HostGated, HostInv
<1>4. e.at = "free" /\ e.refcount > 0 => Up(e)
  <2>1. CASE HostUp(d, e)
    BY <2>1 DEF HostUp
  <2>2. CASE ToIdle(d, e) \/ ToStart(d, e) \/ HostDown(d, e)
    BY <1>0, <2>2 DEF ToIdle, ToStart, HostDown, HostInv, Up, nvhost_module_powered
  <2>3. CASE HostGated(d, e)
    BY <2>3 DEF HostGated, HostInv
  <2>4. CASE e = d
    BY <2>4 DEF HostInv
  <2> QED BY <1>0, <1>1, <1>2, <2>1, <2>2, <2>3, <2>4 DEF HostMove
<1>5. ASSUME pc'[Pm] = "susp_lock", on'[Pm] = Host PROVE e.refcount = 0
  <2>1. CASE SeenIdle(Pm)
    BY <1>5, <2>1 DEF SeenIdle, acmVars
  <2>2. CASE ~SeenIdle(Pm)
    <3>1. pc[Pm] = "susp_lock" /\ on[Pm] = Host
      BY <1>0, <1>5, <2>2, ThreadMoves
      DEF SuspendStep, SuspendBusy, SuspendOff, SuspendReturns, Returns, Freeze, PmSuspend, Goto
    <3>2. ~Awake /\ d.refcount = 0 /\ \A m \in Children : Asleep(m)
      BY <3>1 DEF Awake, HostInv, SleepInv, SuspendPcs
    <3>3. \A m \in Children : dev[m].at = "free"
      BY <3>2 DEF SleepInv, Down
    <3>4. \A u \in Users : ~TakeRefUp(u)
      BY <1>0, <3>2 DEF Alone, TakeRefUp, Awake
    <3>5. e.refcount <= d.refcount
      <4>1. e.refcount = d.refcount \/ ToIdle(d, e)
        BY <1>1, <3>2, <3>3, <3>4 DEF HostMove, ToStart, HostDown, HostGated
      <4> QED BY <1>0, <4>1 DEF ToIdle
    <3> QED BY <1>0, <3>2, <3>5
  <2> QED BY <2>1, <2>2
<1> QED
  BY <1>3, <1>4, <1>5 DEF HostInv

(* all of it *)
PowerInv == Base /\ Bounded /\ Counts /\ ChildInv /\ UpInv /\ SleepInv /\ HostInv

LEMMA PowerAlways ==
    ASSUME PromptIrq, SuspendSaves
    PROVE  Spec => []PowerInv
<1>1. Init => ChildInv /\ UpInv
  BY AcmAssumption DEF Init, AcmInit, ChildInv, ChildOK, UpInv, Mods
<1>2. Init => SleepInv /\ HostInv
  <2> SUFFICES ASSUME Init PROVE SleepInv /\ HostInv
    OBVIOUS
  <2>1. Pm \in Threads /\ Users \subseteq Threads /\ Pm \notin Users /\ Children \subseteq Mods
    BY ChannelAssumption DEF Threads, Mods
  <2>2. /\ pc[Pm] = "awake" /\ suspended = {}
        /\ \A u \in Users : pc[u] = "closed"
        /\ \A t \in Threads : pc[t] \in {"awake", "closed"}
    BY <2>1 DEF Init
  <2>3. \A m \in Mods : Down(dev[m]) /\ dev[m].at = "free" /\ dev[m].refcount = 0
    BY DEF Init, AcmInit, Down, Up, nvhost_module_powered
  <2>4. SleepInv
    BY <2>1, <2>2, <2>3 DEF SleepInv, ClosingInv, SuspendPcs
  <2>5. HostInv
    BY <2>2, <2>3 DEF HostInv, Mods
  <2> QED BY <2>4, <2>5
<1>3. Base /\ Bounded /\ SleepInv /\ [Next]_vars => SleepInv'
  BY SleepNext
<1>4. Base /\ Counts /\ Counts' /\ SleepInv /\ HostInv /\ [Next]_vars => HostInv'
  BY HostNext
<1> QED
  BY <1>1, <1>2, <1>3, <1>4, BaseInit, BaseNext, BoundedInit, BoundedNext, CountsHold, ChildNext,
     UpNext, PTL
  DEF Spec, PowerInv

(* A module that somebody holds a reference to has its clocks on, outside  *)
(* the sections of its lock, unless clk_enable failed for it, for any      *)
(* number of modules, files, control files and handlers.  For a client     *)
(* module the argument is local: the handler looks at refcount again under *)
(* dev->lock, and whoever suspends it is alone with it.  For the host,     *)
(* nvhost_module_suspend powers off without that second look: that no      *)
(* reference appears in between is because every client module is asleep   *)
(* then, without a handler that could bring it up to save a context.  This *)
(* needs the two hypotheses: the last close of a channel must find the     *)
(* module idle, and the power-off of a suspend must not fail.              *)
THEOREM ReferencedPowered ==
    ASSUME PromptIrq, SuspendSaves
    PROVE  Spec => []ReferencedIsPowered
<1>1. PowerInv => ReferencedIsPowered
  BY DEF PowerInv, ChildInv, ChildOK, HostInv, ReferencedIsPowered, LockFree, Mods, Up
<1> QED
  BY <1>1, PowerAlways, PTL

(* the reference of the one who brings the module up is its only one *)
LEMMA OneRefQuiet ==
    ASSUME Base, NEW m \in Children, dev[m].refcount = 1, SubmitRefs(m) \cup KeepRefs(m) # {}
    PROVE  Quiet(m)
<1> DEFINE s == Cardinality(SubmitRefs(m))
           k == Cardinality(KeepRefs(m))
           n == IF irq[m].at = "drop" THEN irq[m].n ELSE 0
           l == Len(queue[m])
<1>1. queue[m] \in Seq(Job) /\ owed[m] \in Nat /\ irq[m] \in IrqRec
  BY DEF Base, JobInv, JobTypes
<1>2. s \in Nat /\ k \in Nat /\ l \in Nat /\ n \in Nat
  BY <1>1, RefsFinite DEF IrqRec
<1>3. s # 0 \/ k # 0
  BY RefsFinite, FS_EmptySet
<1>4. s + k + l + owed[m] + n = 1
  BY DEF Base, ChildRefs
<1>5. l = 0 /\ owed[m] = 0 /\ n = 0
  <2> HIDE DEF s, k, l, n
  <2> QED BY <1>1, <1>2, <1>3, <1>4
<1>6. queue[m] = <<>>
  BY <1>1, <1>5
<1>7. DoneIn(queue[m]) = {} /\ OpenIn(queue[m]) = {}
  BY <1>6 DEF DoneIn, OpenIn
<1>8. Cardinality(DoneIn(queue[m])) = 0
  BY <1>7, FS_EmptySet
<1>9. JobOK(queue[m], owed[m], irq[m], m \in td)
  BY DEF Base, JobInv
<1>10. m \notin td /\ irq[m].at = "idle"
  BY <1>1, <1>5, <1>7, <1>8, <1>9 DEF JobOK, IrqRec
<1> QED
  BY <1>5, <1>6, <1>10 DEF Quiet

LEMMA StopQuiet == PowerInv => StopFindsQuiet
<1> SUFFICES ASSUME PowerInv, dev[Host].at \in {"stop", "off_stop"}
             PROVE  holding = {} /\ \A m \in Children : Quiet(m)
  BY DEF StopFindsQuiet
<1>1. dev[Host].refcount = 0
  BY DEF PowerInv, HostInv
<1>2. /\ Cardinality(holding) + Cardinality(Powered) + leaked = 0
      /\ holding \subseteq Ctrls
  BY <1>1 DEF PowerInv, Base, ParentInv, ParentRefs, Powered
<1>3. leaked \in Nat
  BY AcmAssumption DEF PowerInv, Bounded
<1>4. Cardinality(holding) = 0 /\ Cardinality(Powered) = 0 /\ leaked = 0
  BY <1>2, <1>3, PoweredFinite
<1>5. holding = {} /\ Powered = {}
  BY <1>2, <1>4, PoweredFinite, FS_EmptySet
<1>6. ASSUME NEW m \in Children PROVE Quiet(m)
  <2>1. ~Up(dev[m]) /\ ~dev[m].clkbad
    BY <1>4, <1>5 DEF Powered, Up, PowerInv, Bounded
  <2>2. dev[m].refcount \in Nat /\ ChildOK(m, dev[m]) /\ dev[m].at \in Steps
    BY DEF PowerInv, Counts, ChildInv, Mods, Base, ParentInv, DevRec
  <2>3. CASE dev[m].refcount = 0
    BY <2>3, UnreferencedIsQuiet DEF PowerInv, Base
  <2>4. CASE dev[m].refcount # 0
    <3>1. dev[m].at = "busy"
      <4>1. ~Taken(dev[m])
        BY <2>4 DEF PowerInv, Base, IdleInv
      <4>2. dev[m].at # "free"
        BY <2>1, <2>2, <2>4 DEF ChildOK
      <4> QED
        BY <2>2, <4>1, <4>2 DEF Steps, Taken, ChildOK
    <3>2. dev[m].refcount = 1
      BY <2>1, <2>2, <3>1 DEF ChildOK
    <3>3. PICK u \in Users : on[u] = m /\ pc[u] \in {"keep_up", "submit_up"}
      BY <3>1 DEF PowerInv, UpInv
    <3>4. u \in SubmitRefs(m) \cup KeepRefs(m)
      BY <3>3 DEF SubmitRefs, KeepRefs, SuspendPcs, PowerInv, Base, Places
    <3> QED
      BY <3>2, <3>4, OneRefQuiet DEF PowerInv
  <2> QED BY <2>3, <2>4
<1> QED BY <1>5, <1>6

(* When the host's clock-off or power-off calls nvhost_intr_stop, no       *)
(* control file holds a module mutex and no channel has a job, a           *)
(* completion or a teardown under way, for any number of modules and       *)
(* files.  The host's reference count is 0 then, so by ParentRefs no       *)
(* client module runs and no clock has failed, so that a referenced client *)
(* module is one that is being brought up for its first user, who has not  *)
(* submitted yet.                                                          *)
THEOREM StopQuietCorrect ==
    ASSUME PromptIrq, SuspendSaves
    PROVE  Spec => []StopFindsQuiet
BY StopQuiet, PowerAlways, PTL

-----------------------------------------------------------------------------
(* Where a context's state is *)

(* The following are about one channel: q is its queue, c the current      *)
(* context, r the context in the registers, L the contexts of the files    *)
(* that are open on it, T, V, F and R the contexts that have timed out,    *)
(* have an image, a fresh image, a state.                                  *)

(* jobs are executed in order *)
Ordered(q) == \A i, k \in 1 .. Len(q) : i < k /\ q[i].stage < 2 => q[k].stage = 0

IsHead(q, i) ==
    i \in 1 .. Len(q) /\ q[i].stage < 2 /\ \A k \in 1 .. Len(q) : k < i => q[k].stage = 2

(* the current context is that of the last job, unless its file was closed *)
LastOK(q, c, L) ==
    Len(q) > 0 => c = q[Len(q)].ctx \/ (c = None /\ q[Len(q)].ctx \notin L)

(* a job saves the context of the job before it, another one than its own *)
SavesPrev(q) ==
    \A i \in 1 .. Len(q) : q[i].save # None =>
        /\ q[i].save # q[i].ctx
        /\ \A h \in 1 .. Len(q) : h + 1 = i => q[h].ctx = q[i].save

(* two jobs of one context in a row: nothing to save or to restore *)
NoSwitch(q) ==
    \A h, i \in 1 .. Len(q) :
        h + 1 = i /\ q[h].ctx = q[i].ctx => ~q[i].restore /\ q[i].save = None

(* a context that is not saved by the next job has no further use *)
Skipped(q, L, T) ==
    \A h, i \in 1 .. Len(q) :
        h + 1 = i /\ q[h].ctx # q[i].ctx /\ q[h].ctx \notin T /\ q[i].save # q[h].ctx =>
            q[h].ctx \notin L /\ \A k \in 1 .. Len(q) : k >= i => q[k].ctx # q[h].ctx

(* a context that is not restored was not used before *)
FirstUse(q, T) ==
    \A h, i \in 1 .. Len(q) :
        h + 1 = i /\ q[h].ctx # q[i].ctx /\ ~q[i].restore /\ q[i].ctx \notin T =>
            \A k \in 1 .. Len(q) : k < i => q[k].ctx # q[i].ctx

(* what has to be restored has an image *)
ValidOK(q, c, L, T, V, R) ==
    \A u \in L \ T : u \in R \/ (\E i \in 1 .. Len(q) : q[i].ctx = u) => u \in V \/ c = u

(* the next save is of u *)
HeadSaves(q, u) == \E i \in 1 .. Len(q) : IsHead(q, i) /\ q[i].stage = 0 /\ q[i].save = u

(* the state of u is in its image, or about to be saved there *)
InImage(q, u, r, F) == IF HeadSaves(q, u) THEN r = u ELSE u \in F

(* no unfinished job of u before the i-th *)
Unused(q, u, i) == \A k \in 1 .. Len(q) : k < i /\ q[k].stage < 2 => q[k].ctx # u

(* the first unfinished job of a context finds its state where it looks    *)
(* for it ...                                                              *)
JobFinds(q, i, r, F) ==
    /\ q[i].stage = 1 => r = q[i].ctx
    /\ q[i].stage = 0 /\ q[i].restore => InImage(q, q[i].ctx, r, F)
    /\ q[i].stage = 0 /\ ~q[i].restore => r = q[i].ctx /\ IsHead(q, i)
JobsFind(q, r, T, F, R) ==
    \A i \in 1 .. Len(q) :
        q[i].stage < 2 /\ q[i].ctx \in R \ T /\ Unused(q, q[i].ctx, i) => JobFinds(q, i, r, F)

(* ... and so will the next one of a file that has none *)
FileFinds(q, c, r, F, u) == IF c = u THEN r = u ELSE InImage(q, u, r, F)
FilesFind(q, c, r, L, T, F, R) ==
    \A u \in L : u \in R \ T /\ Unused(q, u, Len(q) + 1) => FileFinds(q, c, r, F, u)

Linked(q, c, L, T) ==
    /\ Ordered(q) /\ LastOK(q, c, L)
    /\ SavesPrev(q) /\ NoSwitch(q) /\ Skipped(q, L, T) /\ FirstUse(q, T)

StateOK(q, c, r, L, T, V, F, R) ==
    /\ Linked(q, c, L, T) /\ ValidOK(q, c, L, T, V, R)
    /\ JobsFind(q, r, T, F, R) /\ FilesFind(q, c, r, L, T, F, R)

(* what every queue is made of *)
LEMMA QueueTypes ==
    ASSUME NEW q \in Seq(Job)
    PROVE  /\ Len(q) \in Nat /\ DOMAIN q = 1 .. Len(q)
           /\ \A i \in 1 .. Len(q) :
                 /\ q[i].ctx \in Users /\ q[i].save \in Users \cup {None}
                 /\ q[i].restore \in BOOLEAN /\ q[i].stage \in 0 .. 2
                 /\ q[i] \in Job
<1>1. Len(q) \in Nat /\ \A i \in 1 .. Len(q) : q[i] \in Job
  OBVIOUS
<1> QED
  BY <1>1 DEF Job

(* the job the engine is at is the first that is not done *)
LEMMA HeadIs ==
    ASSUME NEW q \in Seq(Job), Ordered(q)
    PROVE  /\ \A k \in 1 .. Len(q) : k <= Cardinality(DoneIn(q)) <=> q[k].stage = 2
           /\ OpenIn(q) # {} => IsHead(q, Cardinality(DoneIn(q)) + 1)
<1> DEFINE S == DoneIn(q)
           n == Cardinality(S)
<1>0. /\ Len(q) \in Nat /\ DOMAIN q = 1 .. Len(q)
      /\ \A i \in 1 .. Len(q) : q[i].stage \in 0 .. 2
  BY QueueTypes
<1>1. /\ IsFiniteSet(S) /\ n \in Nat /\ n <= Len(q)
      /\ OpenIn(q) # {} => n + 1 \in 1 .. Len(q)
  BY DoneCount
<1>2. \A k \in S, i \in 1 .. Len(q) : i < k => i \in S
  BY <1>0 DEF Ordered, DoneIn
<1>3. S \subseteq 1 .. Len(q)
  BY <1>0 DEF DoneIn
<1> HIDE DEF S
<1>4. ASSUME NEW k \in 1 .. Len(q), k <= n PROVE k \in S
  <2>1. SUFFICES ASSUME k \notin S PROVE FALSE
    OBVIOUS
  <2>2. S \subseteq 1 .. k - 1
    BY <1>0, <1>2, <1>3, <2>1
  <2>3. IsFiniteSet(1 .. k - 1) /\ Cardinality(1 .. k - 1) = k - 1
    <3>1. 1 \in Int /\ k - 1 \in Int /\ k - 1 >= 0
      BY <1>0
    <3>2. PICK j \in Int : j = k - 1 /\ j >= 0
      BY <3>1
    <3>3. IsFiniteSet(1 .. j) /\ Cardinality(1 .. j) = IF 1 > j THEN 0 ELSE j - 1 + 1
      BY <3>1, <3>2, FS_Interval
    <3> QED BY <3>2, <3>3
  <2>4. n <= k - 1
    BY <2>2, <2>3, FS_Subset
  <2> QED
    BY <1>0, <1>1, <1>4, <2>4
<1>5. ASSUME NEW k \in 1 .. Len(q), k \in S PROVE k <= n
  <2>1. 1 .. k \subseteq S
    BY <1>0, <1>2, <1>5
  <2>2. IsFiniteSet(1 .. k) /\ Cardinality(1 .. k) = k
    BY <1>0, FS_Interval
  <2> QED
    BY <1>1, <2>1, <2>2, FS_Subset
<1>6. \A k \in 1 .. Len(q) : k <= n <=> q[k].stage = 2
  BY <1>0, <1>4, <1>5 DEF S, DoneIn
<1> HIDE DEF n
<1>7. OpenIn(q) # {} => IsHead(q, n + 1)
  BY <1>0, <1>1, <1>6 DEF IsHead
<1> QED
  BY <1>6, <1>7 DEF n, S

(* a save is needed, host1x_channel_submit *)
Saving(u, c, T) == c # None /\ c # u /\ c \notin T

(* a submit of file u *)
LEMMA PushState ==
    ASSUME NEW q \in Seq(Job), NEW u \in Users, NEW c \in Users \cup {None}, NEW r,
           NEW L, NEW T, NEW V, NEW F, NEW R, NEW W, NEW j \in Job,
           L \subseteq Users, u \in L, j.ctx = u, j.stage = 0, j.restore <=> c # u /\ u \in V,
           j.save = IF Saving(u, c, T) THEN c ELSE None,
           W = IF Saving(u, c, T) THEN V \cup {c} ELSE V,
           StateOK(q, c, r, L, T, V, F, R)
    PROVE  StateOK(Append(q, j), u, r, L, T, W, F, R)
<1> DEFINE p == Append(q, j)
           n == Len(q)
<1>0. /\ n \in Nat /\ None \notin Users
      /\ \A i \in 1 .. n :
            /\ q[i].ctx \in Users /\ q[i].save \in Users \cup {None}
            /\ q[i].restore \in BOOLEAN /\ q[i].stage \in 0 .. 2
  BY QueueTypes, ChannelAssumption
<1>1. /\ Len(p) = n + 1 /\ p[n + 1] = j /\ \A i \in 1 .. n : p[i] = q[i]
  OBVIOUS
<1>2. Len(q) = n
  OBVIOUS
<1> HIDE DEF p, n
<1>3. \A i \in 1 .. n + 1 : i \in 1 .. n \/ i = n + 1
  BY <1>0
<1>4. \A i \in 1 .. n : i \in 1 .. n + 1 /\ i < n + 1 /\ i # n + 1
  BY <1>0
<1>5. n + 1 \in 1 .. n + 1 /\ n + 1 \in Nat
  BY <1>0
<1>6. /\ Ordered(q) /\ LastOK(q, c, L) /\ SavesPrev(q) /\ NoSwitch(q) /\ Skipped(q, L, T)
      /\ FirstUse(q, T) /\ ValidOK(q, c, L, T, V, R)
      /\ JobsFind(q, r, T, F, R) /\ FilesFind(q, c, r, L, T, F, R)
  BY DEF StateOK, Linked
<1>7. n > 0 => n \in 1 .. n /\ (c = q[n].ctx \/ (c = None /\ q[n].ctx \notin L))
  BY <1>0, <1>2, <1>6 DEF LastOK
<1>8. \A h, i \in 1 .. n + 1 : h + 1 = i => h \in 1 .. n /\ (i \in 1 .. n \/ (i = n + 1 /\ h = n))
  BY <1>0
<1>9. Ordered(p)
  BY <1>0, <1>1, <1>2, <1>3, <1>6 DEF Ordered
<1>10. LastOK(p, u, L)
  BY <1>1 DEF LastOK
<1>11. SavesPrev(p)
  <2>1. ASSUME NEW i \in 1 .. n + 1, p[i].save # None
        PROVE  /\ p[i].save # p[i].ctx
               /\ \A h \in 1 .. n + 1 : h + 1 = i => p[h].ctx = p[i].save
    <3>1. CASE i \in 1 .. n
      BY <1>1, <1>2, <1>6, <1>8, <2>1, <3>1 DEF SavesPrev
    <3>2. CASE i = n + 1
      BY <1>0, <1>1, <1>7, <1>8, <2>1, <3>2 DEF Saving
    <3> QED BY <1>3, <3>1, <3>2
  <2> QED BY <1>1, <2>1 DEF SavesPrev
<1>12. NoSwitch(p)
  <2>1. ASSUME NEW h \in 1 .. n + 1, NEW i \in 1 .. n + 1, h + 1 = i, p[h].ctx = p[i].ctx
        PROVE  ~p[i].restore /\ p[i].save = None
    <3>1. CASE i \in 1 .. n
      BY <1>1, <1>2, <1>6, <1>8, <2>1, <3>1 DEF NoSwitch
    <3>2. CASE i = n + 1 /\ h = n
      BY <1>0, <1>1, <1>7, <1>8, <2>1, <3>2 DEF Saving
    <3> QED BY <1>8, <2>1, <3>1, <3>2
  <2> QED BY <1>1, <2>1 DEF NoSwitch
<1>13. Skipped(p, L, T)
  <2>1. ASSUME NEW h \in 1 .. n + 1, NEW i \in 1 .. n + 1, h + 1 = i, p[h].ctx # p[i].ctx,
               p[h].ctx \notin T, p[i].save # p[h].ctx, NEW k \in 1 .. n + 1, k >= i
        PROVE  p[h].ctx \notin L /\ p[k].ctx # p[h].ctx
    <3>1. CASE i \in 1 .. n
      <4>1. p[h].ctx \notin L /\ (k \in 1 .. n => p[k].ctx # p[h].ctx)
        BY <1>1, <1>2, <1>6, <1>8, <2>1, <3>1 DEF Skipped
      <4> QED BY <1>1, <1>3, <4>1
    <3>2. CASE i = n + 1 /\ h = n
      <4>1. k = n + 1 /\ p[k].ctx = u
        BY <1>0, <1>1, <2>1, <3>2
      <4>2. n > 0 /\ p[h] = q[n] /\ q[n].ctx \in Users
        BY <1>0, <1>1, <1>8, <2>1, <3>2
      <4> QED BY <1>0, <1>1, <1>7, <2>1, <3>2, <4>1, <4>2 DEF Saving
    <3> QED BY <1>8, <2>1, <3>1, <3>2
  <2>2. \A h, i \in 1 .. n + 1 : i >= i
    BY <1>0
  <2> QED BY <1>1, <2>1, <2>2 DEF Skipped
<1>14. FirstUse(p, T)
  <2>1. ASSUME NEW h \in 1 .. n + 1, NEW i \in 1 .. n + 1, h + 1 = i, p[h].ctx # p[i].ctx,
               ~p[i].restore, p[i].ctx \notin T, NEW k \in 1 .. n + 1, k < i
        PROVE  p[k].ctx # p[i].ctx
    <3>1. CASE i \in 1 .. n
      BY <1>0, <1>1, <1>2, <1>6, <1>8, <2>1, <3>1 DEF FirstUse
    <3>2. CASE i = n + 1 /\ h = n
      <4>1. k \in 1 .. n /\ p[k] = q[k] /\ p[i] = j
        BY <1>0, <1>1, <2>1, <3>2
      <4>2. n > 0 /\ p[h] = q[n]
        BY <1>0, <1>1, <1>8, <2>1, <3>2
      <4>3. c # u
        BY <1>0, <1>7, <2>1, <4>1, <4>2
      <4>4. u \notin V
        BY <2>1, <4>1, <4>3
      <4> QED
        BY <1>2, <1>6, <2>1, <4>1, <4>3, <4>4 DEF ValidOK
    <3> QED BY <1>8, <2>1, <3>1, <3>2
  <2> QED BY <1>1, <2>1 DEF FirstUse
<1>15. ValidOK(p, u, L, T, W, R)
  <2>1. ASSUME NEW w \in L \ T, w # u, w \in R \/ \E i \in 1 .. n + 1 : p[i].ctx = w
        PROVE  w \in W
    <3>1. w \in R \/ \E i \in 1 .. n : q[i].ctx = w
      BY <1>1, <1>3, <2>1
    <3>2. w \in V \/ c = w
      BY <1>2, <1>6, <3>1 DEF ValidOK
    <3>3. c = w => c # None \/ w = None
      OBVIOUS
    <3> QED BY <1>0, <2>1, <3>1, <3>2 DEF Saving
  <2> QED BY <1>1, <2>1 DEF ValidOK

<1>16. \A i \in 1 .. n : IsHead(p, i) <=> IsHead(q, i)
  BY <1>0, <1>1, <1>2, <1>3, <1>4 DEF IsHead
<1>17. IsHead(p, n + 1) <=> \A k \in 1 .. n : q[k].stage = 2
  BY <1>0, <1>1, <1>3, <1>4, <1>5 DEF IsHead
<1>18. \A x : HeadSaves(q, x) => HeadSaves(p, x)
  BY <1>1, <1>2, <1>4, <1>16 DEF HeadSaves
<1>19. \A x : HeadSaves(p, x) => HeadSaves(q, x) \/ (IsHead(p, n + 1) /\ j.save = x)
  BY <1>1, <1>2, <1>3, <1>16 DEF HeadSaves
<1>20. \A x : \A i \in 1 .. n + 1 : Unused(p, x, i) => Unused(q, x, i)
  BY <1>1, <1>2, <1>4 DEF Unused
<1>21. \A x : Unused(p, x, n + 2) => Unused(q, x, n + 1) /\ x # u
  <2>1. \A k \in 1 .. n + 1 : k < n + 2
    BY <1>0
  <2> QED BY <1>1, <1>2, <1>4, <1>5, <2>1 DEF Unused
<1>22. ASSUME NEW k \in 1 .. n, q[k].stage < 2 PROVE q[n].stage < 2 /\ n \in 1 .. n
  BY <1>0, <1>2, <1>6, <1>22 DEF Ordered
<1>23. ASSUME NEW x \in Users, c = x, Unused(q, x, n + 1) PROVE IsHead(p, n + 1)
  <2>1. SUFFICES ASSUME NEW k \in 1 .. n, q[k].stage # 2 PROVE FALSE
    BY <1>17
  <2>2. q[k].stage < 2
    BY <1>0, <2>1
  <2>3. q[n].stage < 2 /\ n \in 1 .. n /\ n > 0
    BY <1>0, <1>22, <2>2
  <2> QED
    BY <1>0, <1>2, <1>4, <1>7, <1>23, <2>3 DEF Unused
<1>24. JobsFind(p, r, T, F, R)
  <2>1. ASSUME NEW i \in 1 .. n + 1, p[i].stage < 2, p[i].ctx \in R \ T, Unused(p, p[i].ctx, i)
        PROVE  JobFinds(p, i, r, F)
    <3>1. CASE i \in 1 .. n
      <4>1. p[i] = q[i] /\ JobFinds(q, i, r, F)
        BY <1>1, <1>2, <1>6, <1>20, <2>1, <3>1 DEF JobsFind
      <4>2. ~IsHead(p, n + 1)
        BY <1>17, <2>1, <3>1, <4>1
      <4>3. \A x : HeadSaves(p, x) <=> HeadSaves(q, x)
        BY <1>18, <1>19, <4>2
      <4> QED
        BY <1>16, <3>1, <4>1, <4>3 DEF JobFinds, InImage
    <3>2. CASE i = n + 1
      <4>1. p[i] = j /\ u \in R \ T /\ Unused(q, u, n + 1)
        BY <1>1, <1>20, <2>1, <3>2
      <4>2. FileFinds(q, c, r, F, u)
        BY <1>2, <1>6, <4>1 DEF FilesFind
      <4>3. CASE j.restore
        <5>1. j.save # u
          BY <1>0 DEF Saving
        <5>2. HeadSaves(p, u) <=> HeadSaves(q, u)
          BY <1>18, <1>19, <5>1
        <5>3. InImage(q, u, r, F)
          BY <4>2, <4>3 DEF FileFinds
        <5> QED
          BY <4>1, <4>3, <5>2, <5>3 DEF JobFinds, InImage
      <4>4. CASE ~j.restore
        <5>1. c = u
          BY <1>6, <4>1, <4>4 DEF ValidOK
        <5>2. r = u
          BY <4>2, <5>1 DEF FileFinds
        <5>3. IsHead(p, n + 1)
          BY <1>23, <4>1, <5>1
        <5> QED
          BY <3>2, <4>1, <4>4, <5>2, <5>3 DEF JobFinds
      <4> QED BY <4>3, <4>4
    <3> QED BY <1>3, <3>1, <3>2
  <2> QED BY <1>1, <2>1 DEF JobsFind
<1>25. FilesFind(p, u, r, L, T, F, R)
  <2>1. ASSUME NEW w \in L, w \in R \ T, Unused(p, w, n + 2)
        PROVE  FileFinds(p, u, r, F, w)
    <3>1. w # u /\ Unused(q, w, n + 1) /\ w \in Users
      BY <1>21, <2>1
    <3>2. FileFinds(q, c, r, F, w)
      BY <1>2, <1>6, <2>1, <3>1 DEF FilesFind
    <3>3. CASE c = w
      <4>1. IsHead(p, n + 1) /\ r = w
        BY <1>23, <3>1, <3>2, <3>3 DEF FileFinds
      <4>2. j.save = w
        BY <1>0, <2>1, <3>1, <3>3 DEF Saving
      <4>3. HeadSaves(p, w)
        BY <1>1, <1>5, <4>1, <4>2 DEF HeadSaves
      <4> QED BY <3>1, <4>1, <4>3 DEF FileFinds, InImage
    <3>4. CASE c # w
      <4>1. InImage(q, w, r, F)
        BY <3>2, <3>4 DEF FileFinds
      <4>2. j.save # w
        BY <1>0, <3>1, <3>4
      <4>3. HeadSaves(p, w) <=> HeadSaves(q, w)
        BY <1>18, <1>19, <4>2
      <4> QED BY <3>1, <4>1, <4>3 DEF FileFinds, InImage
    <3> QED BY <3>3, <3>4
  <2>2. n + 1 + 1 = n + 2
    BY <1>0
  <2> QED BY <1>1, <2>1, <2>2 DEF FilesFind
<1>26. StateOK(p, u, r, L, T, W, F, R)
  BY <1>9, <1>10, <1>11, <1>12, <1>13, <1>14, <1>15, <1>24, <1>25 DEF StateOK, Linked
<1> QED BY <1>26 DEF p

(* q and p are the same jobs, executed more or less far *)
Restaged(q, p) ==
    /\ p \in Seq(Job) /\ Len(p) = Len(q)
    /\ \A i \in 1 .. Len(q) :
          p[i].ctx = q[i].ctx /\ p[i].save = q[i].save /\ p[i].restore = q[i].restore

(* who follows whom does not depend on what was executed *)
LEMMA RestagedLinks ==
    ASSUME NEW q \in Seq(Job), NEW p, Restaged(q, p), NEW c, NEW r, NEW L, NEW T, NEW T2, NEW V,
           NEW F, NEW R, NEW R2, T \subseteq T2,
           \A u \in R2 : u \in R \/ \E i \in 1 .. Len(q) : q[i].ctx = u,
           StateOK(q, c, r, L, T, V, F, R)
    PROVE  /\ LastOK(p, c, L) /\ SavesPrev(p) /\ NoSwitch(p) /\ Skipped(p, L, T2)
           /\ FirstUse(p, T2) /\ ValidOK(p, c, L, T2, V, R2)
<1> DEFINE n == Len(q)
<1>0. n \in Nat /\ Len(q) = n /\ Len(p) = n
  BY QueueTypes DEF Restaged
<1>1. \A i \in 1 .. n :
          p[i].ctx = q[i].ctx /\ p[i].save = q[i].save /\ p[i].restore = q[i].restore
  BY DEF Restaged
<1>2. /\ LastOK(q, c, L) /\ SavesPrev(q) /\ NoSwitch(q) /\ Skipped(q, L, T)
      /\ FirstUse(q, T) /\ ValidOK(q, c, L, T, V, R)
  BY DEF StateOK, Linked
<1> HIDE DEF n
<1>3. LastOK(p, c, L)
  <2>1. n > 0 => n \in 1 .. n
    BY <1>0
  <2> QED BY <1>0, <1>1, <1>2, <2>1 DEF LastOK
<1>4. SavesPrev(p)
  BY <1>0, <1>1, <1>2 DEF SavesPrev
<1>5. NoSwitch(p)
  BY <1>0, <1>1, <1>2 DEF NoSwitch
<1>6. Skipped(p, L, T2)
  BY <1>0, <1>1, <1>2 DEF Skipped
<1>7. FirstUse(p, T2)
  BY <1>0, <1>1, <1>2 DEF FirstUse
<1>8. ValidOK(p, c, L, T2, V, R2)
  <2>1. ASSUME NEW u \in L \ T2, u \in R2 \/ \E i \in 1 .. n : p[i].ctx = u
        PROVE  u \in V \/ c = u
    <3>1. u \in R \/ \E i \in 1 .. n : q[i].ctx = u
      BY <1>0, <1>1, <2>1
    <3> QED BY <1>0, <1>2, <3>1 DEF ValidOK
  <2> QED BY <1>0, <2>1 DEF ValidOK
<1> QED BY <1>3, <1>4, <1>5, <1>6, <1>7, <1>8

(* what is before the head is done, what is behind it was not begun *)
LEMMA HeadSplits ==
    ASSUME NEW q \in Seq(Job), Ordered(q), NEW h, IsHead(q, h)
    PROVE  /\ h \in 1 .. Len(q)
           /\ \A i \in 1 .. Len(q) : /\ i < h => q[i].stage = 2
                                     /\ h < i => q[i].stage = 0
                                     /\ IsHead(q, i) => i = h
                                     /\ q[i].stage < 2 => h <= i
<1>0. Len(q) \in Nat
  OBVIOUS
<1>1. h \in 1 .. Len(q) /\ q[h].stage < 2 /\ \A i \in 1 .. Len(q) : i < h => q[i].stage = 2
  BY DEF IsHead
<1>2. \A i \in 1 .. Len(q) : h < i => q[i].stage = 0
  BY <1>1 DEF Ordered
<1>3. ASSUME NEW i \in 1 .. Len(q), IsHead(q, i) PROVE i = h
  BY <1>0, <1>1, <1>3 DEF IsHead
<1> QED
  BY <1>0, <1>1, <1>2, <1>3

(* the current context is not one that has no unfinished job, while there  *)
(* are such jobs                                                           *)
LEMMA CurrentIsUsed ==
    ASSUME NEW q \in Seq(Job), Ordered(q), NEW h, IsHead(q, h), NEW c, NEW L, LastOK(q, c, L),
           NEW w, w # None, Unused(q, w, Len(q) + 1)
    PROVE  c # w
<1> DEFINE n == Len(q)
<1>0. n \in Nat
  OBVIOUS
<1>1. h \in 1 .. n /\ q[h].stage < 2 /\ \A i \in 1 .. n : h < i => q[i].stage = 0
  BY HeadSplits DEF IsHead
<1>2. n \in 1 .. n /\ n > 0 /\ n < n + 1 /\ q[n].stage < 2
  BY <1>0, <1>1
<1>3. c = q[n].ctx \/ c = None
  BY <1>2 DEF LastOK
<1>4. q[n].ctx # w
  BY <1>2 DEF Unused
<1> QED BY <1>3, <1>4

(* the context switch at the start of the first job *)
LEMMA SwitchState ==
    ASSUME NEW q \in Seq(Job), NEW p, Restaged(q, p), NEW h, IsHead(q, h), q[h].stage = 0,
           p[h].stage = 1, \A i \in 1 .. Len(q) : i # h => p[i].stage = q[i].stage,
           NEW c, NEW r, NEW s, NEW L, NEW T, NEW V, NEW F, NEW G, NEW R, L \subseteq Users,
           R \subseteq Users,
           G = IF q[h].save = None THEN F
               ELSE IF r = q[h].save THEN F \cup {q[h].save} ELSE F \ {q[h].save},
           s = IF q[h].restore THEN (IF q[h].ctx \in G THEN q[h].ctx ELSE None)
               ELSE IF q[h].ctx \in R THEN r ELSE q[h].ctx,
           StateOK(q, c, r, L, T, V, F, R)
    PROVE  StateOK(p, c, s, L, T, V, G, R)
<1> DEFINE n == Len(q)
<1>0. /\ n \in Nat /\ Len(q) = n /\ Len(p) = n /\ None \notin Users
      /\ \A i \in 1 .. n : q[i].ctx \in Users
  BY QueueTypes, ChannelAssumption DEF Restaged
<1>1. \A i \in 1 .. n :
          p[i].ctx = q[i].ctx /\ p[i].save = q[i].save /\ p[i].restore = q[i].restore
  BY DEF Restaged
<1>2. /\ Ordered(q) /\ LastOK(q, c, L) /\ SavesPrev(q)
      /\ JobsFind(q, r, T, F, R) /\ FilesFind(q, c, r, L, T, F, R)
  BY DEF StateOK, Linked
<1>3. /\ LastOK(p, c, L) /\ SavesPrev(p) /\ NoSwitch(p) /\ Skipped(p, L, T)
      /\ FirstUse(p, T) /\ ValidOK(p, c, L, T, V, R)
  BY RestagedLinks
<1>4. /\ h \in 1 .. n
      /\ \A i \in 1 .. n : /\ i < h => q[i].stage = 2
                           /\ h < i => q[i].stage = 0
                           /\ IsHead(q, i) => i = h
                           /\ q[i].stage < 2 => h <= i
  BY <1>2, HeadSplits
<1>5. \A i \in 1 .. n : p[i].stage < 2 <=> q[i].stage < 2
  BY <1>0, <1>4
<1>6. \A x : \A i \in 1 .. n + 1 : Unused(p, x, i) <=> Unused(q, x, i)
  BY <1>0, <1>1, <1>5 DEF Unused
<1> HIDE DEF n
<1>7. Ordered(p)
  BY <1>0, <1>2, <1>4, <1>5 DEF Ordered
<1>8. \A x : ~HeadSaves(p, x)
  <2>1. ASSUME NEW i \in 1 .. n, IsHead(p, i), p[i].stage = 0 PROVE FALSE
    BY <1>0, <1>4, <1>5, <2>1 DEF IsHead
  <2> QED BY <1>0, <2>1 DEF HeadSaves
<1>9. \A x : HeadSaves(q, x) => q[h].save = x
  BY <1>0, <1>4 DEF HeadSaves
<1>10. \A x \in Users : InImage(q, x, r, F) => x \in G
  <2>1. ASSUME NEW x \in Users, InImage(q, x, r, F) PROVE x \in G
    <3>1. CASE q[h].save = x
      <4>1. HeadSaves(q, x)
        BY <1>0, <1>4, <3>1 DEF HeadSaves
      <4> QED BY <1>0, <2>1, <3>1, <4>1 DEF InImage
    <3>2. CASE q[h].save # x
      BY <1>9, <2>1, <3>2 DEF InImage
    <3> QED BY <3>1, <3>2
  <2> QED BY <2>1
<1>11. JobsFind(p, s, T, G, R)
  <2>1. ASSUME NEW i \in 1 .. n, p[i].stage < 2, p[i].ctx \in R \ T, Unused(p, p[i].ctx, i)
        PROVE  JobFinds(p, i, s, G)
    <3>0. i \in 1 .. n + 1
      BY <1>0
    <3>1. JobFinds(q, i, r, F)
      BY <1>0, <1>1, <1>2, <1>5, <1>6, <2>1, <3>0 DEF JobsFind
    <3>2. CASE i = h
      <4>1. q[h].restore => q[h].ctx \in G
        BY <1>0, <1>4, <1>10, <3>1, <3>2 DEF JobFinds
      <4>2. ~q[h].restore => r = q[h].ctx
        BY <3>1, <3>2 DEF JobFinds
      <4>3. s = q[h].ctx
        BY <1>1, <2>1, <3>2, <4>1, <4>2
      <4> QED BY <1>1, <3>2, <4>3 DEF JobFinds
    <3>3. CASE i # h
      <4>1. q[i].stage = 0 /\ p[i].stage = 0
        BY <1>0, <1>4, <1>5, <2>1, <3>3
      <4>2. q[i].restore /\ InImage(q, q[i].ctx, r, F)
        BY <1>4, <3>1, <3>3, <4>1 DEF JobFinds
      <4>3. p[i].restore /\ p[i].ctx \in G
        BY <1>0, <1>1, <1>10, <4>2
      <4> QED BY <1>8, <4>1, <4>3 DEF JobFinds, InImage
    <3> QED BY <3>2, <3>3
  <2> QED BY <1>0, <2>1 DEF JobsFind
<1>12. FilesFind(p, c, s, L, T, G, R)
  <2>1. ASSUME NEW w \in L, w \in R \ T, Unused(p, w, n + 1)
        PROVE  FileFinds(p, c, s, G, w)
    <3>1. Unused(q, w, n + 1) /\ w # None
      BY <1>0, <1>6, <2>1
    <3>2. FileFinds(q, c, r, F, w)
      BY <1>0, <1>2, <2>1, <3>1 DEF FilesFind
    <3>3. c # w
      BY <1>0, <1>2, <3>1, CurrentIsUsed
    <3>4. w \in G
      BY <1>10, <2>1, <3>2, <3>3 DEF FileFinds
    <3> QED BY <1>8, <3>3, <3>4 DEF FileFinds, InImage
  <2> QED BY <1>0, <2>1 DEF FilesFind
<1> QED
  BY <1>3, <1>7, <1>11, <1>12 DEF StateOK, Linked

(* the first job is executed: the registers hold the state of its context, *)
(* and the next job of another context saves it, if there will be a use    *)
LEMMA ExecuteState ==
    ASSUME NEW q \in Seq(Job), NEW p, Restaged(q, p), NEW h, IsHead(q, h), q[h].stage = 1,
           p[h].stage = 2, \A i \in 1 .. Len(q) : i # h => p[i].stage = q[i].stage,
           NEW c, NEW r, NEW L, NEW T, NEW V, NEW F, NEW R, L \subseteq Users, R \subseteq Users,
           StateOK(q, c, r, L, T, V, F, R)
    PROVE  StateOK(p, c, q[h].ctx, L, T, V, F \ {q[h].ctx}, R \cup {q[h].ctx})
<1> DEFINE n == Len(q)
           y == q[h].ctx
           G == F \ {y}
           Q == R \cup {y}
<1>0. /\ n \in Nat /\ Len(q) = n /\ Len(p) = n /\ None \notin Users
      /\ \A i \in 1 .. n : q[i].ctx \in Users
  BY QueueTypes, ChannelAssumption DEF Restaged
<1>1. \A i \in 1 .. n :
          p[i].ctx = q[i].ctx /\ p[i].save = q[i].save /\ p[i].restore = q[i].restore
  BY DEF Restaged
<1>2. /\ Ordered(q) /\ LastOK(q, c, L) /\ SavesPrev(q) /\ NoSwitch(q) /\ Skipped(q, L, T)
      /\ FirstUse(q, T) /\ JobsFind(q, r, T, F, R) /\ FilesFind(q, c, r, L, T, F, R)
  BY DEF StateOK, Linked
<1>4. /\ h \in 1 .. n
      /\ \A i \in 1 .. n : /\ i < h => q[i].stage = 2
                           /\ h < i => q[i].stage = 0
                           /\ IsHead(q, i) => i = h
                           /\ q[i].stage < 2 => h <= i
  BY <1>2, HeadSplits
<1>3. /\ LastOK(p, c, L) /\ SavesPrev(p) /\ NoSwitch(p) /\ Skipped(p, L, T)
      /\ FirstUse(p, T) /\ ValidOK(p, c, L, T, V, Q)
  <2>1. \A u \in Q : u \in R \/ \E i \in 1 .. Len(q) : q[i].ctx = u
    BY <1>4
  <2> QED BY <2>1, RestagedLinks
<1>5. \A i \in 1 .. n : (i <= h => p[i].stage = 2) /\ (h < i => p[i].stage = 0)
  BY <1>0, <1>4
<1> HIDE DEF n, y, G, Q
<1>6. Ordered(p)
  BY <1>0, <1>4, <1>5 DEF Ordered
<1>7. \A i \in 1 .. n : IsHead(p, i) <=> i = h + 1
  <2>0. h \in Nat
    BY <1>0, <1>4
  <2>1. ASSUME NEW i \in 1 .. n, IsHead(p, i) PROVE i = h + 1
    <3>1. p[i].stage < 2 /\ ~(i <= h) /\ i \in Nat
      BY <1>0, <1>5, <2>1 DEF IsHead
    <3>2. SUFFICES ASSUME h + 1 < i PROVE FALSE
      BY <2>0, <3>1
    <3>3. h + 1 \in 1 .. n /\ h < h + 1
      BY <1>0, <2>0, <3>1, <3>2
    <3>4. p[h + 1].stage = 0
      BY <1>5, <3>3
    <3> QED BY <1>0, <2>1, <3>2, <3>3, <3>4 DEF IsHead
  <2>2. ASSUME NEW i \in 1 .. n, i = h + 1 PROVE IsHead(p, i)
    BY <1>0, <1>5, <2>0, <2>2 DEF IsHead
  <2> QED BY <2>1, <2>2
<1>8. \A x : HeadSaves(p, x) => x = None \/ x = y
  <2>1. ASSUME NEW x, x # None, NEW i \in 1 .. n, i = h + 1, p[i].save = x PROVE x = y
    BY <1>0, <1>1, <1>2, <1>4, <2>1 DEF SavesPrev, y
  <2> QED BY <1>0, <1>7, <2>1 DEF HeadSaves
<1>9. \A x : ~HeadSaves(q, x)
  BY <1>0, <1>4 DEF HeadSaves
<1>10. \A x, i : x # y /\ Unused(p, x, i) => Unused(q, x, i)
  BY <1>0, <1>1, <1>4 DEF Unused, y
(* a context that is used again, but not by the next job, is saved by that *)
<1>11. ASSUME y \notin T, h + 1 \in 1 .. n, q[h + 1].ctx # y,
              y \in L \/ \E i \in 1 .. n : i >= h + 1 /\ q[i].ctx = y
       PROVE  HeadSaves(p, y)
  <2>1. q[h + 1].save = y
    BY <1>0, <1>2, <1>4, <1>11 DEF Skipped, y
  <2>2. IsHead(p, h + 1) /\ p[h + 1].stage = 0 /\ p[h + 1].save = y
    BY <1>0, <1>1, <1>4, <1>5, <1>7, <1>11, <2>1
  <2> QED BY <1>0, <1>11, <2>2 DEF HeadSaves
<1>12. JobsFind(p, y, T, G, Q)
  <2>1. ASSUME NEW i \in 1 .. n, p[i].stage < 2, p[i].ctx \in Q \ T, Unused(p, p[i].ctx, i)
        PROVE  JobFinds(p, i, y, G)
    <3>0. h < i /\ p[i].stage = 0 /\ q[i].stage = 0 /\ i >= h + 1
      BY <1>0, <1>4, <1>5, <2>1
    <3>1. CASE p[i].ctx = y
      <4>1. CASE i = h + 1
        <5>1. ~p[i].restore
          BY <1>0, <1>1, <1>2, <1>4, <3>1, <4>1 DEF NoSwitch, y
        <5> QED BY <1>7, <3>0, <3>1, <4>1, <5>1 DEF JobFinds
      <4>2. CASE i # h + 1
        <5>1. h + 1 \in 1 .. n /\ h + 1 < i /\ i - 1 \in 1 .. n /\ h + 1 <= i - 1 /\ i - 1 < i
          BY <1>0, <1>4, <3>0, <4>2
        <5>2. p[h + 1].stage = 0 /\ p[i - 1].stage = 0
          BY <1>0, <1>4, <1>5, <5>1
        <5>3. p[h + 1].ctx # y /\ p[i - 1].ctx # y
          BY <1>0, <2>1, <3>1, <5>1, <5>2 DEF Unused
        <5>4. HeadSaves(p, y)
          BY <1>0, <1>1, <1>11, <2>1, <3>0, <3>1, <5>1, <5>3
        <5>5. p[i].restore
          <6>1. q[i].ctx = y /\ q[i - 1].ctx # y /\ y \notin T /\ (i - 1) + 1 = i
            BY <1>0, <1>1, <2>1, <3>1, <5>1, <5>3
          <6>2. q[i].restore
            BY <1>0, <1>2, <1>4, <3>0, <5>1, <6>1 DEF FirstUse, y
          <6> QED BY <1>1, <6>2
        <5> QED BY <3>0, <3>1, <5>4, <5>5 DEF JobFinds, InImage
      <4> QED BY <4>1, <4>2
    <3>2. CASE p[i].ctx # y
      <4>1. q[i].ctx \in R \ T /\ Unused(q, q[i].ctx, i)
        BY <1>1, <1>10, <2>1, <3>2 DEF Q
      <4>2. JobFinds(q, i, r, F)
        BY <1>0, <1>2, <3>0, <4>1 DEF JobsFind
      <4>3. i # h
        BY <1>0, <1>4, <3>0
      <4>4. q[i].restore /\ q[i].ctx \in F
        BY <1>4, <1>9, <3>0, <4>2, <4>3 DEF JobFinds, InImage
      <4>5. p[i].ctx \in G /\ p[i].restore /\ p[i].ctx # None
        BY <1>0, <1>1, <3>2, <4>4 DEF G
      <4> QED BY <1>8, <3>0, <3>2, <4>5 DEF JobFinds, InImage
    <3> QED BY <3>1, <3>2
  <2> QED BY <1>0, <2>1 DEF JobsFind
<1>13. FilesFind(p, c, y, L, T, G, Q)
  <2>1. ASSUME NEW w \in L, w \in Q \ T, Unused(p, w, n + 1)
        PROVE  FileFinds(p, c, y, G, w)
    <3>0. w # None
      BY <1>0
    <3>1. CASE w = y
      <4>1. CASE c = y
        BY <3>1, <4>1 DEF FileFinds
      <4>2. CASE c # y
        <5>1. h # n
          <6>1. SUFFICES ASSUME h = n PROVE FALSE
            OBVIOUS
          <6>2. n > 0 /\ q[n].ctx = y
            BY <1>0, <1>4, <6>1 DEF y
          <6> QED BY <1>0, <1>2, <2>1, <3>1, <4>2, <6>2 DEF LastOK
        <5>2. h + 1 \in 1 .. n /\ h + 1 < n + 1
          BY <1>0, <1>4, <5>1
        <5>3. p[h + 1].stage = 0
          BY <1>0, <1>4, <1>5, <5>2
        <5>4. q[h + 1].ctx # y
          BY <1>0, <1>1, <2>1, <3>1, <5>2, <5>3 DEF Unused
        <5>5. HeadSaves(p, y)
          BY <1>11, <2>1, <3>1, <5>2, <5>4
        <5> QED BY <3>1, <4>2, <5>5 DEF FileFinds, InImage
      <4> QED BY <4>1, <4>2
    <3>2. CASE w # y
      <4>1. Unused(q, w, n + 1) /\ w \in R
        BY <1>10, <2>1, <3>2 DEF Q
      <4>2. FileFinds(q, c, r, F, w)
        BY <1>0, <1>2, <2>1, <4>1 DEF FilesFind
      <4>3. c # w
        BY <1>0, <1>2, <3>0, <4>1, CurrentIsUsed
      <4>4. w \in G
        BY <1>9, <3>2, <4>2, <4>3 DEF FileFinds, InImage, G
      <4> QED BY <1>8, <3>0, <3>2, <4>3, <4>4 DEF FileFinds, InImage
    <3> QED BY <3>1, <3>2
  <2> QED BY <1>0, <2>1 DEF FilesFind
<1>14. StateOK(p, c, y, L, T, V, G, Q)
  BY <1>3, <1>6, <1>12, <1>13 DEF StateOK, Linked
<1> QED BY <1>14 DEF y, G, Q

(* a teardown: the reset takes the registers, the leading jobs of the      *)
(* first one's context are cancelled, and that context has timed out       *)
LEMMA ResetState ==
    ASSUME NEW q \in Seq(Job), NEW p, Restaged(q, p), NEW h, IsHead(q, h), NEW S,
           \A i \in 1 .. Len(q) :
               i \in S <=> q[i].stage < 2 /\ \A k \in h .. i : q[k].ctx = q[h].ctx,
           \A i \in 1 .. Len(q) : p[i].stage = IF i \in S THEN 2 ELSE q[i].stage,
           NEW c, NEW r, NEW L, NEW T, NEW V, NEW F, NEW R, L \subseteq Users, R \subseteq Users,
           StateOK(q, c, r, L, T, V, F, R)
    PROVE  StateOK(p, c, None, L, T \cup {q[h].ctx}, V, F, R \ {r, q[h].ctx})
<1> DEFINE n == Len(q)
           y == q[h].ctx
           U == T \cup {y}
           Q == R \ {r, y}
<1>0. /\ n \in Nat /\ Len(q) = n /\ Len(p) = n /\ None \notin Users
      /\ \A i \in 1 .. n : q[i].ctx \in Users
  BY QueueTypes, ChannelAssumption DEF Restaged
<1>1. \A i \in 1 .. n :
          p[i].ctx = q[i].ctx /\ p[i].save = q[i].save /\ p[i].restore = q[i].restore
  BY DEF Restaged
<1>2. /\ Ordered(q) /\ SavesPrev(q)
      /\ JobsFind(q, r, T, F, R) /\ FilesFind(q, c, r, L, T, F, R)
  BY DEF StateOK, Linked
<1>3. /\ LastOK(p, c, L) /\ SavesPrev(p) /\ NoSwitch(p) /\ Skipped(p, L, U)
      /\ FirstUse(p, U) /\ ValidOK(p, c, L, U, V, Q)
  BY RestagedLinks
<1>4. /\ h \in 1 .. n /\ h \in Nat /\ q[h].stage < 2
      /\ \A i \in 1 .. n : /\ i < h => q[i].stage = 2
                           /\ h < i => q[i].stage = 0
                           /\ q[i].stage < 2 => h <= i
  BY <1>0, <1>2, HeadSplits DEF IsHead
<1>5. /\ \A i \in 1 .. n : i \in S <=> q[i].stage < 2 /\ \A k \in h .. i : q[k].ctx = y
      /\ \A i \in 1 .. n : p[i].stage = IF i \in S THEN 2 ELSE q[i].stage
  OBVIOUS
<1> HIDE DEF n, y, U, Q
<1>6. \A i \in 1 .. n : i \in S => h <= i /\ q[i].ctx = y
  BY <1>0, <1>4, <1>5
<1>7. h \in S
  BY <1>0, <1>4, <1>5 DEF y
<1>8. \A i, k \in 1 .. n : k \in S /\ i < k /\ q[i].stage < 2 => i \in S
  <2>1. ASSUME NEW i \in 1 .. n, NEW k \in 1 .. n, k \in S, i < k, q[i].stage < 2 PROVE i \in S
    <3>1. \A l \in h .. i : l \in h .. k
      BY <1>0, <1>4, <2>1
    <3> QED BY <1>5, <2>1, <3>1
  <2> QED BY <2>1
<1>9. Ordered(p)
  <2>1. ASSUME NEW i \in 1 .. n, NEW k \in 1 .. n, i < k, p[i].stage < 2 PROVE p[k].stage = 0
    <3>1. i \notin S /\ q[i].stage < 2
      BY <1>5, <2>1
    <3>2. k \notin S /\ q[k].stage = 0
      BY <1>0, <1>2, <1>8, <2>1, <3>1 DEF Ordered
    <3> QED BY <1>5, <3>2
  <2> QED BY <1>0, <2>1 DEF Ordered
<1>10. \A x : HeadSaves(p, x) => x = None \/ x = y
  <2>1. ASSUME NEW x, x # None, NEW g \in 1 .. n, IsHead(p, g), p[g].save = x PROVE x = y
    <3>1. p[g].stage < 2 /\ \A k \in 1 .. n : k < g => p[k].stage = 2
      BY <1>0, <2>1 DEF IsHead
    <3>2. g \notin S /\ q[g].stage < 2 /\ h <= g /\ g # h
      BY <1>4, <1>5, <1>7, <3>1
    <3>3. g - 1 \in 1 .. n /\ g - 1 < g /\ h <= g - 1 /\ (g - 1) + 1 = g
      BY <1>0, <1>4, <3>2
    <3>4. p[g - 1].stage = 2
      BY <3>1, <3>3
    <3>5. q[g - 1].stage < 2
      BY <1>0, <1>4, <3>3
    <3>6. g - 1 \in S
      BY <1>5, <3>3, <3>4, <3>5
    <3>7. q[g - 1].ctx = y
      BY <1>6, <3>3, <3>6
    <3>8. q[g - 1].ctx = q[g].save
      BY <1>0, <1>1, <1>2, <2>1, <3>3 DEF SavesPrev
    <3> QED BY <1>1, <2>1, <3>7, <3>8
  <2> QED BY <1>0, <2>1 DEF HeadSaves
<1>11. \A x, i : x # y /\ Unused(p, x, i) => Unused(q, x, i)
  BY <1>0, <1>1, <1>5, <1>6 DEF Unused
<1>12. \A x : x # r /\ InImage(q, x, r, F) => x \in F
  BY DEF InImage
<1>13. JobsFind(p, None, U, F, Q)
  <2>1. ASSUME NEW i \in 1 .. n, p[i].stage < 2, p[i].ctx \in Q \ U, Unused(p, p[i].ctx, i)
        PROVE  JobFinds(p, i, None, F)
    <3>1. p[i].stage = q[i].stage
      BY <1>5, <2>1
    <3>2. q[i].ctx \in R \ T /\ q[i].ctx # r /\ q[i].ctx # y /\ Unused(q, q[i].ctx, i)
      BY <1>1, <1>11, <2>1 DEF U, Q
    <3>3. JobFinds(q, i, r, F)
      BY <1>0, <1>2, <2>1, <3>1, <3>2 DEF JobsFind
    <3>4. q[i].stage # 1 /\ (q[i].stage = 0 => q[i].restore /\ q[i].ctx \in F)
      BY <1>12, <3>2, <3>3 DEF JobFinds
    <3>5. ~HeadSaves(p, q[i].ctx)
      BY <1>0, <1>10, <3>2
    <3> QED BY <1>1, <3>1, <3>4, <3>5 DEF JobFinds, InImage
  <2> QED BY <1>0, <2>1 DEF JobsFind
<1>14. FilesFind(p, c, None, L, U, F, Q)
  <2>1. ASSUME NEW w \in L, w \in Q \ U, Unused(p, w, n + 1)
        PROVE  FileFinds(p, c, None, F, w)
    <3>1. w \in R \ T /\ w # r /\ w # y /\ Unused(q, w, n + 1)
      BY <1>11, <2>1 DEF U, Q
    <3>2. FileFinds(q, c, r, F, w)
      BY <1>0, <1>2, <2>1, <3>1 DEF FilesFind
    <3>3. c # w /\ w \in F
      BY <1>12, <3>1, <3>2 DEF FileFinds
    <3>4. ~HeadSaves(p, w)
      BY <1>0, <1>10, <3>1
    <3> QED BY <3>3, <3>4 DEF FileFinds, InImage
  <2> QED BY <1>0, <2>1 DEF FilesFind
<1>15. StateOK(p, c, None, L, U, V, F, Q)
  BY <1>3, <1>9, <1>13, <1>14 DEF StateOK, Linked
<1> QED BY <1>15 DEF y, U, Q

(* an update pops the jobs that are done *)
LEMMA PopState ==
    ASSUME NEW q \in Seq(Job), NEW p \in Seq(Job), NEW d \in Nat, d <= Len(q),
           \A k \in 1 .. Len(q) : k <= d => q[k].stage = 2,
           Len(p) = Len(q) - d, \A i \in 1 .. Len(p) : p[i] = q[i + d],
           NEW c, NEW r, NEW L, NEW T, NEW V, NEW F, NEW R,
           StateOK(q, c, r, L, T, V, F, R)
    PROVE  StateOK(p, c, r, L, T, V, F, R)
<1> DEFINE n == Len(q)
           l == Len(p)
<1>0. n \in Nat /\ l \in Nat /\ n = l + d /\ Len(q) = n /\ Len(p) = l
  OBVIOUS
<1>1. /\ \A k \in 1 .. n : k <= d => q[k].stage = 2
      /\ \A i \in 1 .. l : p[i] = q[i + d]
  OBVIOUS
<1>2. /\ Ordered(q) /\ LastOK(q, c, L) /\ SavesPrev(q) /\ NoSwitch(q) /\ Skipped(q, L, T)
      /\ FirstUse(q, T) /\ ValidOK(q, c, L, T, V, R)
      /\ JobsFind(q, r, T, F, R) /\ FilesFind(q, c, r, L, T, F, R)
  BY DEF StateOK, Linked
<1> HIDE DEF n, l
<1>3. \A i \in 1 .. l : i + d \in 1 .. n
  BY <1>0
<1>4. \A i, k \in 1 .. l : /\ i < k <=> i + d < k + d
                           /\ i >= k <=> i + d >= k + d
                           /\ i + 1 = k <=> (i + d) + 1 = k + d
  BY <1>0
<1>5. \A k \in 1 .. n : k <= d \/ (k - d \in 1 .. l /\ (k - d) + d = k)
  BY <1>0
<1>6. Ordered(p)
  BY <1>0, <1>1, <1>2, <1>3, <1>4 DEF Ordered
<1>7. LastOK(p, c, L)
  <2>1. l > 0 => l \in 1 .. l /\ l + d = n /\ n > 0
    BY <1>0
  <2> QED BY <1>0, <1>1, <1>2, <2>1 DEF LastOK
<1>8. SavesPrev(p)
  <2>1. ASSUME NEW i \in 1 .. l, p[i].save # None
        PROVE  /\ p[i].save # p[i].ctx
               /\ \A h \in 1 .. l : h + 1 = i => p[h].ctx = p[i].save
    <3>1. p[i] = q[i + d] /\ i + d \in 1 .. n
      BY <1>1, <1>3
    <3>2. ASSUME NEW h \in 1 .. l, h + 1 = i PROVE p[h].ctx = p[i].save
      <4>1. p[h] = q[h + d] /\ h + d \in 1 .. n /\ (h + d) + 1 = i + d
        BY <1>1, <1>3, <1>4, <3>2
      <4>2. PICK a, b \in 1 .. n : p[h] = q[a] /\ p[i] = q[b] /\ a + 1 = b
        BY <3>1, <4>1
      <4>3. Len(q) = n
        BY <1>0
      <4> QED BY <1>2, <2>1, <4>2, <4>3 DEF SavesPrev
    <3> QED BY <1>0, <1>2, <2>1, <3>1, <3>2 DEF SavesPrev
  <2> QED BY <1>0, <2>1 DEF SavesPrev
<1>9. ASSUME NEW h \in 1 .. l, NEW i \in 1 .. l, h + 1 = i
       PROVE  /\ p[h] = q[h + d] /\ p[i] = q[i + d] /\ h + d \in 1 .. n /\ i + d \in 1 .. n
              /\ (h + d) + 1 = i + d
  BY <1>1, <1>3, <1>4, <1>9
<1>10. NoSwitch(p)
  <2>1. ASSUME NEW h \in 1 .. l, NEW i \in 1 .. l, h + 1 = i, p[h].ctx = p[i].ctx
        PROVE  ~p[i].restore /\ p[i].save = None
    BY <1>0, <1>2, <1>9, <2>1 DEF NoSwitch
  <2> QED BY <1>0, <2>1 DEF NoSwitch
<1>11. Skipped(p, L, T)
  <2>1. ASSUME NEW h \in 1 .. l, NEW i \in 1 .. l, h + 1 = i, p[h].ctx # p[i].ctx,
               p[h].ctx \notin T, p[i].save # p[h].ctx
        PROVE  p[h].ctx \notin L /\ \A k \in 1 .. l : k >= i => p[k].ctx # p[h].ctx
    <3>1. /\ p[h] = q[h + d] /\ p[i] = q[i + d] /\ h + d \in 1 .. n /\ i + d \in 1 .. n
          /\ (h + d) + 1 = i + d
      BY <1>9, <2>1
    <3>2. PICK a, b \in 1 .. n : p[h] = q[a] /\ p[i] = q[b] /\ a + 1 = b /\ b = i + d
      BY <3>1
    <3>3. Len(q) = n
      BY <1>0
    <3>4. /\ p[h].ctx \notin L
          /\ \A k \in 1 .. n : k >= b => q[k].ctx # p[h].ctx
      <4>1. /\ q[a].ctx # q[b].ctx /\ q[a].ctx \notin T /\ q[b].save # q[a].ctx
        BY <2>1, <3>2
      <4>2. Skipped(q, L, T)
        BY <1>2
      <4>3. /\ q[a].ctx \notin L
            /\ \A k \in 1 .. n : k >= b => q[k].ctx # q[a].ctx
        BY <3>2, <3>3, <4>1, <4>2 DEF Skipped
      <4> QED BY <3>2, <4>3
    <3>5. ASSUME NEW k \in 1 .. l, k >= i PROVE p[k].ctx # p[h].ctx
      <4>1. p[k] = q[k + d] /\ k + d \in 1 .. n /\ k + d >= i + d
        BY <1>1, <1>3, <1>4, <3>5
      <4> QED BY <3>2, <3>4, <4>1
    <3> QED BY <3>4, <3>5
  <2> QED BY <1>0, <2>1 DEF Skipped
<1>12. FirstUse(p, T)
  <2>1. ASSUME NEW h \in 1 .. l, NEW i \in 1 .. l, h + 1 = i, p[h].ctx # p[i].ctx,
               ~p[i].restore, p[i].ctx \notin T
        PROVE  \A k \in 1 .. l : k < i => p[k].ctx # p[i].ctx
    <3>1. /\ p[h] = q[h + d] /\ p[i] = q[i + d] /\ h + d \in 1 .. n /\ i + d \in 1 .. n
          /\ (h + d) + 1 = i + d
      BY <1>9, <2>1
    <3>2. \A k \in 1 .. n : k < i + d => q[k].ctx # p[i].ctx
      BY <1>0, <1>2, <2>1, <3>1 DEF FirstUse
    <3>3. ASSUME NEW k \in 1 .. l, k < i PROVE p[k].ctx # p[i].ctx
      <4>1. p[k] = q[k + d] /\ k + d \in 1 .. n /\ k + d < i + d
        BY <1>1, <1>3, <1>4, <3>3
      <4> QED BY <3>2, <4>1
    <3> QED BY <3>3
  <2> QED BY <1>0, <2>1 DEF FirstUse
<1>13. ValidOK(p, c, L, T, V, R)
  BY <1>0, <1>1, <1>2, <1>3 DEF ValidOK
<1>14. \A i \in 1 .. l : IsHead(p, i) <=> IsHead(q, i + d)
  <2>1. ASSUME NEW i \in 1 .. l, IsHead(p, i) PROVE IsHead(q, i + d)
    <3>1. ASSUME NEW k \in 1 .. n, k < i + d, ~(k <= d) PROVE q[k].stage = 2
      <4>1. k - d \in 1 .. l /\ (k - d) + d = k /\ k - d < i
        BY <1>0, <1>5, <3>1
      <4> QED BY <1>0, <1>1, <2>1, <4>1 DEF IsHead
    <3> QED BY <1>0, <1>1, <1>3, <2>1, <3>1 DEF IsHead
  <2>2. ASSUME NEW i \in 1 .. l, IsHead(q, i + d) PROVE IsHead(p, i)
    BY <1>0, <1>1, <1>3, <1>4, <2>2 DEF IsHead
  <2> QED BY <2>1, <2>2
<1>15. \A x : HeadSaves(p, x) <=> HeadSaves(q, x)
  <2>1. ASSUME NEW x, HeadSaves(p, x) PROVE HeadSaves(q, x)
    BY <1>0, <1>1, <1>3, <1>14, <2>1 DEF HeadSaves
  <2>2. ASSUME NEW x, HeadSaves(q, x) PROVE HeadSaves(p, x)
    <3>1. PICK k \in 1 .. n : IsHead(q, k) /\ q[k].stage = 0 /\ q[k].save = x
      BY <1>0, <2>2 DEF HeadSaves
    <3>2. ~(k <= d)
      BY <1>1, <3>1
    <3>3. k - d \in 1 .. l /\ (k - d) + d = k
      BY <1>5, <3>2
    <3>4. p[k - d] = q[k] /\ IsHead(p, k - d)
      BY <1>1, <1>14, <3>1, <3>3
    <3> QED BY <1>0, <3>1, <3>3, <3>4 DEF HeadSaves
  <2> QED BY <2>1, <2>2
<1>16. ASSUME NEW x, NEW i \in 1 .. l + 1, Unused(p, x, i) PROVE Unused(q, x, i + d)
  <2>1. ASSUME NEW k \in 1 .. n, k < i + d, q[k].stage < 2 PROVE q[k].ctx # x
    <3>1. ~(k <= d)
      BY <1>1, <2>1
    <3>2. k - d \in 1 .. l /\ (k - d) + d = k /\ k - d < i
      BY <1>0, <1>5, <2>1, <3>1
    <3>3. p[k - d] = q[k]
      BY <1>1, <3>2
    <3> QED BY <1>0, <1>16, <2>1, <3>2, <3>3 DEF Unused
  <2> QED BY <1>0, <2>1 DEF Unused
<1>17. JobsFind(p, r, T, F, R)
  <2>1. ASSUME NEW i \in 1 .. l, p[i].stage < 2, p[i].ctx \in R \ T, Unused(p, p[i].ctx, i)
        PROVE  JobFinds(p, i, r, F)
    <3>1. p[i] = q[i + d] /\ Unused(q, q[i + d].ctx, i + d) /\ i + d \in 1 .. n
      BY <1>0, <1>1, <1>3, <1>16, <2>1
    <3>2. JobFinds(q, i + d, r, F)
      BY <1>0, <1>2, <2>1, <3>1 DEF JobsFind
    <3> QED BY <1>14, <1>15, <3>1, <3>2 DEF JobFinds, InImage
  <2> QED BY <1>0, <2>1 DEF JobsFind
<1>18. FilesFind(p, c, r, L, T, F, R)
  <2>1. ASSUME NEW w \in L, w \in R \ T, Unused(p, w, l + 1)
        PROVE  FileFinds(p, c, r, F, w)
    <3>1. l + 1 \in 1 .. l + 1 /\ (l + 1) + d = n + 1
      BY <1>0
    <3>2. Unused(q, w, n + 1)
      BY <1>16, <2>1, <3>1
    <3>3. FileFinds(q, c, r, F, w)
      BY <1>0, <1>2, <2>1, <3>2 DEF FilesFind
    <3> QED BY <1>15, <3>3 DEF FileFinds, InImage
  <2> QED BY <1>0, <2>1 DEF FilesFind
<1> QED
  BY <1>6, <1>7, <1>8, <1>10, <1>11, <1>12, <1>13, <1>17, <1>18 DEF StateOK, Linked

(* nvhost_putchannel: a file is not open any more, nor its context current *)
LEMMA CloseState ==
    ASSUME NEW q \in Seq(Job), NEW u \in Users, NEW c, NEW r, NEW L, NEW T, NEW V, NEW F, NEW R,
           L \subseteq Users, StateOK(q, c, r, L, T, V, F, R)
    PROVE  StateOK(q, IF c = u THEN None ELSE c, r, L \ {u}, T, V, F, R)
<1> DEFINE b == IF c = u THEN None ELSE c
           K == L \ {u}
<1>1. /\ Ordered(q) /\ LastOK(q, c, L) /\ SavesPrev(q) /\ NoSwitch(q) /\ Skipped(q, L, T)
      /\ FirstUse(q, T) /\ ValidOK(q, c, L, T, V, R)
      /\ JobsFind(q, r, T, F, R) /\ FilesFind(q, c, r, L, T, F, R)
  BY DEF StateOK, Linked
<1>2. LastOK(q, b, K)
  BY <1>1 DEF LastOK
<1>3. Skipped(q, K, T)
  BY <1>1 DEF Skipped
<1>4. ValidOK(q, b, K, T, V, R)
  BY <1>1 DEF ValidOK
<1>5. FilesFind(q, b, r, K, T, F, R)
  <2>1. ASSUME NEW w \in K, FileFinds(q, c, r, F, w) PROVE FileFinds(q, b, r, F, w)
    BY <2>1, ChannelAssumption DEF FileFinds
  <2> QED BY <1>1, <2>1 DEF FilesFind
<1> QED
  BY <1>1, <1>2, <1>3, <1>4, <1>5 DEF StateOK, Linked

(* a channel without jobs and without a current context loses nothing with *)
(* the registers                                                           *)
LEMMA EmptyState ==
    ASSUME NEW c, NEW r, NEW s, NEW L, NEW T, NEW V, NEW F, NEW R, L \subseteq Users, c = None,
           StateOK(<<>>, c, r, L, T, V, F, R)
    PROVE  StateOK(<<>>, c, s, L, T, V, F, R)
<1> DEFINE q == <<>>
<1>1. Len(q) = 0 /\ 1 .. Len(q) = {} /\ None \notin Users
  BY ChannelAssumption
<1>2. Linked(q, c, L, T) /\ ValidOK(q, c, L, T, V, R) /\ FilesFind(q, c, r, L, T, F, R)
  BY DEF StateOK
<1> HIDE DEF q
<1>3. JobsFind(q, s, T, F, R)
  BY <1>1 DEF JobsFind
<1>4. FilesFind(q, c, s, L, T, F, R)
  BY <1>1, <1>2 DEF FilesFind, FileFinds, InImage, HeadSaves
<1>5. StateOK(q, c, s, L, T, V, F, R)
  BY <1>2, <1>3, <1>4 DEF StateOK
<1> QED BY <1>5 DEF q

(* host1x_save_context: afterwards the current context is in its image *)
LEMMA SavedState ==
    ASSUME NEW c \in Users, NEW r, NEW s, NEW L, NEW T, NEW V, NEW F, NEW G, NEW R,
           L \subseteq Users, G = IF r = c THEN F \cup {c} ELSE F \ {c},
           StateOK(<<>>, c, r, L, T, V, F, R)
    PROVE  StateOK(<<>>, None, s, L, T, V \cup {c}, G, R)
<1> DEFINE q == <<>>
<1>1. Len(q) = 0 /\ 1 .. Len(q) = {} /\ None \notin Users
  BY ChannelAssumption
<1>2. ValidOK(q, c, L, T, V, R) /\ FilesFind(q, c, r, L, T, F, R)
  BY DEF StateOK
<1> HIDE DEF q
<1>3. Linked(q, None, L, T)
  BY <1>1 DEF Linked, Ordered, LastOK, SavesPrev, NoSwitch, Skipped, FirstUse
<1>4. ValidOK(q, None, L, T, V \cup {c}, R)
  BY <1>1, <1>2 DEF ValidOK
<1>5. JobsFind(q, s, T, G, R)
  BY <1>1 DEF JobsFind
<1>6. FilesFind(q, None, s, L, T, G, R)
  <2>1. ASSUME NEW w \in L, w \in R \ T PROVE FileFinds(q, None, s, G, w)
    <3>1. FileFinds(q, c, r, F, w)
      BY <1>1, <1>2, <2>1 DEF FilesFind, Unused
    <3>2. w \in G
      BY <1>1, <3>1 DEF FileFinds, InImage, HeadSaves
    <3> QED BY <1>1, <3>2 DEF FileFinds, InImage, HeadSaves
  <2> QED BY <2>1 DEF FilesFind
<1>7. StateOK(q, None, s, L, T, V \cup {c}, G, R)
  BY <1>3, <1>4, <1>5, <1>6 DEF StateOK
<1> QED BY <1>7 DEF q

(* what happens to context x on another channel does not matter here *)
LEMMA OtherState ==
    ASSUME NEW q \in Seq(Job), NEW c, NEW r, NEW L, NEW T, NEW V, NEW F, NEW R, NEW x,
           NEW T2, NEW V2, NEW F2, NEW R2, T \subseteq T2, V \subseteq V2,
           x \notin L, \A i \in 1 .. Len(q) : q[i].ctx # x,
           \A u : u # x => (u \in F2 <=> u \in F) /\ (u \in R2 => u \in R),
           StateOK(q, c, r, L, T, V, F, R)
    PROVE  StateOK(q, c, r, L, T2, V2, F2, R2)
<1>1. /\ Ordered(q) /\ LastOK(q, c, L) /\ SavesPrev(q) /\ NoSwitch(q) /\ Skipped(q, L, T)
      /\ FirstUse(q, T) /\ ValidOK(q, c, L, T, V, R)
      /\ JobsFind(q, r, T, F, R) /\ FilesFind(q, c, r, L, T, F, R)
  BY DEF StateOK, Linked
<1>2. Skipped(q, L, T2)
  BY <1>1 DEF Skipped
<1>3. FirstUse(q, T2)
  BY <1>1 DEF FirstUse
<1>4. ValidOK(q, c, L, T2, V2, R2)
  BY <1>1 DEF ValidOK
<1>5. \A w : w # x /\ InImage(q, w, r, F) => InImage(q, w, r, F2)
  BY DEF InImage
<1>6. JobsFind(q, r, T2, F2, R2)
  <2>1. ASSUME NEW i \in 1 .. Len(q), JobFinds(q, i, r, F) PROVE JobFinds(q, i, r, F2)
    BY <1>5, <2>1 DEF JobFinds
  <2> QED BY <1>1, <2>1 DEF JobsFind
<1>7. FilesFind(q, c, r, L, T2, F2, R2)
  <2>1. ASSUME NEW w \in L, FileFinds(q, c, r, F, w) PROVE FileFinds(q, c, r, F2, w)
    BY <1>5, <2>1 DEF FileFinds
  <2> QED BY <1>1, <2>1 DEF FilesFind
<1> QED
  BY <1>1, <1>2, <1>3, <1>4, <1>6, <1>7 DEF StateOK, Linked

(* a context that no job refers to is given up, or is a new one *)
LEMMA ForgetState ==
    ASSUME NEW q \in Seq(Job), NEW u, NEW c, NEW r, NEW L, NEW K, NEW T, NEW V, NEW F, NEW R,
           \A i \in 1 .. Len(q) : q[i].ctx # u, c # u, K \subseteq L \cup {u},
           StateOK(q, c, r, L, T, V, F, R)
    PROVE  StateOK(q, c, IF r = u THEN None ELSE r, K, T \ {u}, V \ {u}, F \ {u}, R \ {u})
<1> DEFINE s == IF r = u THEN None ELSE r
           T2 == T \ {u}
           V2 == V \ {u}
           F2 == F \ {u}
           R2 == R \ {u}
<1>1. /\ Ordered(q) /\ LastOK(q, c, L) /\ SavesPrev(q) /\ NoSwitch(q) /\ Skipped(q, L, T)
      /\ FirstUse(q, T) /\ ValidOK(q, c, L, T, V, R)
      /\ JobsFind(q, r, T, F, R) /\ FilesFind(q, c, r, L, T, F, R)
  BY DEF StateOK, Linked
<1>0. \A w : w # u => (r = w => s = w) /\ (w \in F => w \in F2)
  OBVIOUS
<1> HIDE DEF s
<1>2. LastOK(q, c, K)
  <2>1. Len(q) > 0 => Len(q) \in 1 .. Len(q)
    BY QueueTypes
  <2> QED BY <1>1, <2>1 DEF LastOK
<1>3. Skipped(q, K, T2)
  BY <1>1 DEF Skipped
<1>4. FirstUse(q, T2)
  BY <1>1 DEF FirstUse
<1>5. ValidOK(q, c, K, T2, V2, R2)
  BY <1>1 DEF ValidOK
<1>6. \A w : w # u /\ InImage(q, w, r, F) => InImage(q, w, s, F2)
  BY <1>0 DEF InImage
<1>7. JobsFind(q, s, T2, F2, R2)
  <2>1. ASSUME NEW i \in 1 .. Len(q), JobFinds(q, i, r, F) PROVE JobFinds(q, i, s, F2)
    BY <1>0, <1>6, <2>1 DEF JobFinds
  <2> QED BY <1>1, <2>1 DEF JobsFind
<1>8. FilesFind(q, c, s, K, T2, F2, R2)
  <2>1. ASSUME NEW w, w # u, FileFinds(q, c, r, F, w) PROVE FileFinds(q, c, s, F2, w)
    BY <1>0, <1>6, <2>1 DEF FileFinds
  <2>2. ASSUME NEW w \in K, w \in R2 \ T2, Unused(q, w, Len(q) + 1) PROVE FileFinds(q, c, s, F2, w)
    BY <1>1, <2>1, <2>2 DEF FilesFind
  <2> QED BY <2>2 DEF FilesFind
<1>9. StateOK(q, c, s, K, T2, V2, F2, R2)
  BY <1>1, <1>2, <1>3, <1>4, <1>5, <1>7, <1>8 DEF StateOK, Linked
<1> QED BY <1>9 DEF s

-----------------------------------------------------------------------------
(* A module that is powered off has nothing to lose *)

(* nobody but the one who brings it up has a reference to a module that is *)
(* powered off                                                             *)
GatedInv ==
    \A m \in Children : dev[m].powerstate = "powergated" /\ dev[m].refcount > 0 =>
        dev[m].at = "busy" /\ dev[m].refcount = 1

LEMMA GatedNext == Base /\ Counts /\ GatedInv /\ [Next]_vars => GatedInv'
<1> SUFFICES ASSUME Base, Counts, GatedInv, [Next]_vars, NEW m \in Children,
                    dev'[m].powerstate = "powergated", dev'[m].refcount > 0
             PROVE  dev'[m].at = "busy" /\ dev'[m].refcount = 1
  BY DEF GatedInv
<1> DEFINE d == dev[m]
           e == dev'[m]
<1>1. ChildMove(m)
  BY ChildMoves DEF Base
<1>2. d \in DevRec /\ d.refcount \in Nat /\ Section(d)
  BY DEF Base, ParentInv, Counts, Mods
<1>3. d.powerstate = "powergated" /\ d.refcount > 0 => d.at = "busy" /\ d.refcount = 1
  BY DEF GatedInv
<1>4. Taken(d) => d.refcount = 0
  BY DEF Base, IdleInv
<1>5. ASSUME NEW t \in Threads, SuspendOff(t), on[t] = m PROVE d.refcount = 0
  BY <1>5 DEF SuspendOff, Base, IdleInv
<1>6. e.powerstate = "powergated" /\ e.refcount > 0
  OBVIOUS
<1>7. CASE ToBusy(d, e)
  BY <1>2, <1>3, <1>6, <1>7 DEF ToBusy, Up, nvhost_module_powered
<1>8. CASE ToUp(d, e) \/ ToOffUp(d, e)
  BY <1>6, <1>8 DEF ToUp, ToOffUp, Up, nvhost_module_powered
<1>9. CASE ToSuspend(m, d, e) /\ d.refcount = 0
  BY <1>6, <1>9 DEF ToSuspend, Stays
<1>10. CASE ToIdle(d, e)
  <2>1. e.refcount <= d.refcount /\ d.at = "free" /\ d.powerstate = "powergated" /\ e.refcount \in Int
    BY <1>6, <1>10, BaseNext DEF ToIdle, Base, ParentInv, DevRec, Mods
  <2> QED BY <1>2, <1>3, <1>6, <2>1
<1>11. CASE ToStart(d, e)
  BY <1>3, <1>6, <1>11 DEF ToStart
<1>12. CASE ToDown(m, d, e)
  BY <1>3, <1>6, <1>12 DEF ToDown
<1>13. CASE ToGated(d, e) \/ ToSaved(m, d, e)
  BY <1>4, <1>6, <1>13 DEF ToGated, ToSaved, Stays, Taken
<1> HIDE DEF d, e
<1>14. CASE e = d
  BY <1>3, <1>6, <1>14 DEF d, e
<1> QED
  BY <1>1, <1>5, <1>7, <1>8, <1>9, <1>10, <1>11, <1>12, <1>13, <1>14 DEF ChildMove, d, e

(* a submit that is about to queue its job has a powered module *)
LEMMA PushIsPowered ==
    ASSUME Base, UpInv, GatedInv, NEW u \in Users, pc[u] = "push"
    PROVE  ~Taken(dev[on[u]]) /\ dev[on[u]].powerstate # "powergated" /\ on[u] \in Children
<1> DEFINE m == on[u]
           s == Cardinality(SubmitRefs(m))
           k == Cardinality(KeepRefs(m))
           n == IF irq[m].at = "drop" THEN irq[m].n ELSE 0
           l == Len(queue[m])
<1>0. m \in Children /\ u \in SubmitRefs(m)
  BY DEF Base, Places, SubmitRefs
<1>1. queue[m] \in Seq(Job) /\ owed[m] \in Nat /\ irq[m] \in IrqRec
  BY <1>0 DEF Base, JobInv, JobTypes
<1>2. /\ s \in Nat /\ k \in Nat /\ l \in Nat /\ n \in Nat
      /\ IsFiniteSet(SubmitRefs(m)) /\ IsFiniteSet(KeepRefs(m))
  <2>1. s \in Nat /\ k \in Nat /\ IsFiniteSet(SubmitRefs(m)) /\ IsFiniteSet(KeepRefs(m))
    BY <1>0, RefsFinite
  <2>2. l \in Nat /\ n \in Nat
    BY <1>1 DEF IrqRec
  <2> QED BY <2>1, <2>2
<1>3. s # 0
  BY <1>0, <1>2, FS_EmptySet
<1>4. dev[m].refcount = s + k + l + owed[m] + n
  BY <1>0 DEF Base, ChildRefs
<1>5. dev[m].refcount > 0
  <2> HIDE DEF s, k, l, n
  <2> QED BY <1>1, <1>2, <1>3, <1>4
<1>6. ~Taken(dev[m])
  BY <1>0, <1>5 DEF Base, IdleInv
<1>7. ASSUME dev[m].powerstate = "powergated" PROVE FALSE
  <2>1. dev[m].at = "busy" /\ dev[m].refcount = 1
    BY <1>0, <1>5, <1>7 DEF GatedInv
  <2>2. PICK v \in Users : on[v] = m /\ pc[v] \in {"keep_up", "submit_up"}
    BY <1>0, <2>1 DEF UpInv
  <2>3. v # u
    BY <2>2
  <2>4. CASE pc[v] = "submit_up"
    <3>1. {u, v} \subseteq SubmitRefs(m)
      BY <1>0, <2>2, <2>4 DEF SubmitRefs
    <3>2. Cardinality({u, v}) = 2
      <4>1. IsFiniteSet({u}) /\ Cardinality({u}) = 1
        BY FS_Singleton
      <4>2. Cardinality({u} \cup {v}) = 2
        BY <2>3, <4>1, FS_AddElement
      <4>3. {u} \cup {v} = {u, v}
        OBVIOUS
      <4> QED BY <4>2, <4>3
    <3>3. s >= 2
      BY <1>2, <3>1, <3>2, FS_Subset
    <3> HIDE DEF s, k, l, n
    <3> QED BY <1>1, <1>2, <1>4, <2>1, <3>3
  <2>5. CASE pc[v] = "keep_up"
    <3>1. v \in KeepRefs(m)
      BY <2>2, <2>5 DEF KeepRefs, Base, Places, SuspendPcs
    <3>2. k # 0
      BY <1>2, <3>1, FS_EmptySet
    <3> HIDE DEF s, k, l, n
    <3> QED BY <1>1, <1>2, <1>3, <1>4, <2>1, <3>2
  <2> QED BY <2>2, <2>4, <2>5
<1> QED BY <1>0, <1>6, <1>7

(* What is powered off, or about to be, has no job and no current context: *)
(* the power-off has saved it.                                             *)
Dark(d) == d.at = "off_idle" \/ d.powerstate = "powergated"
DarkInv == \A m \in Children : Dark(dev[m]) => cur_ctx[m] = None /\ queue[m] = <<>>

(* a module goes dark only by way of its context save *)
LEMMA GoesDark ==
    ASSUME JobMemory, Children \subseteq HasPoweroff, Base, [Next]_vars, NEW m \in Children,
           Dark(dev'[m]), ~Dark(dev[m])
    PROVE  /\ dev[m].at \in {"off_save", "off_wait"}
           /\ OffWait(m) \/ (cur_ctx[m] = None /\ cur_ctx' = cur_ctx)
<1> DEFINE d == dev[m]
           e == dev'[m]
<1>1. ChildMove(m)
  BY ChildMoves DEF Base
<1>2. dev \in [Mods -> DevRec] /\ m \in Mods /\ m \in HasPoweroff /\ Section(d)
  BY DEF Base, ParentInv, Mods
<1>3. Dark(e) /\ ~Dark(d)
  OBVIOUS
<1>4. ~(ToBusy(d, e) \/ ToIdle(d, e) \/ ToStart(d, e))
  BY <1>2, <1>3 DEF ToBusy, ToIdle, ToStart, Dark, Section
<1>5. ~(ToUp(d, e) \/ ToOffUp(d, e))
  BY <1>3 DEF ToUp, ToOffUp, Dark, Up, nvhost_module_powered
<1>6. ~ToSuspend(m, d, e)
  BY <1>2, <1>3 DEF ToSuspend, ToOff, Dark
<1>7. ~ToDown(m, d, e)
  BY <1>2, <1>3 DEF ToDown, ToOff, Dark
<1>8. ~ToGated(d, e)
  BY <1>3 DEF ToGated, Dark
<1>9. ToSaved(m, d, e) /\ (OffSave(m) \/ OffWait(m))
  BY <1>1, <1>3, <1>4, <1>5, <1>6, <1>7, <1>8 DEF ChildMove
<1>10. d.at \in {"off_save", "off_wait"} /\ e.at = "off_idle"
  BY <1>3, <1>9 DEF ToSaved, Dark
<1>11. CASE OffSave(m)
  <2>1. dev[m] \in DevRec
    BY <1>2
  <2>2. At(dev[m], "off_wait").at = "off_wait"
    BY <2>1 DEF At, DevRec
  <2>3. AfterPoweroff(m, dev[m], TRUE).at = "free"
    BY <2>1 DEF AfterPoweroff, Unlock, schedule_powergating, DevRec
  <2>4. cur_ctx[m] = None
    BY <1>2, <1>10, <1>11, <2>2, <2>3 DEF OffSave
  <2> QED
    BY <1>10, <1>11, <2>4 DEF OffSave
<1> QED BY <1>9, <1>10, <1>11

LEMMA DarkNext ==
    ASSUME JobMemory, Children \subseteq HasPoweroff, Base, UpInv, GatedInv, DarkInv, [Next]_vars
    PROVE  DarkInv'
<1> SUFFICES ASSUME NEW m \in Children, Dark(dev'[m])
             PROVE  cur_ctx'[m] = None /\ queue'[m] = <<>>
  BY DEF DarkInv
<1>0. cur_ctx \in [Children -> Users \cup {None}]
  BY DEF Base, CtxInv
<1>1. \A u \in Users : Push(u) => on[u] # m
  <2>1. SUFFICES ASSUME NEW u \in Users, Push(u), on[u] = m PROVE FALSE
    OBVIOUS
  <2>2. dev' = dev /\ pc[u] = "push"
    BY <2>1 DEF Push, acmVars
  <2>3. ~Taken(dev[m]) /\ dev[m].powerstate # "powergated"
    BY <2>1, <2>2, PushIsPowered
  <2> QED BY <2>2, <2>3 DEF Dark, Taken
<1>2. queue[m] = <<>> /\ (OffWait(m) \/ cur_ctx[m] = None)
  <2>1. CASE Dark(dev[m])
    BY <2>1 DEF DarkInv
  <2>2. CASE ~Dark(dev[m])
    <3>1. dev[m].at \in {"off_save", "off_wait"} /\ (OffWait(m) \/ cur_ctx[m] = None)
      BY <2>2, GoesDark
    <3>2. dev[m].refcount = 0
      BY <3>1 DEF Base, IdleInv, Taken
    <3> QED BY <3>1, <3>2, UnreferencedIsQuiet DEF Base, Quiet
  <2> QED BY <2>1, <2>2
<1>3. queue'[m] = <<>>
  BY <1>1, <1>2, EmptyStays
<1>4. cur_ctx'[m] = None
  <2>1. CASE OffWait(m)
    BY <1>0, <2>1 DEF OffWait
  <2>2. CASE cur_ctx[m] = None
    <3>1. ASSUME NEW u \in Users, Push(u) PROVE cur_ctx'[m] = None
      BY <1>0, <1>1, <2>2, <3>1 DEF Push
    <3>2. ASSUME NEW u \in Users, Close(u) PROVE cur_ctx'[m] = None
      BY <1>0, <2>2, <3>2 DEF Close, ClearCtx
    <3>3. ASSUME NEW k \in Children, OffWait(k) PROVE cur_ctx'[m] = None
      BY <1>0, <2>2, <3>3 DEF OffWait
    <3> QED BY <2>2, <3>1, <3>2, <3>3, CurrentMoves
  <2> QED BY <1>2, <2>1, <2>2
<1> QED BY <1>3, <1>4

-----------------------------------------------------------------------------
(* What a step does to a queue *)

(* Switch and Execute: the first job, and no other, gets to stage n *)
LEMMA StageIs ==
    ASSUME JobInv, NEW m \in Children, NEW n \in 0 .. 2, Unfinished(m) # {}, SetStage(m, n)
    PROVE  /\ Restaged(queue[m], queue'[m]) /\ queue'[m][AtHead(m)].stage = n
           /\ \A i \in 1 .. Len(queue[m]) :
                 i # AtHead(m) => queue'[m][i].stage = queue[m][i].stage
           /\ \A k \in Children \ {m} : queue'[k] = queue[k]
<1> DEFINE q == queue[m]
           h == AtHead(m)
           j == [q[h] EXCEPT !.stage = n]
           p == [q EXCEPT ![h] = j]
<1>1. q \in Seq(Job) /\ queue \in [Children -> Seq(Job)]
  BY DEF JobInv, JobTypes
<1>2. h \in 1 .. Len(q) /\ q[h] \in Job
  BY <1>1, HeadInQueue
<1>3. queue' = [queue EXCEPT ![m] = p]
  BY <1>1 DEF SetStage
<1> HIDE DEF q, h
<1>4. /\ j \in Job /\ j.stage = n
      /\ j.ctx = q[h].ctx /\ j.save = q[h].save /\ j.restore = q[h].restore
  BY <1>2 DEF Job
<1> HIDE DEF j
<1>5. /\ p \in Seq(Job) /\ Len(p) = Len(q)
      /\ p[h] = j /\ \A i \in 1 .. Len(q) : i # h => p[i] = q[i]
  BY <1>1, <1>2, <1>4
<1>6. queue'[m] = p /\ \A k \in Children \ {m} : queue'[k] = queue[k]
  BY <1>1, <1>3
<1> HIDE DEF p
<1>7. Restaged(q, p)
  BY <1>4, <1>5 DEF Restaged
<1> QED
  BY <1>4, <1>5, <1>6, <1>7 DEF q, h

(* TdReset: the leading jobs of the first one's context are cancelled *)
LEMMA CancelIs ==
    ASSUME JobInv, NEW m \in Children, TdReset(m)
    PROVE  \E S : /\ Restaged(queue[m], queue'[m])
                  /\ \A i \in 1 .. Len(queue[m]) :
                        i \in S <=> /\ queue[m][i].stage < 2
                                    /\ \A k \in AtHead(m) .. i :
                                          queue[m][k].ctx = queue[m][AtHead(m)].ctx
                  /\ \A i \in 1 .. Len(queue[m]) :
                        queue'[m][i].stage = IF i \in S THEN 2 ELSE queue[m][i].stage
                  /\ \A k \in Children \ {m} : queue'[k] = queue[k]
<1> DEFINE q == queue[m]
           h == AtHead(m)
           S == {i \in Unfinished(m) : \A k \in h .. i : q[k].ctx = q[h].ctx}
           p == [i \in DOMAIN q |-> IF i \in S THEN [q[i] EXCEPT !.stage = 2] ELSE q[i]]
<1>1. q \in Seq(Job) /\ queue \in [Children -> Seq(Job)]
  BY DEF JobInv, JobTypes
<1>2. queue' = [queue EXCEPT ![m] = p]
  BY DEF TdReset
<1>3. DOMAIN q = 1 .. Len(q) /\ Len(q) \in Nat /\ \A i \in DOMAIN q : q[i] \in Job
  BY <1>1
<1>4. \A i \in 1 .. Len(q) : i \in S <=> q[i].stage < 2 /\ \A k \in h .. i : q[k].ctx = q[h].ctx
  BY <1>3 DEF Unfinished
<1> HIDE DEF q, h, S
<1>5. \A i \in DOMAIN q :
          /\ p[i] \in Job /\ p[i].stage = IF i \in S THEN 2 ELSE q[i].stage
          /\ p[i].ctx = q[i].ctx /\ p[i].save = q[i].save /\ p[i].restore = q[i].restore
  BY <1>3 DEF Job
<1>6. p \in Seq(Job) /\ Len(p) = Len(q)
  <2>1. p = [i \in 1 .. Len(q) |-> p[i]]
    BY <1>3
  <2> HIDE DEF p
  <2> QED
    BY <1>3, <1>5, <2>1
<1>7. queue'[m] = p /\ \A k \in Children \ {m} : queue'[k] = queue[k]
  BY <1>1, <1>2
<1> HIDE DEF p
<1>8. Restaged(q, p)
  BY <1>3, <1>5, <1>6 DEF Restaged
<1>9. \A i \in 1 .. Len(q) : p[i].stage = IF i \in S THEN 2 ELSE q[i].stage
  BY <1>3, <1>5
<1> QED
  BY <1>4, <1>7, <1>8, <1>9 DEF q, h

(* IrqUpdate: as many jobs as are done leave the queue *)
LEMMA PopIs ==
    ASSUME JobInv, NEW m \in Children, IrqUpdate(m)
    PROVE  LET d == Cardinality(DoneIn(queue[m]))
           IN  /\ d \in Nat /\ d <= Len(queue[m])
               /\ queue'[m] \in Seq(Job) /\ Len(queue'[m]) = Len(queue[m]) - d
               /\ \A i \in 1 .. Len(queue'[m]) : queue'[m][i] = queue[m][i + d]
               /\ \A k \in Children \ {m} : queue'[k] = queue[k]
<1> DEFINE q == queue[m]
           d == Cardinality(DoneIn(q))
           p == SubSeq(q, d + 1, Len(q))
<1>1. /\ q \in Seq(Job) /\ d \in Nat /\ d <= Len(q) /\ queue \in [Children -> Seq(Job)]
      /\ AtHead(m) = d + 1
  BY DoneCount DEF JobInv, JobTypes, Done, DoneIn, AtHead
<1>2. queue' = [queue EXCEPT ![m] = p]
  BY <1>1 DEF IrqUpdate
<1>3. /\ p \in Seq(Job) /\ Len(p) = Len(q) - d
      /\ \A i \in 1 .. Len(p) : p[i] = q[i + d]
  <2>1. d + 1 \in 1 .. Len(q) + 1 /\ Len(q) \in d .. Len(q)
    BY <1>1
  <2> HIDE DEF q, d
  <2>2. /\ p \in Seq(Job) /\ Len(p) = Len(q) - d
        /\ \A i \in 1 .. Len(q) - d : p[i] = q[d + 1 + i - 1]
    BY <1>1, <2>1, SubSeqProperties
  <2> QED BY <1>1, <2>2
<1>4. queue'[m] = p /\ \A k \in Children \ {m} : queue'[k] = queue[k]
  BY <1>1, <1>2
<1> QED
  BY <1>1, <1>3, <1>4

-----------------------------------------------------------------------------
(* A context belongs to one channel *)

Refers(q, u) == \E i \in 1 .. Len(q) : u \in {q[i].ctx, q[i].save}

(* the jobs that refer to a context are in one queue, that of the channel  *)
(* on which its file is, or was, open                                      *)
HomeInv ==
    \A m \in Children : \A u \in Users : Refers(queue[m], u) =>
        on[u] \in {m, None} /\ \A k \in Children \ {m} : ~Refers(queue[k], u)

LEMMA RefersMoves ==
    ASSUME Base, [Next]_vars, NEW m \in Children, NEW u \in Users, Refers(queue'[m], u),
           ~Refers(queue[m], u)
    PROVE  on[u] = m /\ on' = on
<1>0. /\ JobInv /\ queue \in [Children -> Seq(Job)] /\ queue[m] \in Seq(Job)
      /\ None \notin Users
  BY ChannelAssumption DEF Base, JobInv, JobTypes
<1> DEFINE q == queue[m]
           p == queue'[m]
<1>1. ASSUME NEW v \in Users, Push(v) PROVE on[u] = m /\ on' = on
  <2> DEFINE c == cur_ctx[on[v]]
             j == [ctx |-> v, save |-> IF SaveNeeded(v, c) THEN c ELSE None,
                   restore |-> RestoreNeeded(v, c), stage |-> 0]
  <2>1. queue' = [queue EXCEPT ![on[v]] = Append(queue[on[v]], j)] /\ on' = on
    BY <1>1 DEF Push
  <2>2. on[v] = m
    BY <1>0, <2>1
  <2>3. p = Append(q, j)
    BY <1>0, <2>1, <2>2
  <2>4. j.ctx = v /\ (j.save = None \/ (j.save = c /\ c # None))
    BY DEF SaveNeeded
  <2> HIDE DEF j
  <2>5. Len(p) = Len(q) + 1 /\ p[Len(q) + 1] = j /\ \A i \in 1 .. Len(q) : p[i] = q[i]
    BY <1>0, <2>3
  <2> HIDE DEF p, q
  <2>6. PICK i \in 1 .. Len(p) : u \in {p[i].ctx, p[i].save}
    BY DEF Refers, p
  <2>7. i \notin 1 .. Len(q)
    BY <2>5, <2>6 DEF Refers, q
  <2>8. Len(q) \in Nat
    BY <1>0 DEF q
  <2>9. p[i] = j
    BY <2>5, <2>6, <2>7, <2>8
  <2>10. u = v \/ u = c
    BY <1>0, <2>4, <2>6, <2>9
  <2>11. c = u => on[u] = m
    BY <1>0, <2>2 DEF Base, CtxInv, CtxIsOpen
  <2> QED BY <2>1, <2>2, <2>10, <2>11
<1>2. ASSUME Restaged(q, p) PROVE FALSE
  BY <1>2 DEF Restaged, Refers
<1>3. ASSUME NEW k \in Children, Switch(k) \/ Execute(k) PROVE FALSE
  <2>1. Unfinished(k) # {} /\ (SetStage(k, 1) \/ SetStage(k, 2))
    BY <1>3 DEF Switch, Execute, CanExecute
  <2>2. Restaged(queue[k], queue'[k]) /\ \A c \in Children \ {k} : queue'[c] = queue[c]
    BY <1>0, <2>1, StageIs
  <2> QED BY <1>2, <2>2
<1>4. ASSUME NEW k \in Children, TdReset(k) PROVE FALSE
  <2>1. Restaged(queue[k], queue'[k]) /\ \A c \in Children \ {k} : queue'[c] = queue[c]
    BY <1>0, <1>4, CancelIs
  <2> QED BY <1>2, <2>1
<1>5. ASSUME NEW k \in Children, IrqUpdate(k) PROVE FALSE
  <2> DEFINE d == Cardinality(DoneIn(queue[k]))
  <2>1. /\ d \in Nat /\ d <= Len(queue[k])
        /\ queue'[k] \in Seq(Job) /\ Len(queue'[k]) = Len(queue[k]) - d
        /\ \A i \in 1 .. Len(queue'[k]) : queue'[k][i] = queue[k][i + d]
        /\ \A c \in Children \ {k} : queue'[c] = queue[c]
    BY <1>0, <1>5, PopIs
  <2>2. k = m
    BY <2>1
  <2> HIDE DEF d
  <2>3. \A i \in 1 .. Len(p) : i + d \in 1 .. Len(q) /\ p[i] = q[i + d]
    BY <1>0, <2>1, <2>2
  <2> QED BY <2>3 DEF Refers
<1> QED
  BY <1>1, <1>3, <1>4, <1>5, QueueMoves

LEMMA HomeNext == Base /\ HomeInv /\ [Next]_vars => HomeInv'
<1> SUFFICES ASSUME Base, HomeInv, [Next]_vars, NEW m \in Children, NEW u \in Users,
                    Refers(queue'[m], u)
             PROVE  on'[u] \in {m, None} /\ \A k \in Children \ {m} : ~Refers(queue'[k], u)
  BY DEF HomeInv
<1>0. /\ Places /\ on \in [Threads -> Mods \cup {None}] /\ pc \in [Threads -> AllPcs]
      /\ u \in Threads /\ u # Pm /\ None \notin Children /\ queue \in [Children -> Seq(Job)]
  BY ChannelAssumption DEF Base, Places, Threads, Mods, JobInv, JobTypes
<1>1. on[u] \in {m, None}
  BY RefersMoves DEF HomeInv
<1>2. on'[u] \in {on[u], None}
  <2>1. CASE Refers(queue[m], u)
    <3>1. ~\E k \in Children : Open(u, k)
      <4>1. InUse(u)
        <5>1. PICK i \in 1 .. Len(queue[m]) : u \in {queue[m][i].ctx, queue[m][i].save}
          BY <2>1 DEF Refers
        <5>2. i \in DOMAIN queue[m]
          BY <1>0
        <5> QED BY <5>1, <5>2 DEF InUse
      <4> QED BY <4>1 DEF Open
    <3>2. ASSUME UserStep(u) PROVE on'[u] \in {on[u], None}
      BY <1>0, <3>1, <3>2
      DEF UserStep, TakeRef, TakeRefUp, LockSubmit, SubmitFails, DropRef, Push, Close, Put, Stop
    <3>3. ASSUME SuspendStep(u) PROVE on'[u] \in {on[u], None}
      BY <1>0, <3>3 DEF SuspendStep, SeenIdle, SuspendBusy, SuspendOff, SuspendReturns, Returns
    <3> QED BY <1>0, <3>2, <3>3, ThreadMoves
  <2>2. CASE ~Refers(queue[m], u)
    BY <2>2, RefersMoves
  <2> QED BY <2>1, <2>2
<1>3. ASSUME NEW k \in Children \ {m}, Refers(queue'[k], u) PROVE FALSE
  <2>1. CASE Refers(queue[m], u) /\ Refers(queue[k], u)
    BY <2>1 DEF HomeInv
  <2>2. CASE Refers(queue[m], u) /\ ~Refers(queue[k], u)
    BY <1>0, <1>1, <1>3, <2>2, RefersMoves
  <2>3. CASE ~Refers(queue[m], u)
    <3>1. on[u] = m
      BY <2>3, RefersMoves
    <3>2. on[u] \in {k, None}
      BY <1>3, RefersMoves DEF HomeInv
    <3> QED BY <1>0, <3>1, <3>2
  <2> QED BY <2>1, <2>2, <2>3
<1> QED
  BY <1>1, <1>2, <1>3

-----------------------------------------------------------------------------
(* A job runs on its own context's state *)

(* the files that are open on channel m and have not begun to close *)
GivenUp == {"unkeep", "put", "stop"} \cup SuspendPcs
FilesOf(p, o, m) == {u \in Users : o[u] = m /\ p[u] \notin GivenUp}

StateIn(m, T, V, F, R) ==
    StateOK(queue[m], cur_ctx[m], regs[m], FilesOf(pc, on, m), T, V, F, R)
StateInv == \A m \in Children : StateIn(m, timedout, valid, fresh, ran)

(* all that the steps below need to know *)
StateBase ==
    Base /\ CtxTypes /\ SaveInv /\ UpInv /\ GatedInv /\ DarkInv /\ ClosingInv /\ HomeInv /\ StateInv

StateAfter(m) ==
    StateOK(queue'[m], cur_ctx'[m], regs'[m], FilesOf(pc', on', m), timedout', valid', fresh', ran')

SameFiles == \A m \in Children : FilesOf(pc', on', m) = FilesOf(pc, on, m)

LEMMA StateTypes ==
    ASSUME StateBase
    PROVE  /\ queue \in [Children -> Seq(Job)] /\ regs \in [Children -> Users \cup {None}]
           /\ cur_ctx \in [Children -> Users \cup {None}]
           /\ pc \in [Threads -> AllPcs] /\ on \in [Threads -> Mods \cup {None}]
           /\ timedout \subseteq Users /\ valid \subseteq Users /\ fresh \subseteq Users
           /\ ran \subseteq Users /\ Users \subseteq Threads /\ Pm \in Threads /\ Pm \notin Users
           /\ None \notin Users /\ None \notin Children /\ Host \notin Children
           /\ Children \subseteq Mods
BY ChannelAssumption, AcmAssumption
DEF StateBase, Base, JobInv, JobTypes, CtxTypes, CtxInv, Places, Threads, Mods

LEMMA FilesMove ==
    ASSUME pc \in [Threads -> AllPcs], NEW t \in Threads, NEW l, on' = on, Goto(t, l),
           l \in GivenUp <=> pc[t] \in GivenUp
    PROVE  SameFiles
BY DEF Goto, SameFiles, FilesOf, Threads

(* a step that is about something else *)
LEMMA StateSame ==
    ASSUME StateInv, UNCHANGED <<queue, cur_ctx, ctxVars>>, SameFiles, NEW m \in Children
    PROVE  StateAfter(m)
<1>1. StateIn(m, timedout, valid, fresh, ran)
  BY DEF StateInv
<1>2. /\ queue' = queue /\ cur_ctx' = cur_ctx /\ regs' = regs /\ timedout' = timedout
      /\ valid' = valid /\ fresh' = fresh /\ ran' = ran
      /\ FilesOf(pc', on', m) = FilesOf(pc, on, m)
  BY DEF SameFiles, ctxVars
<1> QED
  BY <1>1, <1>2 DEF StateIn, StateAfter

(* a step after which module k may be powered off *)
LEMMA StateLost ==
    ASSUME StateBase, DarkInv', UNCHANGED <<queue, cur_ctx, timedout, valid, fresh, ran>>, SameFiles,
           NEW k \in Mods, regs' = Lost(k), NEW m \in Children
    PROVE  StateAfter(m)
<1>1. StateIn(m, timedout, valid, fresh, ran)
  BY DEF StateBase, StateInv
<1>2. /\ queue' = queue /\ cur_ctx' = cur_ctx /\ timedout' = timedout
      /\ valid' = valid /\ fresh' = fresh /\ ran' = ran
      /\ FilesOf(pc', on', m) = FilesOf(pc, on, m)
  BY DEF SameFiles
<1>3. CASE regs'[m] = regs[m]
  BY <1>1, <1>2, <1>3 DEF StateIn, StateAfter
<1>4. CASE regs'[m] # regs[m]
  <2>1. k = m /\ dev'[m].powerstate = "powergated"
    BY <1>4, StateTypes DEF Lost
  <2>2. cur_ctx[m] = None /\ queue[m] = <<>>
    BY <1>2, <2>1 DEF DarkInv, Dark
  <2>3. FilesOf(pc, on, m) \subseteq Users
    BY DEF FilesOf
  <2>4. StateOK(<<>>, cur_ctx[m], regs'[m], FilesOf(pc, on, m), timedout, valid, fresh, ran)
    BY <1>1, <2>2, <2>3, EmptyState DEF StateIn
  <2> QED
    BY <1>2, <2>2, <2>4 DEF StateAfter
<1> QED BY <1>3, <1>4

(* context u is given up, or is a new one *)
LEMMA StateForget ==
    ASSUME StateBase, NEW u \in Users, Forget({u}), UNCHANGED <<queue, cur_ctx>>,
           \A k \in Children : ~Refers(queue[k], u) /\ cur_ctx[k] # u,
           NEW m \in Children, FilesOf(pc', on', m) \subseteq FilesOf(pc, on, m) \cup {u}
    PROVE  StateAfter(m)
<1>1. StateIn(m, timedout, valid, fresh, ran)
  BY DEF StateBase, StateInv
<1>2. /\ timedout' = timedout \ {u} /\ valid' = valid \ {u}
      /\ fresh' = fresh \ {u} /\ ran' = ran \ {u}
      /\ regs'[m] = IF regs[m] = u THEN None ELSE regs[m]
  BY DEF Forget
<1>3. queue[m] \in Seq(Job) /\ \A i \in 1 .. Len(queue[m]) : queue[m][i].ctx # u
  BY StateTypes DEF Refers
<1>4. StateOK(queue[m], cur_ctx[m], IF regs[m] = u THEN None ELSE regs[m], FilesOf(pc', on', m),
              timedout \ {u}, valid \ {u}, fresh \ {u}, ran \ {u})
  BY <1>1, <1>3, ForgetState DEF StateIn
<1> QED
  BY <1>2, <1>4 DEF StateAfter

(* a context of channel m, or none, is not one of channel k *)
LEMMA Elsewhere ==
    ASSUME StateBase, NEW m \in Children, NEW k \in Children \ {m}, NEW x \in Users \cup {None},
           x = None \/ Refers(queue[m], x) \/ on[x] = m
    PROVE  x \notin FilesOf(pc, on, k) /\ \A i \in 1 .. Len(queue[k]) : queue[k][i].ctx # x
<1>0. queue[k] \in Seq(Job)
  BY StateTypes
<1>1. CASE x = None
  BY <1>0, <1>1, StateTypes, QueueTypes DEF FilesOf
<1>2. CASE x # None
  <2>1. x \in Users /\ (Refers(queue[m], x) => on[x] \in {m, None} /\ ~Refers(queue[k], x))
    BY <1>2 DEF StateBase, HomeInv
  <2>2. ~Refers(queue[k], x)
    BY <1>2, <2>1, StateTypes DEF StateBase, HomeInv
  <2>3. on[x] # k
    BY <1>2, <2>1, StateTypes
  <2> QED BY <2>2, <2>3 DEF Refers, FilesOf
<1> QED BY <1>1, <1>2

(* channel k while something happens to context x of another one *)
LEMMA StateElsewhere ==
    ASSUME StateBase, NEW k \in Children, NEW x,
           queue'[k] = queue[k], cur_ctx'[k] = cur_ctx[k], regs'[k] = regs[k],
           FilesOf(pc', on', k) = FilesOf(pc, on, k),
           timedout \subseteq timedout', valid \subseteq valid',
           \A u : u # x => (u \in fresh' <=> u \in fresh) /\ (u \in ran' => u \in ran),
           x \notin FilesOf(pc, on, k), \A i \in 1 .. Len(queue[k]) : queue[k][i].ctx # x
    PROVE  StateAfter(k)
<1>1. StateIn(k, timedout, valid, fresh, ran) /\ queue[k] \in Seq(Job)
  BY StateTypes DEF StateBase, StateInv
<1>2. StateOK(queue[k], cur_ctx[k], regs[k], FilesOf(pc, on, k), timedout', valid', fresh', ran')
  BY <1>1, OtherState DEF StateIn
<1> QED
  BY <1>2 DEF StateAfter

LEMMA StatePush ==
    ASSUME StateBase, NEW u \in Users, Push(u), NEW k \in Children
    PROVE  StateAfter(k)
<1> DEFINE m == on[u]
           c == cur_ctx[m]
           j == [ctx |-> u, save |-> IF SaveNeeded(u, c) THEN c ELSE None,
                 restore |-> RestoreNeeded(u, c), stage |-> 0]
<1>0. /\ m \in Children /\ pc[u] = "push" /\ c \in Users \cup {None} /\ queue[m] \in Seq(Job)
      /\ u \in Threads
  BY StateTypes DEF Push, StateBase, Base, Places
<1>1. /\ queue' = [queue EXCEPT ![m] = Append(queue[m], j)]
      /\ valid' = IF SaveNeeded(u, c) THEN valid \cup {c} ELSE valid
      /\ cur_ctx' = [cur_ctx EXCEPT ![m] = u]
      /\ on' = on /\ Goto(u, "open") /\ timedout' = timedout /\ regs' = regs /\ fresh' = fresh
      /\ ran' = ran
  BY DEF Push
<1>2. SameFiles
  BY <1>0, <1>1, FilesMove, StateTypes DEF GivenUp, SuspendPcs
<1>3. CASE k = m
  <2>1. /\ j \in Job /\ j.ctx = u /\ j.stage = 0 /\ (j.restore <=> c # u /\ u \in valid)
        /\ j.save = IF Saving(u, c, timedout) THEN c ELSE None
    <3> DEFINE b == RestoreNeeded(u, c)
               s == IF SaveNeeded(u, c) THEN c ELSE None
    <3>1. b \in BOOLEAN /\ (b <=> c # u /\ u \in valid)
      BY Zenon DEF RestoreNeeded
    <3>2. s \in Users \cup {None} /\ s = IF Saving(u, c, timedout) THEN c ELSE None
      BY <1>0 DEF SaveNeeded, Saving
    <3> HIDE DEF b, s
    <3>3. [ctx |-> u, save |-> s, restore |-> b, stage |-> 0] \in Job
      BY <3>1, <3>2 DEF Job
    <3>4. j = [ctx |-> u, save |-> s, restore |-> b, stage |-> 0]
      BY DEF b, s
    <3>5. j.ctx = u /\ j.stage = 0 /\ j.restore = b /\ j.save = s
      BY <3>4
    <3> QED BY <3>1, <3>2, <3>3, <3>4, <3>5
  <2>2. valid' = IF Saving(u, c, timedout) THEN valid \cup {c} ELSE valid
    BY <1>1 DEF SaveNeeded, Saving
  <2>3. u \in FilesOf(pc, on, m) /\ FilesOf(pc, on, m) \subseteq Users
    BY <1>0 DEF FilesOf, GivenUp, SuspendPcs
  <2>4. StateOK(queue[m], c, regs[m], FilesOf(pc, on, m), timedout, valid, fresh, ran)
    BY <1>0 DEF StateBase, StateInv, StateIn
  <2>5. queue'[m] = Append(queue[m], j) /\ cur_ctx'[m] = u
    BY <1>0, <1>1, StateTypes
  <2> HIDE DEF j, c, m
  <2>6. StateOK(Append(queue[m], j), u, regs[m], FilesOf(pc, on, m), timedout, valid', fresh, ran)
    BY <1>0, <2>1, <2>2, <2>3, <2>4, PushState
  <2> QED
    BY <1>1, <1>2, <1>3, <2>5, <2>6 DEF StateAfter, SameFiles
<1>4. CASE k # m
  <2>1. queue'[k] = queue[k] /\ cur_ctx'[k] = cur_ctx[k] /\ valid \subseteq valid'
    BY <1>0, <1>1, <1>4, StateTypes
  <2>2. /\ None \notin FilesOf(pc, on, k)
        /\ \A i \in 1 .. Len(queue[k]) : queue[k][i].ctx # None
    BY <1>0, <1>4, Elsewhere
  <2> QED
    BY <1>1, <1>2, <2>1, <2>2, StateElsewhere DEF SameFiles
<1> QED BY <1>3, <1>4

LEMMA StateClose ==
    ASSUME StateBase, NEW u \in Users, Close(u), NEW k \in Children
    PROVE  StateAfter(k)
<1> DEFINE m == on[u]
           l == IF m \in Keepalive THEN "unkeep" ELSE "put"
<1>0. m \in Children /\ u \in Threads /\ l \in GivenUp
  BY StateTypes DEF Close, StateBase, Base, Places, GivenUp
<1>1. /\ queue' = queue /\ cur_ctx' = ClearCtx(u, m) /\ on' = on /\ pc' = [pc EXCEPT ![u] = l]
      /\ timedout' = timedout /\ valid' = valid /\ regs' = regs /\ fresh' = fresh /\ ran' = ran
  BY DEF Close, Goto, jobVars, ctxVars
<1>2. StateOK(queue[k], cur_ctx[k], regs[k], FilesOf(pc, on, k), timedout, valid, fresh, ran)
  BY DEF StateBase, StateInv, StateIn
<1>3. CASE k = m
  <2>1. FilesOf(pc', on', m) = FilesOf(pc, on, m) \ {u}
    BY <1>0, <1>1, StateTypes DEF FilesOf
  <2>2. cur_ctx'[m] = IF cur_ctx[m] = u THEN None ELSE cur_ctx[m]
    BY <1>0, <1>1, StateTypes DEF ClearCtx
  <2>3. FilesOf(pc, on, m) \subseteq Users /\ queue[m] \in Seq(Job)
    BY <1>0, StateTypes DEF FilesOf
  <2> HIDE DEF m
  <2>4. StateOK(queue[m], IF cur_ctx[m] = u THEN None ELSE cur_ctx[m], regs[m],
                FilesOf(pc, on, m) \ {u}, timedout, valid, fresh, ran)
    BY <1>2, <1>3, <2>3, CloseState
  <2> QED
    BY <1>1, <1>3, <2>1, <2>2, <2>4 DEF StateAfter
<1>4. CASE k # m
  <2>1. FilesOf(pc', on', k) = FilesOf(pc, on, k)
    BY <1>0, <1>1, <1>4, StateTypes DEF FilesOf
  <2>2. cur_ctx'[k] = cur_ctx[k]
    BY <1>0, <1>1, <1>4, StateTypes DEF ClearCtx
  <2> QED
    BY <1>1, <1>2, <2>1, <2>2 DEF StateAfter
<1> QED BY <1>3, <1>4

(* the job the engine is at *)
LEMMA EngineAt ==
    ASSUME StateBase, NEW m \in Children, Unfinished(m) # {}
    PROVE  /\ IsHead(queue[m], AtHead(m)) /\ AtHead(m) \in 1 .. Len(queue[m])
           /\ queue[m][AtHead(m)].ctx \in Users /\ queue[m][AtHead(m)].save \in Users \cup {None}
           /\ Refers(queue[m], queue[m][AtHead(m)].ctx)
           /\ Refers(queue[m], queue[m][AtHead(m)].save)
<1>1. queue[m] \in Seq(Job) /\ JobInv
  BY StateTypes DEF StateBase, Base
<1>2. Ordered(queue[m])
  BY DEF StateBase, StateInv, StateIn, StateOK, Linked
<1>3. OpenIn(queue[m]) # {}
  BY DEF Unfinished, OpenIn
<1>4. AtHead(m) \in 1 .. Len(queue[m]) /\ AtHead(m) = Cardinality(DoneIn(queue[m])) + 1
  BY <1>1, HeadInQueue
<1>5. IsHead(queue[m], AtHead(m))
  BY <1>1, <1>2, <1>3, <1>4, HeadIs
<1>6. queue[m][AtHead(m)].ctx \in Users /\ queue[m][AtHead(m)].save \in Users \cup {None}
  BY <1>1, <1>4, QueueTypes
<1> QED
  BY <1>4, <1>5, <1>6 DEF Refers

LEMMA StateSwitch ==
    ASSUME StateBase, NEW m \in Children, Switch(m), NEW k \in Children
    PROVE  StateAfter(k)
<1> DEFINE q == queue[m]
           h == AtHead(m)
           p == queue'[m]
<1>0. /\ Unfinished(m) # {} /\ SetStage(m, 1) /\ JobInv /\ q \in Seq(Job)
      /\ FilesOf(pc, on, m) \subseteq Users /\ ran \subseteq Users
  BY StateTypes DEF Switch, CanExecute, StateBase, Base, FilesOf
<1>1. /\ Restaged(q, p) /\ p[h].stage = 1
      /\ \A i \in 1 .. Len(q) : i # h => p[i].stage = q[i].stage
      /\ \A c \in Children \ {m} : queue'[c] = queue[c]
  BY <1>0, StageIs
<1>2. /\ IsHead(q, h) /\ q[h].ctx \in Users /\ q[h].save \in Users \cup {None}
      /\ Refers(q, q[h].save)
  BY <1>0, EngineAt
<1>3. /\ q[h].stage = 0 /\ fresh' = SavedFresh(m, q[h].save)
      /\ regs' = [regs EXCEPT ![m] =
                    IF q[h].restore THEN (IF q[h].ctx \in fresh' THEN q[h].ctx ELSE None)
                    ELSE IF q[h].ctx \in ran THEN regs[m] ELSE q[h].ctx]
      /\ pc' = pc /\ on' = on /\ cur_ctx' = cur_ctx /\ timedout' = timedout /\ valid' = valid
      /\ ran' = ran
  BY DEF Switch, userVars
<1>4. CASE k = m
  <2>1. StateOK(q, cur_ctx[m], regs[m], FilesOf(pc, on, m), timedout, valid, fresh, ran)
    BY DEF StateBase, StateInv, StateIn
  <2>2. fresh' = IF q[h].save = None THEN fresh
                 ELSE IF regs[m] = q[h].save THEN fresh \cup {q[h].save} ELSE fresh \ {q[h].save}
    BY <1>3 DEF SavedFresh
  <2>3. regs'[m] = IF q[h].restore THEN (IF q[h].ctx \in fresh' THEN q[h].ctx ELSE None)
                   ELSE IF q[h].ctx \in ran THEN regs[m] ELSE q[h].ctx
    BY <1>3, StateTypes
  <2> HIDE DEF q, p, h
  <2>4. StateOK(p, cur_ctx[m], regs'[m], FilesOf(pc, on, m), timedout, valid, fresh', ran)
    BY <1>0, <1>1, <1>2, <1>3, <2>1, <2>2, <2>3, SwitchState
  <2> QED
    BY <1>3, <1>4, <2>4 DEF StateAfter, p
<1>5. CASE k # m
  <2>1. queue'[k] = queue[k] /\ regs'[k] = regs[k]
    BY <1>1, <1>3, <1>5, StateTypes
  <2>2. \A u : u # q[h].save => (u \in fresh' <=> u \in fresh)
    BY <1>3 DEF SavedFresh
  <2>3. /\ q[h].save \notin FilesOf(pc, on, k)
        /\ \A i \in 1 .. Len(queue[k]) : queue[k][i].ctx # q[h].save
    BY <1>2, <1>5, Elsewhere
  <2> QED
    BY <1>3, <2>1, <2>2, <2>3, StateElsewhere
<1> QED BY <1>4, <1>5

LEMMA StateExecute ==
    ASSUME StateBase, NEW m \in Children, Execute(m), NEW k \in Children
    PROVE  StateAfter(k)
<1> DEFINE q == queue[m]
           h == AtHead(m)
           p == queue'[m]
<1>0. /\ Unfinished(m) # {} /\ SetStage(m, 2) /\ JobInv /\ q \in Seq(Job)
      /\ FilesOf(pc, on, m) \subseteq Users /\ ran \subseteq Users
  BY StateTypes DEF Execute, CanExecute, StateBase, Base, FilesOf
<1>1. /\ Restaged(q, p) /\ p[h].stage = 2
      /\ \A i \in 1 .. Len(q) : i # h => p[i].stage = q[i].stage
      /\ \A c \in Children \ {m} : queue'[c] = queue[c]
  BY <1>0, StageIs
<1>2. IsHead(q, h) /\ q[h].ctx \in Users /\ Refers(q, q[h].ctx)
  BY <1>0, EngineAt
<1>3. /\ q[h].stage = 1 /\ fresh' = fresh \ {q[h].ctx} /\ ran' = ran \cup {q[h].ctx}
      /\ regs' = [regs EXCEPT ![m] = q[h].ctx]
      /\ pc' = pc /\ on' = on /\ cur_ctx' = cur_ctx /\ timedout' = timedout /\ valid' = valid
  BY DEF Execute, userVars
<1>4. CASE k = m
  <2>1. StateOK(q, cur_ctx[m], regs[m], FilesOf(pc, on, m), timedout, valid, fresh, ran)
    BY DEF StateBase, StateInv, StateIn
  <2>2. regs'[m] = q[h].ctx
    BY <1>3, StateTypes
  <2> HIDE DEF q, p, h
  <2>3. StateOK(p, cur_ctx[m], q[h].ctx, FilesOf(pc, on, m), timedout, valid, fresh \ {q[h].ctx},
                ran \cup {q[h].ctx})
    BY <1>0, <1>1, <1>2, <1>3, <2>1, ExecuteState
  <2> QED
    BY <1>3, <1>4, <2>2, <2>3 DEF StateAfter, p
<1>5. CASE k # m
  <2>1. queue'[k] = queue[k] /\ regs'[k] = regs[k]
    BY <1>1, <1>3, <1>5, StateTypes
  <2>2. \A u : u # q[h].ctx => (u \in fresh' <=> u \in fresh) /\ (u \in ran' => u \in ran)
    BY <1>3
  <2>3. /\ q[h].ctx \notin FilesOf(pc, on, k)
        /\ \A i \in 1 .. Len(queue[k]) : queue[k][i].ctx # q[h].ctx
    BY <1>2, <1>5, Elsewhere
  <2> QED
    BY <1>3, <2>1, <2>2, <2>3, StateElsewhere
<1> QED BY <1>4, <1>5

LEMMA StateReset ==
    ASSUME StateBase, NEW m \in Children, TdReset(m), NEW k \in Children
    PROVE  StateAfter(k)
<1> DEFINE q == queue[m]
           h == AtHead(m)
           p == queue'[m]
<1>0. /\ JobInv /\ q \in Seq(Job) /\ FilesOf(pc, on, m) \subseteq Users /\ ran \subseteq Users
      /\ Unfinished(m) # {}
  <2>1. JobOK(queue[m], owed[m], irq[m], m \in td) /\ m \in td /\ JobInv
    BY DEF StateBase, Base, JobInv, TdReset
  <2>2. Unfinished(m) # {}
    BY <2>1 DEF JobOK, OpenIn, Unfinished
  <2> QED BY <2>1, <2>2, StateTypes DEF FilesOf
<1>1. PICK S : /\ Restaged(q, p)
               /\ \A i \in 1 .. Len(q) :
                     i \in S <=> q[i].stage < 2 /\ \A l \in h .. i : q[l].ctx = q[h].ctx
               /\ \A i \in 1 .. Len(q) : p[i].stage = IF i \in S THEN 2 ELSE q[i].stage
               /\ \A c \in Children \ {m} : queue'[c] = queue[c]
  BY <1>0, CancelIs
<1>2. IsHead(q, h)
  BY <1>0, EngineAt
<1>3. /\ timedout' = timedout \cup {q[h].ctx} /\ ran' = ran \ {regs[m], q[h].ctx}
      /\ regs' = [regs EXCEPT ![m] = None]
      /\ pc' = pc /\ on' = on /\ cur_ctx' = cur_ctx /\ fresh' = fresh /\ valid' = valid
  BY DEF TdReset, userVars
<1>4. CASE k = m
  <2>1. StateOK(q, cur_ctx[m], regs[m], FilesOf(pc, on, m), timedout, valid, fresh, ran)
    BY DEF StateBase, StateInv, StateIn
  <2>2. regs'[m] = None
    BY <1>3, StateTypes
  <2> HIDE DEF q, p, h
  <2>3. StateOK(p, cur_ctx[m], None, FilesOf(pc, on, m), timedout \cup {q[h].ctx}, valid, fresh,
                ran \ {regs[m], q[h].ctx})
    BY <1>0, <1>1, <1>2, <2>1, ResetState
  <2> QED
    BY <1>3, <1>4, <2>2, <2>3 DEF StateAfter, p
<1>5. CASE k # m
  <2>1. queue'[k] = queue[k] /\ regs'[k] = regs[k]
    BY <1>1, <1>3, <1>5, StateTypes
  <2>2. \A u : u # None => (u \in fresh' <=> u \in fresh) /\ (u \in ran' => u \in ran)
    BY <1>3
  <2>3. None \notin FilesOf(pc, on, k) /\ \A i \in 1 .. Len(queue[k]) : queue[k][i].ctx # None
    BY <1>5, Elsewhere
  <2> QED
    BY <1>3, <2>1, <2>2, <2>3, StateElsewhere
<1> QED BY <1>4, <1>5

LEMMA StatePop ==
    ASSUME StateBase, NEW m \in Children, IrqUpdate(m), NEW k \in Children
    PROVE  StateAfter(k)
<1> DEFINE q == queue[m]
           p == queue'[m]
           d == Cardinality(DoneIn(q))
<1>0. JobInv /\ q \in Seq(Job)
  BY StateTypes DEF StateBase, Base
<1>1. /\ d \in Nat /\ d <= Len(q) /\ p \in Seq(Job) /\ Len(p) = Len(q) - d
      /\ \A i \in 1 .. Len(p) : p[i] = q[i + d]
      /\ \A c \in Children \ {m} : queue'[c] = queue[c]
  BY <1>0, PopIs
<1>2. /\ pc' = pc /\ on' = on /\ cur_ctx' = cur_ctx /\ timedout' = timedout /\ valid' = valid
      /\ regs' = regs /\ fresh' = fresh /\ ran' = ran
  BY DEF IrqUpdate, userVars, ctxVars
<1>3. StateOK(queue[k], cur_ctx[k], regs[k], FilesOf(pc, on, k), timedout, valid, fresh, ran)
  BY DEF StateBase, StateInv, StateIn
<1>4. CASE k = m
  <2>1. StateOK(q, cur_ctx[m], regs[m], FilesOf(pc, on, m), timedout, valid, fresh, ran)
    BY <1>3, <1>4
  <2>2. \A i \in 1 .. Len(q) : i <= d => q[i].stage = 2
    <3>1. Ordered(q)
      BY <2>1 DEF StateOK, Linked
    <3> QED BY <1>0, <3>1, HeadIs
  <2> HIDE DEF q, p, d
  <2>3. StateOK(p, cur_ctx[m], regs[m], FilesOf(pc, on, m), timedout, valid, fresh, ran)
    BY <1>0, <1>1, <2>1, <2>2, PopState
  <2> QED
    BY <1>2, <1>4, <2>3 DEF StateAfter, p
<1>5. CASE k # m
  BY <1>1, <1>2, <1>3, <1>5 DEF StateAfter
<1> QED BY <1>4, <1>5

LEMMA StateWait ==
    ASSUME StateBase, NEW m \in Children, OffWait(m), NEW k \in Children
    PROVE  StateAfter(k)
<1> DEFINE c == cur_ctx[m]
<1>0. c \in Users /\ on[c] = m
  BY StateTypes DEF OffWait, StateBase, SaveInv, Base, CtxInv, CtxIsOpen
<1>1. /\ queue' = queue /\ cur_ctx' = [cur_ctx EXCEPT ![m] = None] /\ valid' = valid \cup {c}
      /\ fresh' = SavedFresh(m, c) /\ regs' = Lost(m) /\ queue[m] = <<>>
      /\ pc' = pc /\ on' = on /\ timedout' = timedout /\ ran' = ran
  BY DEF OffWait, userVars, jobVars
<1>2. fresh' = IF regs[m] = c THEN fresh \cup {c} ELSE fresh \ {c}
  BY <1>0, <1>1, StateTypes DEF SavedFresh
<1>3. CASE k = m
  <2>1. /\ StateOK(<<>>, c, regs[m], FilesOf(pc, on, m), timedout, valid, fresh, ran)
        /\ FilesOf(pc, on, m) \subseteq Users
    BY <1>1 DEF StateBase, StateInv, StateIn, FilesOf
  <2>2. cur_ctx'[m] = None
    BY <1>1, StateTypes
  <2> HIDE DEF c
  <2>3. StateOK(<<>>, None, regs'[m], FilesOf(pc, on, m), timedout, valid \cup {c}, fresh', ran)
    BY <1>0, <1>2, <2>1, SavedState
  <2> QED
    BY <1>1, <1>3, <2>2, <2>3 DEF StateAfter
<1>4. CASE k # m
  <2>1. queue'[k] = queue[k] /\ cur_ctx'[k] = cur_ctx[k] /\ regs'[k] = regs[k]
    BY <1>1, <1>4, StateTypes DEF Lost
  <2>2. \A u : u # c => (u \in fresh' <=> u \in fresh) /\ (u \in ran' => u \in ran)
    BY <1>1, <1>2
  <2>3. c \notin FilesOf(pc, on, k) /\ \A i \in 1 .. Len(queue[k]) : queue[k][i].ctx # c
    BY <1>0, <1>4, Elsewhere
  <2> HIDE DEF c
  <2> QED
    BY <1>1, <2>1, <2>2, <2>3, StateElsewhere
<1> QED BY <1>3, <1>4

(* a context of which no job is left, and that is not open *)
LEMMA NotReferred ==
    ASSUME StateBase, NEW u \in Users, ~InUse(u)
    PROVE  \A k \in Children : ~Refers(queue[k], u)
<1> SUFFICES ASSUME NEW k \in Children, Refers(queue[k], u) PROVE FALSE
  OBVIOUS
<1>1. PICK i \in 1 .. Len(queue[k]) : u \in {queue[k][i].ctx, queue[k][i].save}
  BY DEF Refers
<1>2. i \in DOMAIN queue[k]
  BY StateTypes, QueueTypes
<1> QED BY <1>1, <1>2 DEF InUse

LEMMA StateOpen ==
    ASSUME StateBase, NEW u \in Users, NEW m \in Children, Open(u, m), NEW k \in Children
    PROVE  StateAfter(k)
<1>1. \A c \in Children : ~Refers(queue[c], u) /\ cur_ctx[c] # u
  <2>1. \A c \in Children : ~Refers(queue[c], u)
    BY NotReferred DEF Open
  <2>2. \A c \in Children : cur_ctx[c] # u
    BY StateTypes DEF StateBase, Base, CtxInv, CtxIsOpen, Open
  <2> QED BY <2>1, <2>2
<1>2. /\ Forget({u}) /\ queue' = queue /\ cur_ctx' = cur_ctx
      /\ \A v \in Users \ {u} : pc'[v] = pc[v] /\ on'[v] = on[v]
  BY StateTypes DEF Open, Goto, jobVars
<1>3. FilesOf(pc', on', k) \subseteq FilesOf(pc, on, k) \cup {u}
  BY <1>2 DEF FilesOf
<1> QED BY <1>1, <1>2, <1>3, StateForget

(* a file that has not begun to close stays, and so does its state *)
LEMMA StatePut ==
    ASSUME StateBase, NEW u \in Users, Put(u), NEW k \in Children
    PROVE  StateAfter(k)
<1> DEFINE last == \A v \in Users \ {u} : on[v] # on[u]
<1>1. /\ queue' = queue /\ cur_ctx' = cur_ctx /\ pc[u] = "put"
      /\ Forget(IF last \/ InUse(u) THEN {} ELSE {u})
      /\ pc' = [pc EXCEPT ![u] = IF last THEN "stop" ELSE "closed"]
      /\ on' = IF last THEN on ELSE [on EXCEPT ![u] = None]
  BY DEF Put, Goto, jobVars
<1>2. /\ \A v \in Users \ {u} : pc'[v] = pc[v] /\ on'[v] = on[v]
      /\ pc'[u] = "stop" \/ on'[u] = None
  BY <1>1, StateTypes
<1>3. SameFiles
  BY <1>1, <1>2, StateTypes DEF SameFiles, FilesOf, GivenUp
<1>4. CASE last \/ InUse(u)
  <2>1. Forget({})
    BY <1>1, <1>4
  <2>2. regs' = regs /\ timedout' = timedout /\ valid' = valid /\ fresh' = fresh /\ ran' = ran
    BY <2>1, StateTypes DEF Forget
  <2> QED
    BY <1>1, <1>3, <2>2, StateSame DEF StateBase, ctxVars
<1>5. CASE ~(last \/ InUse(u))
  <2>1. Forget({u}) /\ ~InUse(u)
    BY <1>1, <1>5
  <2>2. \A c \in Children : ~Refers(queue[c], u) /\ cur_ctx[c] # u
    BY <1>1, <2>1, NotReferred, StateTypes DEF StateBase, Base, CtxInv, CtxIsOpen
  <2> QED
    BY <1>1, <1>3, <2>1, <2>2, StateForget DEF SameFiles
<1> QED BY <1>4, <1>5

(* the suspend of a module, the last close's or the system's, is over *)
LEMMA StateReturns ==
    ASSUME StateBase, NEW t \in Threads, NEW ok \in BOOLEAN, pc[t] \in SuspendPcs, Returns(t, ok),
           UNCHANGED <<queue, cur_ctx>>, NEW k \in Children
    PROVE  StateAfter(k)
<1>1. /\ Forget({t}) /\ \A v \in Threads \ {t} : pc'[v] = pc[v] /\ on'[v] = on[v]
      /\ on'[t] = None
  BY StateTypes DEF Returns
<1>2. SameFiles
  BY <1>1, StateTypes DEF SameFiles, FilesOf, GivenUp
<1>3. CASE t = Pm
  <2>1. /\ timedout' = timedout /\ valid' = valid /\ fresh' = fresh /\ ran' = ran
        /\ \A c \in Children : regs'[c] = IF regs[c] = Pm THEN None ELSE regs[c]
    BY <1>1, <1>3, StateTypes DEF Forget
  <2>2. \A c \in Children : regs[c] \in Users \cup {None}
    BY StateTypes
  <2>3. Pm = None \/ Pm \notin Users \cup {None}
    BY StateTypes
  <2>4. \A c \in Children : regs'[c] = regs[c]
    BY <2>1, <2>2, <2>3
  <2>5. StateIn(k, timedout, valid, fresh, ran)
    BY DEF StateBase, StateInv
  <2> QED
    BY <1>2, <2>1, <2>4, <2>5 DEF StateIn, StateAfter, SameFiles
<1>4. CASE t # Pm
  <2>1. t \in Users
    BY <1>4 DEF Threads
  <2>2. on[t] \in Children /\ queue[on[t]] = <<>>
    BY <2>1 DEF StateBase, ClosingInv, Base, Places, SuspendPcs
  <2>3. ASSUME NEW c \in Children PROVE ~Refers(queue[c], t) /\ cur_ctx[c] # t
    <3>1. Refers(queue[c], t) => on[t] \in {c, None}
      BY <2>1 DEF StateBase, HomeInv
    <3>2. ~Refers(<<>>, t)
      BY DEF Refers
    <3>3. ~Refers(queue[c], t)
      BY <2>2, <3>1, <3>2, StateTypes
    <3>4. cur_ctx[c] # t
      BY <2>1, StateTypes DEF StateBase, Base, CtxInv, CtxIsOpen
    <3> QED BY <3>3, <3>4
  <2> QED
    BY <1>1, <1>2, <2>1, <2>3, StateForget DEF SameFiles
<1> QED BY <1>3, <1>4

LEMMA StateUser ==
    ASSUME StateBase, NEW u \in Users, UserStep(u), NEW k \in Children
    PROVE  StateAfter(k)
<1>0. StateInv /\ u \in Threads /\ pc \in [Threads -> AllPcs]
  BY StateTypes DEF StateBase
<1>1. ASSUME NEW l, l \in GivenUp <=> pc[u] \in GivenUp, Goto(u, l), on' = on,
             UNCHANGED <<queue, cur_ctx, ctxVars>>
      PROVE  StateAfter(k)
  <2>1. SameFiles
    BY <1>0, <1>1, FilesMove
  <2> QED BY <1>0, <1>1, <2>1, StateSame
<1>2. CASE \E m \in Children : Open(u, m)
  BY <1>2, StateOpen
<1>3. CASE TakeRef(u)
  <2>1. PICK l : /\ Goto(u, l) /\ l \in {"open", "lock", "keep_up", "submit_up"}
    BY <1>3 DEF TakeRef, Referenced
  <2>2. l \notin GivenUp /\ pc[u] \notin GivenUp
    BY <1>3, <2>1 DEF TakeRef, GivenUp, SuspendPcs
  <2> QED
    BY <1>1, <1>3, <2>1, <2>2 DEF TakeRef, jobVars
<1>4. CASE TakeRefUp(u)
  <2>1. PICK l : /\ Goto(u, l) /\ l \in {"open", "lock"}
    BY <1>4 DEF TakeRefUp, Referenced
  <2>2. l \notin GivenUp /\ pc[u] \notin GivenUp
    BY <1>4, <2>1 DEF TakeRefUp, GivenUp, SuspendPcs
  <2> QED
    BY <1>1, <1>4, <2>1, <2>2 DEF TakeRefUp, jobVars
<1>5. CASE LockSubmit(u)
  <2>1. PICK l : /\ Goto(u, l) /\ l \in {"push", "err"}
    BY <1>5 DEF LockSubmit
  <2>2. l \notin GivenUp /\ pc[u] \notin GivenUp
    BY <1>5, <2>1 DEF LockSubmit, GivenUp, SuspendPcs
  <2> QED
    BY <1>1, <1>5, <2>1, <2>2 DEF LockSubmit, jobVars
<1>6. CASE SubmitFails(u)
  <2>1. PICK l : /\ Goto(u, l) /\ l \in {"err_locked", "err"}
    BY <1>6 DEF SubmitFails
  <2>2. l \notin GivenUp /\ pc[u] \notin GivenUp
    BY <1>6, <2>1 DEF SubmitFails, GivenUp, SuspendPcs
  <2> QED
    BY <1>1, <1>6, <2>1, <2>2 DEF SubmitFails, jobVars
<1>7. CASE DropRef(u)
  <2> DEFINE l == IF pc[u] = "unkeep" THEN "put" ELSE "open"
  <2>1. Goto(u, l) /\ (l \in GivenUp <=> pc[u] \in GivenUp)
    BY <1>7 DEF DropRef, GivenUp, SuspendPcs
  <2> HIDE DEF l
  <2> QED
    BY <1>1, <1>7, <2>1 DEF DropRef, jobVars
<1>8. CASE Push(u)
  BY <1>8, StatePush
<1>9. CASE Close(u)
  BY <1>9, StateClose
<1>10. CASE Put(u)
  BY <1>10, StatePut
<1>11. CASE Stop(u)
  <2>1. "susp_wait" \in GivenUp /\ pc[u] \in GivenUp
    BY <1>11 DEF Stop, GivenUp, SuspendPcs
  <2> QED
    BY <1>1, <1>11, <2>1 DEF Stop, jobVars
<1> QED
  BY <1>2, <1>3, <1>4, <1>5, <1>6, <1>7, <1>8, <1>9, <1>10, <1>11 DEF UserStep

LEMMA StateSuspend ==
    ASSUME StateBase, DarkInv', NEW t \in Threads, SuspendStep(t), NEW k \in Children
    PROVE  StateAfter(k)
<1>0. StateInv /\ pc \in [Threads -> AllPcs]
  BY StateTypes DEF StateBase
<1>1. CASE SeenIdle(t)
  <2>1. SameFiles
    BY <1>0, <1>1, FilesMove DEF SeenIdle, GivenUp, SuspendPcs
  <2> QED
    BY <1>0, <1>1, <2>1, StateSame DEF SeenIdle, jobVars
<1>2. CASE SuspendBusy(t)
  <2>1. pc[t] \in SuspendPcs /\ Returns(t, FALSE) /\ UNCHANGED <<queue, cur_ctx>>
    BY <1>2 DEF SuspendBusy, SuspendPcs, jobVars
  <2> QED BY <2>1, StateReturns
<1>3. CASE SuspendOff(t)
  <2>1. SameFiles
    BY <1>0, <1>3, FilesMove DEF SuspendOff, GivenUp, SuspendPcs
  <2>2. on[t] \in Mods
    BY <1>3 DEF StateBase, Base, Places, SuspendOff, SuspendPcs, Threads, Mods
  <2> QED
    BY <1>3, <2>1, <2>2, StateLost DEF SuspendOff, jobVars
<1>4. CASE SuspendReturns(t)
  <2>1. pc[t] \in SuspendPcs /\ Returns(t, TRUE) /\ UNCHANGED <<queue, cur_ctx>>
    BY <1>4 DEF SuspendReturns, SuspendPcs, jobVars
  <2> QED BY <2>1, StateReturns
<1> QED
  BY <1>1, <1>2, <1>3, <1>4 DEF SuspendStep

LEMMA StateNext ==
    ASSUME StateBase, DarkInv', [Next]_vars
    PROVE  StateInv'
<1> SUFFICES ASSUME NEW k \in Children PROVE StateAfter(k)
  BY DEF StateInv, StateIn, StateAfter
<1>0. StateInv
  BY DEF StateBase
<1>1. CASE \E u \in Users : UserStep(u)
  BY <1>1, StateUser
<1>2. CASE \E t \in Threads : SuspendStep(t)
  BY <1>2, StateSuspend
<1>3. CASE Freeze \/ \E m \in Mods : PmSuspend(m)
  <2>1. SameFiles
    BY <1>3, StateTypes DEF Freeze, PmSuspend, Goto, SameFiles, FilesOf
  <2> QED
    BY <1>0, <1>3, <2>1, StateSame DEF Freeze, PmSuspend, jobVars
<1>4. CASE \E c \in Ctrls : CtrlLock(c) \/ CtrlUnlock(c)
  <2>1. SameFiles
    BY <1>4 DEF CtrlLock, CtrlUnlock, userVars, SameFiles
  <2> QED
    BY <1>0, <1>4, <2>1, StateSame DEF CtrlLock, CtrlUnlock, jobVars
<1>5. ASSUME NEW m \in Children, ChannelStep(m) PROVE StateAfter(k)
  <2>1. CASE Switch(m) \/ Execute(m)
    BY <2>1, StateSwitch, StateExecute
  <2>2. CASE IrqStart(m) \/ IrqDrop(m) \/ TdBegin(m)
    <3>1. SameFiles
      BY <2>2 DEF IrqStart, IrqDrop, TdBegin, userVars, SameFiles
    <3> QED
      BY <1>0, <2>2, <3>1, StateSame DEF IrqStart, IrqDrop, TdBegin, jobVars
  <2>3. CASE IrqUpdate(m) \/ TdReset(m) \/ OffWait(m)
    BY <2>3, StatePop, StateReset, StateWait
  <2>4. CASE OffSave(m)
    <3>1. SameFiles /\ m \in Mods
      BY <2>4 DEF OffSave, userVars, SameFiles, Mods
    <3> QED
      BY <2>4, <3>1, StateLost DEF OffSave, jobVars
  <2> QED
    BY <1>5, <2>1, <2>2, <2>3, <2>4 DEF ChannelStep
<1>6. ASSUME NEW m \in Mods, PowerStep(m) PROVE StateAfter(k)
  <2>1. SameFiles
    BY <1>6 DEF PowerStep, userVars, SameFiles
  <2> QED
    BY <1>6, <2>1, StateLost DEF PowerStep, jobVars
<1>7. CASE UNCHANGED vars
  <2>1. SameFiles
    BY <1>7 DEF vars, userVars, SameFiles
  <2> QED
    BY <1>0, <1>7, <2>1, StateSame DEF vars, jobVars
<1> QED
  BY <1>1, <1>2, <1>3, <1>4, <1>5, <1>6, <1>7 DEF Next

LEMMA StateInit ==
    ASSUME Init
    PROVE  /\ CtxTypes /\ SaveInv /\ UpInv /\ GatedInv /\ DarkInv /\ ClosingInv /\ HomeInv
           /\ StateInv
<1>0. /\ \A u \in Users : pc[u] = "closed" /\ on[u] = None
      /\ None \notin Children /\ Children \subseteq Mods
  BY ChannelAssumption DEF Init, Threads, Mods
<1>1. CtxTypes
  BY DEF Init, CtxTypes
<1>2. SaveInv /\ UpInv
  BY <1>0 DEF Init, AcmInit, SaveInv, UpInv
<1>3. GatedInv
  BY <1>0 DEF Init, AcmInit, GatedInv
<1>4. DarkInv
  BY DEF Init, DarkInv
<1>5. ClosingInv
  BY <1>0 DEF ClosingInv, SuspendPcs
<1>6. HomeInv
  BY DEF Init, HomeInv, Refers
<1>7. ASSUME NEW m \in Children PROVE StateIn(m, timedout, valid, fresh, ran)
  <2>1. queue[m] = <<>> /\ FilesOf(pc, on, m) = {} /\ ran = {}
    BY <1>0 DEF Init, FilesOf
  <2> QED
    BY <2>1
    DEF StateIn, StateOK, Linked, Ordered, LastOK, SavesPrev, NoSwitch, Skipped, FirstUse, ValidOK,
        JobsFind, FilesFind
<1> QED
  BY <1>1, <1>2, <1>3, <1>4, <1>5, <1>6, <1>7 DEF StateInv

(* a job whose context is loaded is the first one that is not done *)
LEMMA StateOwn == StateBase => OwnState
<1> SUFFICES ASSUME StateBase, NEW m \in Children, NEW i \in DOMAIN queue[m],
                    queue[m][i].stage = 1, queue[m][i].ctx \in ran \ timedout
             PROVE  regs[m] = queue[m][i].ctx
  BY DEF OwnState
<1> DEFINE q == queue[m]
<1>1. q \in Seq(Job) /\ Len(q) \in Nat /\ i \in 1 .. Len(q)
  BY StateTypes, QueueTypes
<1>2. Ordered(q) /\ JobsFind(q, regs[m], timedout, fresh, ran)
  BY DEF StateBase, StateInv, StateIn, StateOK, Linked
<1>3. Unused(q, q[i].ctx, i)
  BY <1>1, <1>2 DEF Ordered, Unused
<1> QED
  BY <1>1, <1>2, <1>3 DEF JobsFind, JobFinds

(* A job runs on its own context's registers, for any number of files,     *)
(* modules and queued jobs: whatever was submitted, timed out, closed,     *)
(* saved by a power-off or a suspend in between, a context that has a      *)
(* state finds it in the module when its job begins.  What submit_ctxsave  *)
(* and submit_ctxrestore decide from ch->cur_ctx and ctx->valid when a job *)
(* is pushed is right when the job is executed, after all those before it. *)
(* The hypotheses are needed: the client modules with contexts (gr3d, mpe) *)
(* have a prepare_poweroff that saves them (nvhost_channel_save_context),  *)
(* and nvhost_job_alloc does not fail in host1x_save_context, which takes  *)
(* that failure for a success.                                             *)
THEOREM OwnStateCorrect ==
    ASSUME JobMemory, Children \subseteq HasPoweroff
    PROVE  Spec => []OwnState
<1>1. Base /\ UpInv /\ GatedInv /\ DarkInv /\ [Next]_vars => DarkInv'
  BY DarkNext
<1>2. StateBase /\ DarkInv' /\ [Next]_vars => StateInv'
  BY StateNext
<1>3. Base /\ ClosingInv /\ [Next]_vars => ClosingInv'
  BY ClosingNext
<1>4. Init => /\ CtxTypes /\ SaveInv /\ UpInv /\ GatedInv /\ DarkInv /\ ClosingInv /\ HomeInv
              /\ StateInv
  BY StateInit
<1> QED
  BY <1>1, <1>2, <1>3, <1>4, BaseInit, BaseNext, BoundedInit, BoundedNext, CountsHold, SaveNext,
     CtxTypesNext, UpNext, GatedNext, HomeNext, StateOwn, PTL
  DEF Spec, StateBase

================================================================================
