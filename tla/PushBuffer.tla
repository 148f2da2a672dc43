------------------------------- MODULE PushBuffer -------------------------------
(***************************************************************************)
(* The push buffer of a channel (host1x/host1x_cdma.c): a ring of two-word *)
(* slots that the CPU fills at cur and the command DMA drains.  Positions  *)
(* are counted in slots instead of bytes, and the masks by the power of    *)
(* two PUSH_BUFFER_SIZE become one conditional subtraction.                *)
(*                                                                         *)
(* fence is the slot before the oldest slot in use: fence = cur means that *)
(* the ring is full, so it holds at most Size - 1 slots.                   *)
(***************************************************************************)
EXTENDS Integers

CONSTANT Size   \* NVHOST_GATHER_QUEUE_SIZE, 512 in the code

ASSUME SizeAssumption == Size \in Nat /\ Size >= 2

Slots == 0 .. Size - 1

(* (i + n) & (Size - 1), for n <= Size *)
Ahead(i, n) == IF i + n < Size THEN i + n ELSE i + n - Size

(* (j - i) & (Size - 1) *)
Gap(i, j) == IF j >= i THEN j - i ELSE j - i + Size

(* a push buffer: its two indices, the opcodes of every slot and whether   *)
(* the slot's client_handle entry refers to a memory handle                *)
PushBufferType(Op) ==
    [cur : Slots, fence : Slots, op : [Slots -> Op], handle : [Slots -> BOOLEAN]]

(* push_buffer_init and push_buffer_reset; the memory is fresh *)
push_buffer_init(noop) ==
    [cur |-> 0, fence |-> Size - 1,
     op |-> [i \in Slots |-> noop], handle |-> [i \in Slots |-> FALSE]]

push_buffer_space(pb) == Gap(pb.cur, pb.fence)

push_buffer_push_to(pb, op) ==
    [pb EXCEPT !.op[pb.cur] = op,
               !.handle[pb.cur] = TRUE,
               !.cur = Ahead(pb.cur, 1)]

(* a slip: the fence stays one slot behind *)
push_buffer_pop_from_OneLess(pb, n) ==
    [pb EXCEPT !.fence = Ahead(pb.fence, n - 1)]

(* The handles cleared are those of fence .. fence + n - 1: the loop       *)
(* starts at the fence itself, which is the slot before the oldest one.    *)
push_buffer_pop_from(pb, n) ==
    [pb EXCEPT !.handle = [i \in Slots |-> pb.handle[i] /\ Gap(pb.fence, i) >= n],
               !.fence = Ahead(pb.fence, n)]

(* a slip: the last slot is left out *)
SlotsFrom_OneLess(i, n) == {k \in Slots : Gap(i, k) < n - 1}

(* n slots from slot i on *)
SlotsFrom(i, n) == {k \in Slots : Gap(i, k) < n}

================================================================================
