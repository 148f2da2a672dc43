---------------------------- MODULE PushBufferProofs ----------------------------
(***************************************************************************)
(* Facts about the positions of a push buffer, for a ring of any size: the *)
(* arithmetic of Ahead and Gap, and what push_buffer_push_to and           *)
(* push_buffer_pop_from do to the distances from the oldest slot.          *)
(***************************************************************************)
EXTENDS PushBuffer, SetInduction

(* Steps ahead and gaps stay within the ring. *)
LEMMA AheadType ==
    ASSUME NEW i \in Slots, NEW n \in 0 .. Size
    PROVE  Ahead(i, n) \in Slots
BY SizeAssumption DEF Ahead, Slots

LEMMA GapType ==
    ASSUME NEW i \in Slots, NEW j \in Slots
    PROVE  Gap(i, j) \in 0 .. Size - 1
BY SizeAssumption DEF Gap, Slots

(* A gap names a slot: different slots have different gaps from i. *)
LEMMA GapZero ==
    ASSUME NEW i \in Slots, NEW j \in Slots
    PROVE  Gap(i, i) = 0 /\ (Gap(i, j) = 0 => i = j)
BY SizeAssumption DEF Gap, Slots

LEMMA GapInjective ==
    ASSUME NEW i \in Slots, NEW j \in Slots, NEW k \in Slots, Gap(i, j) = Gap(i, k)
    PROVE  j = k
BY SizeAssumption DEF Gap, Slots

(* Ahead undoes Gap, and Gap undoes Ahead. *)
LEMMA AheadOfGap ==
    ASSUME NEW i \in Slots, NEW j \in Slots
    PROVE  Ahead(i, Gap(i, j)) = j
BY SizeAssumption DEF Ahead, Gap, Slots

LEMMA GapOfAhead ==
    ASSUME NEW i \in Slots, NEW n \in 0 .. Size - 1
    PROVE  Gap(i, Ahead(i, n)) = n
BY SizeAssumption DEF Ahead, Gap, Slots

(* Gaps add up as long as they do not go round the ring. *)
LEMMA GapPlus ==
    ASSUME NEW i \in Slots, NEW j \in Slots, NEW n \in Nat, Gap(i, j) + n < Size
    PROVE  /\ Ahead(j, n) \in Slots
           /\ Gap(i, Ahead(j, n)) = Gap(i, j) + n
BY SizeAssumption DEF Ahead, Gap, Slots

(* Seen from j instead of i, gaps turn by Gap(i, j). *)
LEMMA GapFrom ==
    ASSUME NEW i \in Slots, NEW j \in Slots, NEW k \in Slots
    PROVE  Gap(j, k) = IF Gap(i, j) <= Gap(i, k) THEN Gap(i, k) - Gap(i, j)
                       ELSE Gap(i, k) - Gap(i, j) + Size
BY SizeAssumption DEF Gap, Slots

(* Steps can be taken in either order. *)
LEMMA AheadSwap ==
    ASSUME NEW i \in Slots, NEW n \in 0 .. Size, NEW k \in 0 .. Size
    PROVE  Ahead(Ahead(i, n), k) = Ahead(Ahead(i, k), n)
BY SizeAssumption DEF Ahead, Slots

(* Both ends one slot further leave the gap as it is. *)
LEMMA GapBoth ==
    ASSUME NEW i \in Slots, NEW j \in Slots
    PROVE  Gap(Ahead(i, 1), Ahead(j, 1)) = Gap(i, j)
BY SizeAssumption DEF Ahead, Gap, Slots

(* The fence is the last slot seen from the one after it. *)
LEMMA GapFence ==
    ASSUME NEW f \in Slots, NEW i \in Slots
    PROVE  /\ Ahead(f, 1) \in Slots
           /\ Gap(Ahead(f, 1), f) = Size - 1
           /\ i # f => Gap(f, i) = Gap(Ahead(f, 1), i) + 1
           /\ Gap(i, f) = Size - 1 - Gap(Ahead(f, 1), i)
BY SizeAssumption DEF Ahead, Gap, Slots

(* A run of n slots has n slots. *)
LEMMA SlotsFromCount ==
    ASSUME NEW i \in Slots, NEW n \in 0 .. Size
    PROVE  IsFiniteSet(SlotsFrom(i, n)) /\ Cardinality(SlotsFrom(i, n)) = n
<1> DEFINE S == {k \in 0 .. Size : IsFiniteSet(SlotsFrom(i, k)) /\ Cardinality(SlotsFrom(i, k)) = k}
<1>1. 0 \in S
  <2>1. SlotsFrom(i, 0) = {}
    BY GapType DEF SlotsFrom
  <2> QED BY <2>1, FS_EmptySet, SizeAssumption
<1>2. ASSUME NEW k \in 0 .. Size - 1, k \in S PROVE k + 1 \in S
  <2>1. Ahead(i, k) \in Slots /\ Gap(i, Ahead(i, k)) = k
    BY AheadType, GapOfAhead, SizeAssumption
  <2>2. SlotsFrom(i, k + 1) = SlotsFrom(i, k) \cup {Ahead(i, k)}
    <3>1. \A j \in Slots : Gap(i, j) \in Int /\ (Gap(i, j) = k => j = Ahead(i, k))
      BY <2>1, GapType, GapInjective
    <3> QED BY <2>1, <3>1, SizeAssumption DEF SlotsFrom
  <2>3. Ahead(i, k) \notin SlotsFrom(i, k)
    BY <2>1 DEF SlotsFrom
  <2> QED BY <1>2, <2>2, <2>3, FS_AddElement, SizeAssumption
<1>3. \A k \in 0 .. Size : k \in S
  <2> HIDE DEF S
  <2> QED BY <1>1, <1>2, UpTo, SizeAssumption
<1> QED BY <1>3

================================================================================
