------------------------------- MODULE IntrProofs -------------------------------
(***************************************************************************)
(* Proofs about module Intr: who holds a waiter, which state it is in,     *)
(* and how many module references the work under way accounts for.         *)
(***************************************************************************)
EXTENDS Intr, SetInduction, FiniteSetTheorems, TLAPS

AddPcs == {"add", "request", "relock"}
ProcessPcs == {"read", "lock", "run", "xchg", "put"}
AllPcs == {"idle", "wait", "cancel", "drop"} \cup AddPcs \cup ProcessPcs

WaitRec == [refcount : 0 .. 2, state : PENDING .. HANDLED, thresh : Word, count : Nat \ {0}]

(* Types, and which places a process can be at.  The host's references are *)
(* integers here: that they are not negative follows from BusyInv.         *)
Types ==
    /\ hw \in Word /\ max_val \in Word
    /\ waiter \in [Waiters -> WaitRec]
    /\ wait_head \in Seq(Waiters) /\ IsInjective(wait_head)
    /\ irq_requested \in BOOLEAN
    /\ armed \in Word \cup {Off} /\ isr \in BOOLEAN /\ thread_woken \in BOOLEAN
    /\ pc \in [Procs -> AllPcs]
    /\ sync \in [Procs -> Word]
    /\ completed \in [Procs -> Seq(Waiters)]
    /\ busy \in Int /\ leaks \in 0 .. MaxLeaks
    /\ stop \in {"on", "walk", "free", "off"}
    /\ doomed \subseteq Waiters

Held(w) == \E p \in Procs : InCompleted(p, w)

(* the handler of the first waiter on p's list has run *)
Handling(p) == pc[p] \in {"xchg", "put"}

ProcOK(p) ==
    /\ IsInjective(completed[p])
    /\ completed[p] # << >> => pc[p] \in {"run", "xchg", "put"}
    /\ Handling(p) => completed[p] # << >>
    /\ p \in SubmitWaiters => pc[p] \in {"idle"} \cup AddPcs
    /\ p = Irq => pc[p] \in {"idle"} \cup ProcessPcs

(* A waiter is about to be queued, on the list, or on the list of one      *)
(* process.  Its state follows from where it is and from what the thread   *)
(* that shares it is doing.                                                *)
AddOK(w) == Adding(w) => ~Linked(w) /\ ~Held(w) /\ State(w) = PENDING /\ waiter[w].count = 1

LinkOK(w) ==
    Linked(w) =>
        /\ ~Held(w) /\ waiter[w].count = 1
        /\ State(w) = HANDLED <=> w \in doomed
        /\ State(w) = PENDING <=> w \in SubmitWaiters \/ pc[w] \in {"wait", "cancel"}
        /\ State(w) # REMOVED

HeldOK(w) ==
    \A p \in Procs : InCompleted(p, w) =>
        /\ \A q \in Procs : InCompleted(q, w) => q = p
        /\ IF pc[p] = "put" /\ w = Head(completed[p])
           THEN State(w) = HANDLED
           ELSE State(w) = REMOVED /\ (w \in WakeWaiters => pc[w] \in {"wait", "cancel"})

(* the thread in wait_timeout is the last holder *)
LastOK(w) ==
    w \in WakeWaiters /\ pc[w] # "idle" /\ ~Adding(w) /\ ~Linked(w) /\ ~Held(w)
        => State(w) = HANDLED

RefOK(w) == waiter[w].refcount = ListRefs(w) + OwnerRefs(w)

WaiterOK(w) == AddOK(w) /\ LinkOK(w) /\ HeldOK(w) /\ LastOK(w) /\ RefOK(w)

(* stop runs on an idle host, whose interrupt is quiet *)
StopOK ==
    /\ stop # "on" => busy = 0 /\ armed = Off /\ ~isr /\ ~thread_woken /\ pc[Irq] = "idle"
    /\ stop \in {"free", "off"} => wait_head = << >>
    /\ doomed # {} => stop = "walk"
    /\ \A w \in doomed : doomed = {w} /\ Linked(w)

(* How many module references a submit waiter stands for: one until its    *)
(* clean-up is merged, then as many as were merged, until the handler runs. *)
Weight(w) ==
    IF Adding(w) \/ Linked(w) THEN 1
    ELSE IF \E p \in Procs : InCompleted(p, w) /\ ~(Handling(p) /\ w = Head(completed[p]))
    THEN waiter[w].count ELSE 0

(* the sum of f over the submit waiters, as a number of pairs *)
Pairs(f) == {x \in SubmitWaiters \X (Nat \ {0}) : x[2] <= f[x[1]]}
Total(f) == Cardinality(Pairs(f))

Weights == [w \in SubmitWaiters |-> Weight(w)]
Sleepers == {w \in WakeWaiters : pc[w] # "idle"}

BusyInv == busy = leaks + Cardinality(Sleepers) + Total(Weights)

IntrInv ==
    /\ Types /\ StopOK /\ BusyInv
    /\ \A p \in Procs : ProcOK(p)
    /\ \A w \in Waiters : WaiterOK(w)

-----------------------------------------------------------------------------
(* Lists *)

LEMMA RangeIs ==
    ASSUME NEW T, NEW s \in Seq(T)
    PROVE  /\ Len(s) \in Nat /\ DOMAIN s = 1 .. Len(s)
           /\ Range(s) \subseteq T
           /\ \A x : x \in Range(s) <=> \E i \in 1 .. Len(s) : s[i] = x
BY DEF Range

(* what follows from one more member being kept *)
LEMMA KeptAppend ==
    ASSUME NEW T, NEW a \in Seq(T), NEW x \in T
    PROVE  /\ Append(a, x) \in Seq(T)
           /\ Range(Append(a, x)) = Range(a) \cup {x}
           /\ IsInjective(a) /\ x \notin Range(a) => IsInjective(Append(a, x))
<1> DEFINE b == Append(a, x)
<1>1. /\ b \in Seq(T) /\ Len(b) = Len(a) + 1 /\ Len(a) \in Nat
      /\ \A i \in 1 .. Len(a) : b[i] = a[i]
      /\ b[Len(a) + 1] = x
  OBVIOUS
<1> HIDE DEF b
<1>2. \A i \in 1 .. Len(b) : b[i] = IF i = Len(a) + 1 THEN x ELSE a[i]
  BY <1>1
<1>3. ASSUME NEW y PROVE y \in Range(b) <=> y \in Range(a) \cup {x}
  <2>1. y \in Range(b) <=> \E i \in 1 .. Len(b) : b[i] = y
    BY <1>1, RangeIs
  <2>2. y \in Range(a) <=> \E i \in 1 .. Len(a) : a[i] = y
    BY RangeIs
  <2> QED BY <1>1, <1>2, <2>1, <2>2
<1>4. ASSUME IsInjective(a), x \notin Range(a) PROVE IsInjective(b)
  <2>1. \A i \in 1 .. Len(a) : a[i] # x
    BY <1>4, RangeIs
  <2>2. \A i, j \in 1 .. Len(a) : a[i] = a[j] => i = j
    BY <1>4 DEF IsInjective
  <2>3. DOMAIN b = 1 .. Len(a) + 1
    BY <1>1
  <2>4. ASSUME NEW i \in 1 .. Len(a) + 1, NEW j \in 1 .. Len(a) + 1, b[i] = b[j] PROVE i = j
    BY <1>1, <1>2, <2>1, <2>2, <2>4
  <2> QED BY <2>3, <2>4 DEF IsInjective
<1> QED BY <1>1, <1>3, <1>4 DEF b

(* g is the function that Kept is defined with *)
Builds(g, s, S) ==
    /\ g[0] = << >>
    /\ \A i \in 1 .. Len(s) : g[i] = IF s[i] \in S THEN Append(g[i - 1], s[i]) ELSE g[i - 1]

(* Kept is what its recursive definition says it is. *)
LEMMA KeptUnfold ==
    ASSUME NEW T, NEW s \in Seq(T), NEW S
    PROVE  \E g \in [0 .. Len(s) -> Seq(T)] : Kept(s, S) = g[Len(s)] /\ Builds(g, s, S)
<1> DEFINE L == Len(s)
           Step(g) == [i \in 0 .. L |-> IF i = 0 THEN << >>
                          ELSE IF s[i] \in S THEN Append(g[i - 1], s[i]) ELSE g[i - 1]]
           Ext(g, n) == [i \in 0 .. n + 1 |-> IF i = n + 1
                           THEN (IF s[n + 1] \in S THEN Append(g[n], s[n + 1]) ELSE g[n]) ELSE g[i]]
           Good(g, n) == /\ g[0] = << >>
                         /\ \A i \in 1 .. n : g[i] = IF s[i] \in S THEN Append(g[i - 1], s[i]) ELSE g[i - 1]
           P == {n \in 0 .. L : \E g \in [0 .. n -> Seq(T)] : Good(g, n)}
<1>0. L \in Nat /\ \A i \in 1 .. L : s[i] \in T
  OBVIOUS
<1> HIDE DEF L
<1>1. 0 \in P
  <2>1. [i \in 0 .. 0 |-> << >>] \in [0 .. 0 -> Seq(T)]
    OBVIOUS
  <2>2. Good([i \in 0 .. 0 |-> << >>], 0)
    OBVIOUS
  <2>3. 0 \in 0 .. L
    BY <1>0
  <2> HIDE DEF Good
  <2> QED BY <2>1, <2>2, <2>3
<1>2. ASSUME NEW n \in 0 .. L - 1, n \in P PROVE n + 1 \in P
  <2>1. PICK g \in [0 .. n -> Seq(T)] : Good(g, n)
    BY <1>2
  <2>2. n + 1 \in 1 .. L /\ n \in Nat /\ n \in 0 .. n
    BY <1>0
  <2>3. g[n] \in Seq(T) /\ s[n + 1] \in T
    BY <1>0, <2>1, <2>2
  <2>4. Append(g[n], s[n + 1]) \in Seq(T)
    BY <2>3
  <2>5. Ext(g, n) \in [0 .. n + 1 -> Seq(T)]
    <3>1. \A i \in 0 .. n + 1 : i # n + 1 => i \in 0 .. n
      BY <2>2
    <3> QED BY <2>1, <2>3, <2>4, <3>1
  <2>6. Good(Ext(g, n), n + 1)
    <3>1. \A i \in 0 .. n : Ext(g, n)[i] = g[i]
      BY <2>2
    <3>2. Ext(g, n)[n + 1] = IF s[n + 1] \in S THEN Append(g[n], s[n + 1]) ELSE g[n]
      BY <2>2
    <3>3. 0 \in 0 .. n /\ (n + 1) - 1 = n /\ \A i \in 1 .. n : i \in 0 .. n /\ i - 1 \in 0 .. n
      BY <2>2
    <3> HIDE DEF Ext
    <3>4. Ext(g, n)[0] = << >>
      BY <2>1, <3>1, <3>3
    <3>5. ASSUME NEW i \in 1 .. n + 1
          PROVE  Ext(g, n)[i] = IF s[i] \in S THEN Append(Ext(g, n)[i - 1], s[i]) ELSE Ext(g, n)[i - 1]
      <4>1. CASE i = n + 1 BY <2>2, <3>1, <3>2, <3>3, <4>1
      <4>2. CASE i # n + 1
        <5>1. i \in 1 .. n
          BY <2>2, <4>2
        <5> QED BY <2>1, <3>1, <3>3, <5>1
      <4> QED BY <4>1, <4>2
    <3> QED BY <3>4, <3>5
  <2>7. n + 1 \in 0 .. L
    BY <1>0, <2>2
  <2> HIDE DEF Good, Ext
  <2> QED BY <2>5, <2>6, <2>7
<1>3. L \in P
  <2>1. L \in 0 .. L
    BY <1>0
  <2> HIDE DEF P
  <2> QED BY <1>0, <1>1, <1>2, <2>1, UpTo
<1>4. PICK g \in [0 .. L -> Seq(T)] : Good(g, L)
  BY <1>3
<1>5. g = Step(g)
  <2>1. \A i \in 0 .. L : g[i] = IF i = 0 THEN << >>
                          ELSE IF s[i] \in S THEN Append(g[i - 1], s[i]) ELSE g[i - 1]
    <3>1. \A i \in 0 .. L : i # 0 => i \in 1 .. L
      BY <1>0
    <3> QED BY <1>4, <3>1
  <2>2. g = [i \in 0 .. L |-> g[i]]
    BY <1>4
  <2> QED BY <2>1, <2>2, Zenon
<1> DEFINE g0 == CHOOSE f : f = Step(f)
<1>6. g0 = Step(g0)
  <2> HIDE DEF Step
  <2> QED BY <1>5
<1>7. Kept(s, S) = g0[L]
  BY DEF Kept, L
<1> HIDE DEF g0
<1>8. \A i \in 0 .. L : g0[i] = IF i = 0 THEN << >>
                        ELSE IF s[i] \in S THEN Append(g0[i - 1], s[i]) ELSE g0[i - 1]
  BY <1>6, Zenon
<1> DEFINE Q == {k \in 0 .. L : g0[k] = g[k]}
<1>9. 0 \in Q
  BY <1>0, <1>4, <1>8
<1>10. ASSUME NEW k \in 0 .. L - 1, k \in Q PROVE k + 1 \in Q
  <2>1. k + 1 \in 0 .. L /\ k + 1 # 0 /\ (k + 1) - 1 = k /\ k + 1 \in 1 .. L
    BY <1>0
  <2>2. g0[k + 1] = IF s[k + 1] \in S THEN Append(g0[k], s[k + 1]) ELSE g0[k]
    BY <1>8, <2>1
  <2>3. g0[k] = g[k]
    BY <1>10
  <2>4. g[k + 1] = IF s[k + 1] \in S THEN Append(g[k], s[k + 1]) ELSE g[k]
    BY <1>4, <2>1
  <2>5. g0[k + 1] = g[k + 1]
    BY <2>2, <2>3, <2>4
  <2> QED BY <2>1, <2>5
<1>11. \A k \in 0 .. L : k \in Q
  <2> HIDE DEF Q
  <2> QED BY <1>0, <1>9, <1>10, UpTo
<1>12. g0[L] = g[L]
  <2>1. L \in Q
    <3> HIDE DEF Q
    <3> QED BY <1>0, <1>11
  <2> QED BY <2>1
<1>13. Builds(g, s, S)
  BY <1>4 DEF Builds, L
<1>14. Kept(s, S) = g[Len(s)] /\ g \in [0 .. Len(s) -> Seq(T)]
  BY <1>4, <1>7, <1>12 DEF L
<1> QED BY <1>13, <1>14

(* A filtered list has the members that were kept, each as often as        *)
(* before; nothing changes when all of them are.                           *)
LEMMA KeptIs ==
    ASSUME NEW T, NEW s \in Seq(T), NEW S
    PROVE  /\ Kept(s, S) \in Seq(T)
           /\ Range(Kept(s, S)) = Range(s) \cap S
           /\ IsInjective(s) => IsInjective(Kept(s, S))
           /\ Range(s) \subseteq S => Kept(s, S) = s
<1>9. PICK g \in [0 .. Len(s) -> Seq(T)] : Kept(s, S) = g[Len(s)] /\ Builds(g, s, S)
  BY KeptUnfold
<1>1. /\ Kept(s, S) = g[Len(s)]
      /\ g[0] = << >>
      /\ \A i \in 1 .. Len(s) : g[i] = IF s[i] \in S THEN Append(g[i - 1], s[i]) ELSE g[i - 1]
  BY <1>9 DEF Builds
<1> DEFINE L == Len(s)
           Pre(n) == {s[i] : i \in {j \in 1 .. n : s[j] \in S}}
           P == {n \in 0 .. L : /\ Range(g[n]) = Pre(n)
                                /\ IsInjective(s) => IsInjective(g[n])
                                /\ Range(s) \subseteq S => Len(g[n]) = n /\ \A i \in 1 .. n : g[n][i] = s[i]}
<1>0. L \in Nat /\ (\A i \in 1 .. L : s[i] \in T /\ s[i] \in Range(s)) /\ DOMAIN s = 1 .. L
  BY RangeIs
<1> HIDE DEF L
<1>2. 0 \in P
  <2>1. Range(g[0]) = {} /\ IsInjective(g[0]) /\ Len(g[0]) = 0
    BY <1>1 DEF Range, IsInjective
  <2>2. Pre(0) = {} /\ 0 \in 0 .. L
    BY <1>0
  <2> HIDE DEF Pre
  <2> QED BY <2>1, <2>2
<1>3. ASSUME NEW n \in 0 .. L - 1, n \in P PROVE n + 1 \in P
  <2>1. n + 1 \in 1 .. L /\ (n + 1) - 1 = n /\ n \in 0 .. L /\ n + 1 \in 0 .. L /\ n \in Nat
    BY <1>0
  <2>2. g[n] \in Seq(T) /\ s[n + 1] \in T /\ s[n + 1] \in Range(s)
        /\ g[n + 1] = IF s[n + 1] \in S THEN Append(g[n], s[n + 1]) ELSE g[n]
    BY <1>0, <1>1, <2>1 DEF L
  <2>3. /\ Range(g[n]) = Pre(n)
        /\ IsInjective(s) => IsInjective(g[n])
        /\ Range(s) \subseteq S => Len(g[n]) = n /\ \A i \in 1 .. n : g[n][i] = s[i]
    BY <1>3
  <2>4. Pre(n + 1) = IF s[n + 1] \in S THEN Pre(n) \cup {s[n + 1]} ELSE Pre(n)
    <3>1. \A j : j \in 1 .. n + 1 <=> j \in 1 .. n \/ j = n + 1
      BY <2>1
    <3> QED BY <3>1
  <2>5. IsInjective(s) => s[n + 1] \notin Pre(n)
    <3>1. \A j \in 1 .. n : j \in 1 .. L /\ j # n + 1
      BY <2>1
    <3> QED BY <1>0, <2>1, <3>1 DEF IsInjective
  <2> HIDE DEF Pre
  <2>6. CASE s[n + 1] \in S
    <3>1. g[n + 1] = Append(g[n], s[n + 1])
      BY <2>2, <2>6
    <3>5. /\ Range(g[n + 1]) = Range(g[n]) \cup {s[n + 1]}
          /\ IsInjective(g[n]) /\ s[n + 1] \notin Range(g[n]) => IsInjective(g[n + 1])
      <4>1. PICK a \in Seq(T) : a = g[n]
        BY <2>2
      <4>2. PICK x \in T : x = s[n + 1]
        BY <2>2
      <4>3. /\ Range(Append(a, x)) = Range(a) \cup {x}
            /\ IsInjective(a) /\ x \notin Range(a) => IsInjective(Append(a, x))
        BY KeptAppend
      <4> QED BY <3>1, <4>1, <4>2, <4>3
    <3>2. Range(g[n + 1]) = Pre(n + 1)
      BY <2>3, <2>4, <2>6, <3>5
    <3>3. IsInjective(s) => IsInjective(g[n + 1])
      BY <2>3, <2>5, <3>5
    <3>4. ASSUME Range(s) \subseteq S
          PROVE  Len(g[n + 1]) = n + 1 /\ \A i \in 1 .. n + 1 : g[n + 1][i] = s[i]
      <4>1. Len(g[n + 1]) = n + 1 /\ g[n + 1][n + 1] = s[n + 1]
            /\ \A i \in 1 .. n : g[n + 1][i] = g[n][i]
        BY <2>2, <2>3, <3>1, <3>4
      <4>2. \A i \in 1 .. n + 1 : i \in 1 .. n \/ i = n + 1
        BY <2>1
      <4> QED BY <2>3, <3>4, <4>1, <4>2
    <3> QED BY <2>1, <3>2, <3>3, <3>4
  <2>7. CASE s[n + 1] \notin S
    <3>1. g[n + 1] = g[n] /\ ~(Range(s) \subseteq S) /\ Pre(n + 1) = Pre(n)
      BY <2>2, <2>4, <2>7
    <3> QED BY <2>1, <2>3, <3>1
  <2> QED BY <2>6, <2>7
<1>4. L \in P
  <2>1. L \in 0 .. L
    BY <1>0
  <2> HIDE DEF P
  <2> QED BY <1>0, <1>2, <1>3, <2>1, UpTo
<1>5. /\ Range(g[L]) = Pre(L)
      /\ IsInjective(s) => IsInjective(g[L])
      /\ Range(s) \subseteq S => Len(g[L]) = L /\ \A i \in 1 .. L : g[L][i] = s[i]
  BY <1>4
<1>6. Pre(L) = Range(s) \cap S
  <2>1. \A x : x \in Range(s) <=> \E i \in 1 .. L : s[i] = x
    BY RangeIs DEF L
  <2> QED BY <2>1
<1>7. g[L] \in Seq(T) /\ Kept(s, S) = g[L]
  BY <1>0, <1>1 DEF L
<1>8. ASSUME Range(s) \subseteq S PROVE g[L] = s
  <2>1. Len(g[L]) = Len(s) /\ \A i \in 1 .. Len(s) : g[L][i] = s[i]
    BY <1>5, <1>8 DEF L
  <2>2. PICK k \in Seq(T) : k = g[L]
    BY <1>7
  <2>3. k = [i \in 1 .. Len(k) |-> k[i]] /\ s = [i \in 1 .. Len(s) |-> s[i]]
    OBVIOUS
  <2>4. Len(k) = Len(s) /\ \A i \in 1 .. Len(s) : k[i] = s[i]
    BY <2>1, <2>2
  <2>5. k = s
    BY <2>3, <2>4
  <2> QED BY <2>2, <2>5
<1> HIDE DEF Pre
<1> QED BY <1>5, <1>6, <1>7, <1>8

-----------------------------------------------------------------------------
(* Sums over the submit waiters *)

Col(w, n) == {w} \X (1 .. n)

LEMMA ColIs ==
    ASSUME NEW w, NEW n \in Nat
    PROVE  IsFiniteSet(Col(w, n)) /\ Cardinality(Col(w, n)) = n
<1>1. IsFiniteSet({w}) /\ Cardinality({w}) = 1
  BY FS_Singleton
<1>2. IsFiniteSet(1 .. n) /\ Cardinality(1 .. n) = n
  <2>1. IsFiniteSet(1 .. n) /\ Cardinality(1 .. n) = IF 1 > n THEN 0 ELSE n - 1 + 1
    BY FS_Interval
  <2> QED BY <2>1
<1>3. /\ IsFiniteSet({w} \X (1 .. n))
      /\ Cardinality({w} \X (1 .. n)) = Cardinality({w}) * Cardinality(1 .. n)
  BY <1>1, <1>2, FS_Product
<1>4. Cardinality({w} \X (1 .. n)) = n
  BY <1>1, <1>2, <1>3
<1> QED BY <1>3, <1>4 DEF Col

LEMMA PairsFinite ==
    ASSUME NEW f \in [SubmitWaiters -> Nat]
    PROVE  IsFiniteSet(Pairs(f)) /\ Total(f) \in Nat
<1> DEFINE c == [w \in SubmitWaiters |-> Col(w, f[w])]
           C == {Col(w, f[w]) : w \in SubmitWaiters}
<1>1. IsFiniteSet(C)
  <2>1. c \in Surjection(SubmitWaiters, C)
    BY DEF Surjection
  <2> HIDE DEF c, C
  <2> QED BY <2>1, FS_Surjection, IntrAssumption
<1>2. \A t \in C : IsFiniteSet(t)
  BY ColIs
<1>3. IsFiniteSet(UNION C)
  <2> HIDE DEF C
  <2> QED BY <1>1, <1>2, FS_UNION
<1>4. Pairs(f) \subseteq UNION C
  <2> SUFFICES ASSUME NEW x \in Pairs(f) PROVE x \in UNION C
    OBVIOUS
  <2>1. x \in SubmitWaiters \X (Nat \ {0}) /\ x[2] <= f[x[1]]
    BY DEF Pairs
  <2>2. x[1] \in SubmitWaiters /\ x[2] \in 1 .. f[x[1]] /\ x = <<x[1], x[2]>>
    BY <2>1
  <2>3. x \in Col(x[1], f[x[1]])
    BY <2>2 DEF Col
  <2> QED BY <2>2, <2>3
<1>5. IsFiniteSet(Pairs(f))
  <2> HIDE DEF C
  <2> QED BY <1>3, <1>4, FS_Subset
<1> QED BY <1>5, FS_CardinalityType DEF Total

(* the sum without one of its terms *)
LEMMA TotalSplit ==
    ASSUME NEW f \in [SubmitWaiters -> Nat], NEW w \in SubmitWaiters
    PROVE  LET R == {x \in Pairs(f) : x[1] # w}
           IN  IsFiniteSet(R) /\ Cardinality(R) \in Nat /\ Total(f) = Cardinality(R) + f[w]
<1> DEFINE R == {x \in Pairs(f) : x[1] # w}
<1>1. IsFiniteSet(R) /\ Cardinality(R) \in Nat
  <2>1. R \subseteq Pairs(f)
    OBVIOUS
  <2> HIDE DEF R
  <2> QED BY <2>1, PairsFinite, FS_Subset, FS_CardinalityType
<1>2. IsFiniteSet(Col(w, f[w])) /\ Cardinality(Col(w, f[w])) = f[w] /\ f[w] \in Nat
  BY ColIs
<1>3. Pairs(f) = R \cup Col(w, f[w])
  <2>1. ASSUME NEW x \in Pairs(f) PROVE x \in R \cup Col(w, f[w])
    <3>1. x \in SubmitWaiters \X (Nat \ {0}) /\ x[2] <= f[x[1]]
      BY DEF Pairs
    <3> QED BY <1>2, <3>1 DEF Col
  <2>2. ASSUME NEW x \in Col(w, f[w]) PROVE x \in Pairs(f)
    BY <1>2 DEF Col, Pairs
  <2> QED BY <2>1, <2>2
<1>4. R \cap Col(w, f[w]) = {}
  BY DEF Col
<1>5. Cardinality(R \cup Col(w, f[w])) = Cardinality(R) + f[w] - 0
  <2> HIDE DEF R
  <2>1. Cardinality(R \cup Col(w, f[w]))
          = Cardinality(R) + Cardinality(Col(w, f[w])) - Cardinality(R \cap Col(w, f[w]))
    BY <1>1, <1>2, FS_Union
  <2> QED BY <1>2, <1>4, <2>1, FS_EmptySet
<1> HIDE DEF R
<1>6. Total(f) = Cardinality(R) + f[w]
  BY <1>1, <1>2, <1>3, <1>5 DEF Total
<1> QED BY <1>1, <1>6 DEF R

LEMMA TotalChange ==
    ASSUME NEW f \in [SubmitWaiters -> Nat], NEW g \in [SubmitWaiters -> Nat],
           NEW w \in SubmitWaiters, \A x \in SubmitWaiters : x # w => g[x] = f[x]
    PROVE  Total(g) = Total(f) - f[w] + g[w]
<1> DEFINE R == {x \in Pairs(f) : x[1] # w}
           Q == {x \in Pairs(g) : x[1] # w}
<1>1. Cardinality(R) \in Nat /\ Total(f) = Cardinality(R) + f[w] /\ Total(g) = Cardinality(Q) + g[w]
  BY TotalSplit
<1>2. R = Q
  <2>1. \A x \in SubmitWaiters \X (Nat \ {0}) : x[1] # w => f[x[1]] = g[x[1]]
    OBVIOUS
  <2> QED BY <2>1 DEF Pairs
<1> HIDE DEF R, Q
<1> QED BY <1>1, <1>2

LEMMA TotalSame ==
    ASSUME NEW f \in [SubmitWaiters -> Nat], NEW g \in [SubmitWaiters -> Nat],
           \A x \in SubmitWaiters : g[x] = f[x]
    PROVE  Total(g) = Total(f)
<1>1. f = g
  OBVIOUS
<1> QED BY <1>1

(* a sum is at least each of its terms *)
LEMMA TotalBound ==
    ASSUME NEW f \in [SubmitWaiters -> Nat], NEW w \in SubmitWaiters
    PROVE  f[w] <= Total(f)
<1> DEFINE R == {x \in Pairs(f) : x[1] # w}
<1>1. Cardinality(R) \in Nat /\ Total(f) = Cardinality(R) + f[w] /\ f[w] \in Nat
  BY TotalSplit
<1> HIDE DEF R
<1> QED BY <1>1

(* g puts the weights of the waiters in A together, as h says *)
Regroups(f, g, A, h) ==
    /\ \A w \in A : f[w] = 1
    /\ \A w \in A : g[w] = Cardinality({x \in A : h[x] = w})
    /\ \A w \in SubmitWaiters \ A : g[w] = f[w]

(* Each member of A passes its one to another member: the sum is the same. *)
LEMMA TotalRegroup ==
    ASSUME NEW f \in [SubmitWaiters -> Nat], NEW g \in [SubmitWaiters -> Nat],
           NEW A \in SUBSET SubmitWaiters, NEW h \in [A -> A], Regroups(f, g, A, h)
    PROVE  Total(g) = Total(f)
<1>0. /\ \A w \in A : f[w] = 1
      /\ \A w \in A : g[w] = Cardinality({x \in A : h[x] = w})
      /\ \A w \in SubmitWaiters \ A : g[w] = f[w]
  BY DEF Regroups
<1> USE <1>0
<1> DEFINE Grp(l) == {x \in A : h[x] = l}
           B(l) == CHOOSE b : b \in Bijection(1 .. g[l], Grp(l))
           phi == [x \in Pairs(g) |-> IF x[1] \in A THEN <<B(x[1])[x[2]], 1>> ELSE x]
<1>1. ASSUME NEW l \in A PROVE B(l) \in Bijection(1 .. g[l], Grp(l))
  <2>1. IsFiniteSet(Grp(l))
    BY FS_Subset, IntrAssumption
  <2>2. Cardinality(Grp(l)) = g[l]
    OBVIOUS
  <2> HIDE DEF Grp
  <2>3. ExistsBijection(1 .. g[l], Grp(l))
    BY <2>1, <2>2, FS_CardinalityType
  <2>4. \E b : b \in Bijection(1 .. g[l], Grp(l))
    BY <2>3 DEF ExistsBijection
  <2> QED BY <2>4
<1>2. ASSUME NEW l \in A
      PROVE  /\ \A k \in 1 .. g[l] : B(l)[k] \in A /\ h[B(l)[k]] = l
             /\ \A k, m \in 1 .. g[l] : B(l)[k] = B(l)[m] => k = m
             /\ \A x \in A : h[x] = l => \E k \in 1 .. g[l] : B(l)[k] = x
  <2>1. B(l) \in [1 .. g[l] -> Grp(l)] /\ IsInjective(B(l))
        /\ \A t \in Grp(l) : \E k \in 1 .. g[l] : B(l)[k] = t
    <3> HIDE DEF B, Grp
    <3> QED BY <1>1 DEF Bijection, Injection, Surjection
  <2> HIDE DEF B
  <2>2. PICK b \in [1 .. g[l] -> Grp(l)] : b = B(l)
    BY <2>1
  <2>3. \A k, m \in 1 .. g[l] : b[k] = b[m] => k = m
    BY <2>1, <2>2 DEF IsInjective
  <2>4. \A k \in 1 .. g[l] : b[k] \in A /\ h[b[k]] = l
    BY <2>2
  <2>5. \A x \in A : h[x] = l => \E k \in 1 .. g[l] : b[k] = x
    BY <2>1, <2>2
  <2> QED BY <2>2, <2>3, <2>4, <2>5, Zenon
<1> HIDE DEF B, Grp
<1>3. ASSUME NEW x \in Pairs(g)
      PROVE  x[1] \in SubmitWaiters /\ x[2] \in 1 .. g[x[1]] /\ x = <<x[1], x[2]>>
  BY DEF Pairs
<1>4. ASSUME NEW x \in Pairs(f)
      PROVE  x[1] \in SubmitWaiters /\ x[2] \in 1 .. f[x[1]] /\ x = <<x[1], x[2]>>
  BY DEF Pairs
<1>5. \A w \in SubmitWaiters : \A k \in 1 .. f[w] : <<w, k>> \in Pairs(f)
  BY DEF Pairs
<1>6. \A w \in SubmitWaiters : \A k \in 1 .. g[w] : <<w, k>> \in Pairs(g)
  BY DEF Pairs
<1>7. phi \in [Pairs(g) -> Pairs(f)]
  <2> SUFFICES ASSUME NEW x \in Pairs(g)
               PROVE  (IF x[1] \in A THEN <<B(x[1])[x[2]], 1>> ELSE x) \in Pairs(f)
    OBVIOUS
  <2>1. CASE x[1] \in A
    <3>1. B(x[1])[x[2]] \in A
      BY <1>2, <1>3, <2>1
    <3>2. 1 \in 1 .. f[B(x[1])[x[2]]]
      BY <3>1
    <3> QED BY <1>5, <2>1, <3>1, <3>2
  <2>2. CASE x[1] \notin A
    BY <1>3, <1>5, <2>2
  <2> QED BY <2>1, <2>2
<1>8. ASSUME NEW x \in Pairs(g), NEW y \in Pairs(g), phi[x] = phi[y] PROVE x = y
  <2>1. phi[x] = (IF x[1] \in A THEN <<B(x[1])[x[2]], 1>> ELSE x)
        /\ phi[y] = (IF y[1] \in A THEN <<B(y[1])[y[2]], 1>> ELSE y)
    OBVIOUS
  <2> HIDE DEF phi
  <2>2. CASE x[1] \in A /\ y[1] \in A
    <3>4. PICK a, b : a = B(x[1])[x[2]] /\ b = B(y[1])[y[2]]
      OBVIOUS
    <3>5. <<a, 1>> = <<b, 1>>
      BY <1>8, <2>1, <2>2, <3>4
    <3>1. B(x[1])[x[2]] = B(y[1])[y[2]]
      BY <3>4, <3>5
    <3>2. x[1] = y[1]
      BY <1>2, <1>3, <2>2, <3>1
    <3>3. x[2] = y[2]
      BY <1>2, <1>3, <2>2, <3>1, <3>2
    <3> QED BY <1>3, <3>2, <3>3
  <2>3. CASE x[1] \in A /\ y[1] \notin A
    <3>1. B(x[1])[x[2]] \in A
      BY <1>2, <1>3, <2>3
    <3>2. <<B(x[1])[x[2]], 1>> = y
      BY <1>8, <2>1, <2>3
    <3>3. y[1] = B(x[1])[x[2]]
      BY <3>2
    <3> QED BY <2>3, <3>1, <3>3
  <2>4. CASE x[1] \notin A /\ y[1] \in A
    <3>1. B(y[1])[y[2]] \in A
      BY <1>2, <1>3, <2>4
    <3>2. <<B(y[1])[y[2]], 1>> = x
      BY <1>8, <2>1, <2>4
    <3>3. x[1] = B(y[1])[y[2]]
      BY <3>2
    <3> QED BY <2>4, <3>1, <3>3
  <2>5. CASE x[1] \notin A /\ y[1] \notin A
    BY <1>8, <2>1, <2>5
  <2> QED BY <2>2, <2>3, <2>4, <2>5
<1>9. ASSUME NEW y \in Pairs(f) PROVE \E x \in Pairs(g) : phi[x] = y
  <2>1. CASE y[1] \in A
    <3>1. f[y[1]] = 1 /\ y[2] = 1 /\ y = <<y[1], 1>>
      BY <1>4, <2>1
    <3>2. PICK k \in 1 .. g[h[y[1]]] : B(h[y[1]])[k] = y[1]
      BY <1>2, <2>1
    <3>3. h[y[1]] \in A /\ <<h[y[1]], k>> \in Pairs(g)
      BY <1>6, <2>1
    <3>4. phi[<<h[y[1]], k>>] = <<B(h[y[1]])[k], 1>>
      BY <3>3
    <3> HIDE DEF phi
    <3> QED BY <3>1, <3>2, <3>3, <3>4
  <2>2. CASE y[1] \notin A
    <3>1. y \in Pairs(g)
      BY <1>4, <1>6, <2>2
    <3> QED BY <2>2, <3>1
  <2> QED BY <2>1, <2>2
<1> HIDE DEF phi
<1>10. phi \in Bijection(Pairs(g), Pairs(f))
  BY <1>7, <1>8, <1>9 DEF Bijection, Injection, Surjection, IsInjective
<1>11. ExistsBijection(Pairs(g), Pairs(f))
  BY <1>10 DEF ExistsBijection
<1>12. IsFiniteSet(Pairs(g))
  BY PairsFinite
<1> QED BY <1>11, <1>12, FS_Bijection DEF Total

-----------------------------------------------------------------------------
(* What a step leaves alone *)

LEMMA Names ==
    /\ SubmitWaiters \subseteq Waiters /\ WakeWaiters \subseteq Waiters /\ Waiters \subseteq Procs
    /\ Irq \in Procs /\ Irq \notin Waiters
    /\ \A w \in Waiters : w \in SubmitWaiters <=> w \notin WakeWaiters
    /\ \A p \in Procs : p \in Waiters \/ p = Irq
BY IntrAssumption DEF Waiters, Procs

(* nothing that WaiterOK looks at changes for waiter x *)
LEMMA WaiterFrame ==
    ASSUME NEW x \in Waiters, WaiterOK(x), waiter'[x] = waiter[x],
           Adding(x)' <=> Adding(x), pc'[x] = "idle" <=> pc[x] = "idle",
           pc'[x] \in {"wait", "cancel"} <=> pc[x] \in {"wait", "cancel"},
           Linked(x)' <=> Linked(x),
           \A p \in Procs : InCompleted(p, x)' <=> InCompleted(p, x),
           \A p \in Procs : InCompleted(p, x) =>
               (pc'[p] = "put" /\ x = Head(completed'[p]) <=> pc[p] = "put" /\ x = Head(completed[p])),
           x \in doomed' <=> x \in doomed
    PROVE  WaiterOK(x)'
<1>0. State(x)' = State(x) /\ (Held(x)' <=> Held(x))
  BY DEF State, Held
<1>1. AddOK(x)'
  BY <1>0 DEF WaiterOK, AddOK
<1>2. LinkOK(x)'
  BY <1>0 DEF WaiterOK, LinkOK
<1>3. HeldOK(x)'
  <2> SUFFICES ASSUME NEW p \in Procs, InCompleted(p, x)'
               PROVE  /\ \A q \in Procs : InCompleted(q, x)' => q = p
                      /\ IF pc'[p] = "put" /\ x = Head(completed'[p])
                         THEN State(x)' = HANDLED
                         ELSE State(x)' = REMOVED /\ (x \in WakeWaiters => pc'[x] \in {"wait", "cancel"})
    BY DEF HeldOK
  <2>1. InCompleted(p, x)
    OBVIOUS
  <2>2. /\ \A q \in Procs : InCompleted(q, x) => q = p
        /\ IF pc[p] = "put" /\ x = Head(completed[p])
           THEN State(x) = HANDLED
           ELSE State(x) = REMOVED /\ (x \in WakeWaiters => pc[x] \in {"wait", "cancel"})
    BY <2>1 DEF WaiterOK, HeldOK
  <2> QED BY <1>0, <2>1, <2>2
<1>4. LastOK(x)'
  BY <1>0 DEF WaiterOK, LastOK
<1>5. RefOK(x)'
  BY <1>0 DEF WaiterOK, RefOK, ListRefs, OwnerRefs, Held
<1> QED BY <1>1, <1>2, <1>3, <1>4, <1>5 DEF WaiterOK

LEMMA WeightFrame ==
    ASSUME NEW x \in Waiters, waiter'[x].count = waiter[x].count,
           Adding(x)' <=> Adding(x), Linked(x)' <=> Linked(x),
           \A p \in Procs : InCompleted(p, x)' <=> InCompleted(p, x),
           \A p \in Procs : InCompleted(p, x) =>
               (Handling(p)' /\ x = Head(completed'[p]) <=> Handling(p) /\ x = Head(completed[p]))
    PROVE  Weight(x)' = Weight(x)
<1>1. (\E p \in Procs : InCompleted(p, x)' /\ ~(Handling(p)' /\ x = Head(completed'[p])))
      <=> (\E p \in Procs : InCompleted(p, x) /\ ~(Handling(p) /\ x = Head(completed[p])))
  OBVIOUS
<1> QED BY <1>1 DEF Weight

LEMMA WeightsType ==
    ASSUME Types
    PROVE  /\ Weights \in [SubmitWaiters -> Nat] /\ Total(Weights) \in Nat
           /\ IsFiniteSet(Sleepers) /\ Cardinality(Sleepers) \in Nat
           /\ leaks \in Nat /\ \A w \in SubmitWaiters : Weights[w] = Weight(w)
<1>1. \A w \in SubmitWaiters : Weight(w) \in Nat
  <2>1. \A w \in SubmitWaiters : waiter[w].count \in Nat
    BY Names DEF Types, WaitRec
  <2> QED BY <2>1 DEF Weight
<1>2. Weights \in [SubmitWaiters -> Nat] /\ \A w \in SubmitWaiters : Weights[w] = Weight(w)
  BY <1>1 DEF Weights
<1>3. IsFiniteSet(Sleepers)
  BY FS_Subset, IntrAssumption DEF Sleepers
<1>4. leaks \in Nat
  BY IntrAssumption DEF Types
<1> QED BY <1>2, <1>3, <1>4, PairsFinite, FS_CardinalityType

(* A process that is inside the driver keeps the host up. *)
LEMMA ActiveHost ==
    ASSUME IntrInv, NEW p \in Procs, pc[p] # "idle"
    PROVE  /\ stop = "on" /\ doomed = {}
           /\ p # Irq => busy >= 1
<1>0. Types /\ StopOK /\ BusyInv /\ ProcOK(p)
  BY DEF IntrInv
<1>1. ASSUME p # Irq PROVE busy >= 1
  <2>1. CASE p \in WakeWaiters
    <3>1. p \in Sleepers
      BY <2>1 DEF Sleepers
    <3>2. Cardinality(Sleepers) # 0
      BY <1>0, <3>1, WeightsType, FS_EmptySet
    <3> QED BY <1>0, <3>2, WeightsType DEF BusyInv, Types
  <2>2. CASE p \in SubmitWaiters
    <3>1. Adding(p)
      BY <1>0, <2>2 DEF ProcOK, Adding, AddPcs
    <3>2. Weights[p] = 1
      BY <1>0, <2>2, <3>1, WeightsType DEF Weight
    <3>3. 1 <= Total(Weights)
      BY <1>0, <2>2, <3>2, WeightsType, TotalBound
    <3> QED BY <1>0, <3>3, WeightsType DEF BusyInv, Types
  <2> QED BY <1>1, <2>1, <2>2, Names
<1>2. stop = "on"
  BY <1>0, <1>1 DEF StopOK
<1> QED BY <1>0, <1>1, <1>2 DEF StopOK

LEMMA BusySame ==
    ASSUME Types, Types', BusyInv, busy' = busy, leaks' = leaks,
           \A w \in WakeWaiters : pc'[w] = "idle" <=> pc[w] = "idle",
           \A w \in SubmitWaiters : Weight(w)' = Weight(w)
    PROVE  BusyInv'
<1>1. Sleepers' = Sleepers
  BY DEF Sleepers
<1>2. Weights' = Weights
  BY DEF Weights
<1> QED BY <1>1, <1>2 DEF BusyInv, Total, Pairs

(* the parts of the invariant that only look at waiters, lists and places *)
Holders ==
    /\ BusyInv
    /\ \A p \in Procs : ProcOK(p)
    /\ \A w \in Waiters : WaiterOK(w)

LEMMA HoldersSame ==
    ASSUME IntrInv, UNCHANGED <<waiter, wait_head, pc, completed, busy, leaks, doomed>>
    PROVE  Holders'
<1>1. \A p \in Procs : ProcOK(p)'
  BY DEF IntrInv, ProcOK, Handling
<1>2. \A w \in Waiters : WaiterOK(w)'
  BY DEF IntrInv, WaiterOK, AddOK, LinkOK, HeldOK, LastOK, RefOK, ListRefs, OwnerRefs, Adding,
         Linked, Held, InCompleted, State
<1>3. BusyInv'
  BY DEF IntrInv, BusyInv, Sleepers, Weights, Total, Pairs, Weight, Adding, Linked, InCompleted, Handling
<1> QED BY <1>1, <1>2, <1>3 DEF Holders

(* One process goes on to l, which is a place of the same kind. *)
LEMMA PcMove ==
    ASSUME IntrInv, Types', NEW p \in Procs, NEW l \in AllPcs, pc' = [pc EXCEPT ![p] = l],
           UNCHANGED <<waiter, wait_head, completed, busy, leaks, doomed>>,
           ~Handling(p), l \notin {"xchg", "put"},
           p # Irq => pc[p] # "idle" /\ l # "idle",
           pc[p] \in AddPcs <=> l \in AddPcs,
           pc[p] \in {"wait", "cancel"} <=> l \in {"wait", "cancel"},
           completed[p] # << >> => l = "run",
           p \in SubmitWaiters => l \in AddPcs,
           p = Irq => l \in {"idle"} \cup ProcessPcs
    PROVE  Holders'
<1>0. Types /\ BusyInv /\ (\A q \in Procs : ProcOK(q)) /\ (\A w \in Waiters : WaiterOK(w))
  BY DEF IntrInv
<1>1. pc'[p] = l /\ \A q \in Procs : q # p => pc'[q] = pc[q]
  BY <1>0 DEF Types
<1>2. ASSUME NEW q \in Procs PROVE ProcOK(q)'
  <2>1. CASE q = p BY <1>0, <1>1, <2>1 DEF ProcOK, Handling
  <2>2. CASE q # p BY <1>0, <1>1, <2>2 DEF ProcOK, Handling
  <2> QED BY <2>1, <2>2
<1>3. ASSUME NEW w \in Waiters
      PROVE  /\ Adding(w)' <=> Adding(w)
             /\ pc'[w] = "idle" <=> pc[w] = "idle"
             /\ pc'[w] \in {"wait", "cancel"} <=> pc[w] \in {"wait", "cancel"}
             /\ Linked(w)' <=> Linked(w)
             /\ \A q \in Procs : InCompleted(q, w)' <=> InCompleted(q, w)
             /\ \A q \in Procs : pc'[q] = "put" <=> pc[q] = "put"
             /\ \A q \in Procs : Handling(q)' <=> Handling(q)
  <2>1. \A q \in Procs : (pc'[q] = "put" <=> pc[q] = "put") /\ (Handling(q)' <=> Handling(q))
    BY <1>1 DEF Handling
  <2>2. (Linked(w)' <=> Linked(w)) /\ \A q \in Procs : InCompleted(q, w)' <=> InCompleted(q, w)
    BY DEF Linked, InCompleted
  <2>3. /\ Adding(w)' <=> Adding(w)
        /\ pc'[w] = "idle" <=> pc[w] = "idle"
        /\ pc'[w] \in {"wait", "cancel"} <=> pc[w] \in {"wait", "cancel"}
    BY <1>1, Names DEF Adding, AddPcs
  <2> QED BY <2>1, <2>2, <2>3
<1>4. ASSUME NEW w \in Waiters PROVE WaiterOK(w)'
  <2>1. waiter'[w] = waiter[w] /\ (w \in doomed' <=> w \in doomed) /\ completed' = completed
    OBVIOUS
  <2> QED BY <1>0, <1>3, <2>1, WaiterFrame
<1>5. ASSUME NEW w \in SubmitWaiters PROVE Weight(w)' = Weight(w)
  <2>1. waiter'[w].count = waiter[w].count /\ completed' = completed /\ w \in Waiters
    BY Names
  <2> QED BY <1>3, <2>1, WeightFrame
<1>6. BusyInv'
  BY <1>0, <1>3, <1>5, BusySame, Names
<1> QED BY <1>2, <1>4, <1>6 DEF Holders

-----------------------------------------------------------------------------
(* Steps that change the number of references *)

LEMMA BusySleeper ==
    ASSUME Types, Types', BusyInv, leaks' = leaks, NEW w \in WakeWaiters,
           \A x \in WakeWaiters : x # w => (pc'[x] = "idle" <=> pc[x] = "idle"),
           \A x \in SubmitWaiters : Weight(x)' = Weight(x),
           \/ pc[w] = "idle" /\ pc'[w] # "idle" /\ busy' = busy + 1
           \/ pc[w] # "idle" /\ pc'[w] = "idle" /\ busy' = busy - 1
    PROVE  BusyInv'
<1>1. Total(Weights)' = Total(Weights)
  BY DEF Weights, Total, Pairs
<1>2. IsFiniteSet(Sleepers) /\ Cardinality(Sleepers) \in Nat /\ leaks \in Nat
      /\ Total(Weights) \in Nat
  BY WeightsType
<1>3. CASE pc[w] = "idle" /\ pc'[w] # "idle" /\ busy' = busy + 1
  <2>1. Sleepers' = Sleepers \cup {w} /\ w \notin Sleepers
    BY <1>3 DEF Sleepers
  <2>2. Cardinality(Sleepers)' = Cardinality(Sleepers) + 1
    BY <1>2, <2>1, FS_AddElement
  <2> QED BY <1>1, <1>2, <1>3, <2>2 DEF BusyInv
<1>4. CASE pc[w] # "idle" /\ pc'[w] = "idle" /\ busy' = busy - 1
  <2>1. Sleepers' = Sleepers \ {w} /\ w \in Sleepers
    BY <1>4 DEF Sleepers
  <2>2. Cardinality(Sleepers)' = Cardinality(Sleepers) - 1
    BY <1>2, <2>1, FS_RemoveElement
  <2> QED BY <1>1, <1>2, <1>4, <2>2 DEF BusyInv
<1> QED BY <1>3, <1>4

LEMMA BusyWeight ==
    ASSUME Types, Types', BusyInv, NEW w \in SubmitWaiters,
           \A x \in WakeWaiters : pc'[x] = "idle" <=> pc[x] = "idle",
           \A x \in SubmitWaiters : x # w => Weight(x)' = Weight(x),
           busy' = busy + (leaks' - leaks) + (Weight(w)' - Weight(w))
    PROVE  BusyInv'
<1>1. Sleepers' = Sleepers
  BY DEF Sleepers
<1>2. /\ Cardinality(Sleepers) \in Nat /\ leaks \in Nat /\ Total(Weights) \in Nat
      /\ Weights \in [SubmitWaiters -> Nat] /\ \A x \in SubmitWaiters : Weights[x] = Weight(x)
  BY WeightsType
<1>3. /\ leaks' \in Nat /\ Weights' \in [SubmitWaiters -> Nat]
      /\ \A x \in SubmitWaiters : Weights'[x] = Weight(x)'
  <2>1. \A x \in SubmitWaiters : Weight(x)' \in Nat
    <3>1. \A x \in SubmitWaiters : waiter'[x].count \in Nat
      BY Names DEF Types, WaitRec
    <3> QED BY <3>1 DEF Weight
  <2> QED BY <2>1, IntrAssumption DEF Types, Weights
<1>4. PICK g \in [SubmitWaiters -> Nat] : g = Weights'
  BY <1>3
<1>5. Total(g) = Total(Weights) - Weights[w] + g[w]
  BY <1>2, <1>3, <1>4, TotalChange
<1>6. Total(Weights)' = Total(g)
  BY <1>4 DEF Total, Pairs
<1>7. Weights[w] = Weight(w) /\ g[w] = Weight(w)' /\ Weights[w] \in Nat /\ g[w] \in Nat
  BY <1>2, <1>3, <1>4
<1>8. busy = leaks + Cardinality(Sleepers) + Total(Weights)
  BY DEF BusyInv
<1>9. busy' = leaks' + Cardinality(Sleepers) + Total(g)
  BY <1>2, <1>3, <1>5, <1>7, <1>8
<1> QED BY <1>1, <1>6, <1>9 DEF BusyInv

(* a waiter that is not allocated is nowhere *)
LEMMA UnusedIs ==
    ASSUME NEW w \in Waiters, WaiterOK(w), waiter[w].refcount = 0
    PROVE  /\ ~Adding(w) /\ ~Linked(w) /\ ~Held(w)
           /\ w \in WakeWaiters => pc[w] = "idle"
BY DEF WaiterOK, RefOK, ListRefs, OwnerRefs, Held

LEMMA HoldersNew ==
    ASSUME IntrInv, Types', NEW w \in Waiters, NEW r, waiter' = [waiter EXCEPT ![w] = r],
           r.state = PENDING, r.count = 1, r.refcount = IF w \in WakeWaiters THEN 2 ELSE 1,
           waiter[w].refcount = 0, pc[w] = "idle", pc' = [pc EXCEPT ![w] = "add"],
           UNCHANGED <<wait_head, completed, leaks, doomed>>, busy' = busy + 1
    PROVE  Holders'
<1>0. Types /\ BusyInv /\ (\A q \in Procs : ProcOK(q)) /\ (\A x \in Waiters : WaiterOK(x))
  BY DEF IntrInv
<1>1. /\ pc'[w] = "add" /\ \A q \in Procs : q # w => pc'[q] = pc[q]
      /\ waiter'[w] = r /\ \A x \in Waiters : x # w => waiter'[x] = waiter[x]
  BY <1>0, Names DEF Types
<1>2. ~Adding(w) /\ ~Linked(w) /\ ~Held(w) /\ completed[w] = << >>
  <2>1. completed[w] = << >>
    BY <1>0, Names DEF ProcOK
  <2> QED BY <1>0, <2>1, UnusedIs
<1>3. ASSUME NEW q \in Procs PROVE ProcOK(q)'
  <2>1. CASE q = w BY <1>0, <1>1, <1>2, <2>1, Names DEF ProcOK, Handling, AddPcs
  <2>2. CASE q # w BY <1>0, <1>1, <2>2 DEF ProcOK, Handling
  <2> QED BY <2>1, <2>2
<1>4. /\ \A x \in Waiters : Linked(x)' <=> Linked(x)
      /\ \A q \in Procs, x \in Waiters : InCompleted(q, x)' <=> InCompleted(q, x)
      /\ \A x \in Waiters : x # w => (Adding(x)' <=> Adding(x))
      /\ Adding(w)' /\ completed' = completed
      /\ \A q \in Procs : (Handling(q)' <=> Handling(q)) /\ (pc'[q] = "put" <=> pc[q] = "put")
  BY <1>1, Names DEF Linked, InCompleted, Adding, Handling
<1>5. ASSUME NEW x \in Waiters, x # w PROVE WaiterOK(x)'
  <2>1. waiter'[x] = waiter[x] /\ pc'[x] = pc[x] /\ (x \in doomed' <=> x \in doomed)
    BY <1>1, <1>5, Names
  <2> QED BY <1>0, <1>4, <1>5, <2>1, WaiterFrame
<1>6. WaiterOK(w)'
  <2>1. ~Linked(w)' /\ ~Held(w)' /\ \A q \in Procs : ~InCompleted(q, w)'
    BY <1>2, <1>4 DEF Held
  <2>2. State(w)' = PENDING /\ waiter'[w].count = 1
    BY <1>1 DEF State
  <2>3. RefOK(w)'
    BY <1>1, <1>4 DEF RefOK, ListRefs, OwnerRefs
  <2>4. AddOK(w)' /\ LinkOK(w)' /\ HeldOK(w)' /\ LastOK(w)'
    BY <1>4, <2>1, <2>2 DEF AddOK, LinkOK, HeldOK, LastOK
  <2> QED BY <2>3, <2>4 DEF WaiterOK
<1>7. ASSUME NEW x \in SubmitWaiters, x # w PROVE Weight(x)' = Weight(x)
  <2>1. waiter'[x].count = waiter[x].count /\ x \in Waiters
    BY <1>1, <1>7, Names
  <2> QED BY <1>4, <1>7, <2>1, WeightFrame
<1>8. BusyInv'
  <2>1. CASE w \in WakeWaiters
    <3>1. \A x \in SubmitWaiters : x # w
      BY <2>1, Names
    <3>2. \A x \in WakeWaiters : x # w => (pc'[x] = "idle" <=> pc[x] = "idle")
      BY <1>1, Names
    <3> QED BY <1>0, <1>1, <1>7, <2>1, <3>1, <3>2, BusySleeper
  <2>2. CASE w \in SubmitWaiters
    <3>1. Weight(w) = 0
      BY <1>2 DEF Weight, Held
    <3>2. Weight(w)' = 1
      BY <1>4 DEF Weight
    <3>3. \A x \in WakeWaiters : pc'[x] = "idle" <=> pc[x] = "idle"
      BY <1>1, <2>2, Names
    <3>4. busy' = busy + (leaks' - leaks) + (Weight(w)' - Weight(w))
      BY <1>0, <3>1, <3>2, WeightsType DEF Types
    <3> QED BY <1>0, <1>7, <2>2, <3>3, <3>4, BusyWeight
  <2> QED BY <2>1, <2>2, Names
<1> QED BY <1>3, <1>5, <1>6, <1>8 DEF Holders

-----------------------------------------------------------------------------
(* Queueing a waiter *)

LEMMA InsertIs ==
    ASSUME NEW T, NEW s \in Seq(T), NEW k \in 1 .. Len(s) + 1, NEW e \in T
    PROVE  LET r == InsertAt(s, k, e)
           IN  /\ r \in Seq(T) /\ Len(r) = Len(s) + 1
               /\ Range(r) = Range(s) \cup {e}
               /\ IsInjective(s) /\ e \notin Range(s) => IsInjective(r)
               /\ Head(r) = IF k = 1 THEN e ELSE Head(s)
<1> DEFINE a == SubSeq(s, 1, k - 1)
           b == SubSeq(s, k, Len(s))
           ae == a \o <<e>>
           r == ae \o b
<1>0. Len(s) \in Nat /\ k \in Int /\ \A i \in 1 .. Len(s) : s[i] \in T
  OBVIOUS
<1>1. a \in Seq(T) /\ Len(a) = k - 1 /\ \A i \in 1 .. k - 1 : a[i] = s[i]
  BY <1>0
<1>2. b \in Seq(T) /\ Len(b) = Len(s) + 1 - k /\ \A i \in 1 .. Len(s) + 1 - k : b[i] = s[i + k - 1]
  BY <1>0
<1> HIDE DEF a, b
<1>3. /\ ae \in Seq(T) /\ Len(ae) = k
      /\ \A i \in 1 .. k : ae[i] = IF i = k THEN e ELSE a[i]
  BY <1>0, <1>1
<1> HIDE DEF ae
<1>4. /\ r \in Seq(T) /\ Len(r) = Len(s) + 1
      /\ \A i \in 1 .. Len(s) + 1 : r[i] = IF i <= k THEN ae[i] ELSE b[i - k]
  BY <1>0, <1>2, <1>3
<1>5. InsertAt(s, k, e) = r
  BY DEF InsertAt, r, ae, a, b
<1> HIDE DEF r
<1>6. \A i \in 1 .. Len(s) + 1 : r[i] = IF i < k THEN s[i] ELSE IF i = k THEN e ELSE s[i - 1]
  <2> TAKE i \in 1 .. Len(s) + 1
  <2>1. CASE i < k
    <3>1. i \in 1 .. k - 1 /\ i \in 1 .. k /\ i # k /\ i <= k
      BY <1>0, <2>1
    <3> QED BY <1>1, <1>3, <1>4, <2>1, <3>1
  <2>2. CASE i = k
    <3>1. i \in 1 .. k /\ i <= k /\ ~(i < k)
      BY <1>0, <2>2
    <3> QED BY <1>3, <1>4, <2>2, <3>1
  <2>3. CASE i > k
    <3>1. i - k \in 1 .. Len(s) + 1 - k /\ ~(i <= k) /\ (i - k) + k - 1 = i - 1 /\ ~(i < k) /\ i # k
      BY <1>0, <2>3
    <3> QED BY <1>2, <1>4, <3>1
  <2> QED BY <1>0, <2>1, <2>2, <2>3
<1>7. \A x : x \in Range(r) <=> \E i \in 1 .. Len(s) + 1 : r[i] = x
  BY <1>4, RangeIs
<1>8. \A x : x \in Range(s) <=> \E i \in 1 .. Len(s) : s[i] = x
  BY RangeIs
<1>9. Range(r) = Range(s) \cup {e}
  <2>1. ASSUME NEW x \in Range(r) PROVE x \in Range(s) \cup {e}
    <3>1. PICK i \in 1 .. Len(s) + 1 : r[i] = x
      BY <1>7, <2>1
    <3>2. i < k => i \in 1 .. Len(s)
      BY <1>0
    <3>3. ~(i < k) /\ i # k => i - 1 \in 1 .. Len(s)
      BY <1>0
    <3> QED BY <1>6, <1>8, <3>1, <3>2, <3>3
  <2>2. e \in Range(r)
    BY <1>0, <1>6, <1>7
  <2>3. ASSUME NEW x \in Range(s) PROVE x \in Range(r)
    <3>1. PICK i \in 1 .. Len(s) : s[i] = x
      BY <1>8, <2>3
    <3>2. CASE i < k
      BY <1>0, <1>6, <1>7, <3>1, <3>2
    <3>3. CASE ~(i < k)
      <4>1. i + 1 \in 1 .. Len(s) + 1 /\ ~(i + 1 < k) /\ i + 1 # k /\ (i + 1) - 1 = i
        BY <1>0, <3>3
      <4>2. r[i + 1] = s[i]
        BY <1>6, <4>1
      <4> QED BY <1>7, <3>1, <4>1, <4>2
    <3> QED BY <3>2, <3>3
  <2> QED BY <2>1, <2>2, <2>3
<1>10. ASSUME IsInjective(s), e \notin Range(s) PROVE IsInjective(r)
  <2>1. \A i \in 1 .. Len(s) : s[i] # e
    BY <1>8, <1>10
  <2>2. \A i, j \in 1 .. Len(s) : s[i] = s[j] => i = j
    BY <1>10 DEF IsInjective
  <2>3. DOMAIN r = 1 .. Len(s) + 1
    BY <1>4
  <2>4. ASSUME NEW i \in 1 .. Len(s) + 1, NEW j \in 1 .. Len(s) + 1, r[i] = r[j] PROVE i = j
    <3> DEFINE old(n) == IF n < k THEN n ELSE n - 1
    <3>1. \A n \in 1 .. Len(s) + 1 : n # k => old(n) \in 1 .. Len(s) /\ r[n] = s[old(n)]
      BY <1>0, <1>6
    <3>2. r[k] = e /\ k \in 1 .. Len(s) + 1
      BY <1>0, <1>6
    <3>3. i # k /\ j # k => old(i) = old(j)
      <4> HIDE DEF old
      <4> QED BY <2>2, <2>4, <3>1
    <3>4. i = k <=> j = k
      <4> HIDE DEF old
      <4> QED BY <2>1, <2>4, <3>1, <3>2
    <3> QED BY <1>0, <3>3, <3>4
  <2> QED BY <2>3, <2>4 DEF IsInjective
<1>11. Head(r) = IF k = 1 THEN e ELSE Head(s)
  <2>1. Head(r) = r[1] /\ Head(s) = s[1]
    BY <1>0, <1>4
  <2>2. 1 \in 1 .. Len(s) + 1 /\ (1 < k <=> k # 1)
    BY <1>0
  <2> QED BY <1>6, <2>1, <2>2
<1> QED BY <1>4, <1>5, <1>9, <1>10, <1>11

LEMMA InsertPosIs ==
    ASSUME Types, NEW w \in Waiters
    PROVE  InsertPos(w) \in 1 .. Len(wait_head) + 1
<1> DEFINE N == {i \in DOMAIN wait_head : S32(Sub(Thresh(wait_head[i]), Thresh(w))) <= 0}
           S == {0} \cup N
<1>1. Len(wait_head) \in Nat /\ DOMAIN wait_head = 1 .. Len(wait_head)
  BY DEF Types
<1>2. S \subseteq 0 .. Len(wait_head) /\ 0 \in S
  BY <1>1
<1>3. InsertPos(w) = 1 + Max(S)
  BY DEF InsertPos
<1> HIDE DEF S
<1>4. Max(S) \in S
  <2> DEFINE R == {Len(wait_head) - i : i \in S}
  <2>1. R \in SUBSET Nat /\ R # {}
    BY <1>1, <1>2
  <2>2. PICK m \in R : \A j \in R : m <= j
    <3> HIDE DEF R
    <3> QED BY <2>1, LeastElement
  <2>3. PICK i \in S : m = Len(wait_head) - i
    BY <2>2
  <2>4. ASSUME NEW j \in S PROVE i >= j
    <3>1. Len(wait_head) - j \in R
      OBVIOUS
    <3>2. m <= Len(wait_head) - j
      BY <2>2, <3>1
    <3>3. i \in Int /\ j \in Int
      BY <1>1, <1>2
    <3> QED BY <1>1, <2>3, <3>2, <3>3
  <2>5. \E x \in S : \A j \in S : x >= j
    BY <2>4
  <2> QED BY <2>5 DEF Max
<1>5. PICK m \in 0 .. Len(wait_head) : m = Max(S)
  BY <1>2, <1>4
<1> QED BY <1>1, <1>3, <1>5

(* A thread goes on to l and changes its own waiter: everybody else is as  *)
(* before.                                                                 *)
LEMMA OwnStep ==
    ASSUME IntrInv, NEW w \in Waiters, NEW l \in AllPcs, NEW r,
           waiter' = [waiter EXCEPT ![w] = r], pc' = [pc EXCEPT ![w] = l], completed' = completed,
           ~Handling(w), l \notin {"xchg", "put"},
           \A x \in Waiters : x # w => (Linked(x)' <=> Linked(x)) /\ (x \in doomed' <=> x \in doomed)
    PROVE  /\ waiter'[w] = r /\ pc'[w] = l
           /\ \A q \in Procs : q # w => pc'[q] = pc[q] /\ ProcOK(q)'
           /\ \A q \in Procs : InCompleted(q, w)' <=> InCompleted(q, w)
           /\ \A q \in Procs : pc'[q] = "put" <=> pc[q] = "put"
           /\ \A x \in Waiters : x # w => WaiterOK(x)' /\ Weight(x)' = Weight(x)
<1>0. Types /\ BusyInv /\ (\A q \in Procs : ProcOK(q)) /\ (\A x \in Waiters : WaiterOK(x))
  BY DEF IntrInv
<1>1. /\ pc'[w] = l /\ \A q \in Procs : q # w => pc'[q] = pc[q]
      /\ waiter'[w] = r /\ \A x \in Waiters : x # w => waiter'[x] = waiter[x]
  BY <1>0, Names DEF Types
<1>2. ASSUME NEW q \in Procs, q # w PROVE ProcOK(q)'
  BY <1>0, <1>1, <1>2 DEF ProcOK, Handling
<1>3. \A q \in Procs : (Handling(q)' <=> Handling(q)) /\ (pc'[q] = "put" <=> pc[q] = "put")
  BY <1>1, Names DEF Handling
<1>4. \A q \in Procs, x \in Waiters : InCompleted(q, x)' <=> InCompleted(q, x)
  BY DEF InCompleted
<1>5. ASSUME NEW x \in Waiters, x # w PROVE WaiterOK(x)' /\ Weight(x)' = Weight(x)
  <2>1. waiter'[x] = waiter[x] /\ pc'[x] = pc[x] /\ (x \in doomed' <=> x \in doomed)
        /\ (Linked(x)' <=> Linked(x)) /\ (Adding(x)' <=> Adding(x)) /\ waiter'[x].count = waiter[x].count
    BY <1>1, <1>5, Names DEF Adding
  <2>2. WaiterOK(x)'
    BY <1>0, <1>3, <1>4, <2>1, WaiterFrame
  <2>3. Weight(x)' = Weight(x)
    BY <1>3, <1>4, <2>1, WeightFrame
  <2> QED BY <2>2, <2>3
<1> QED BY <1>1, <1>2, <1>3, <1>4, <1>5

LEMMA EnqueueHolders ==
    ASSUME IntrInv, Types', NEW w \in Waiters, Adding(w), Enqueue(w)
    PROVE  Holders'
<1>0. Types /\ BusyInv /\ (\A q \in Procs : ProcOK(q)) /\ (\A x \in Waiters : WaiterOK(x))
  BY DEF IntrInv
<1> DEFINE l == IF w \in WakeWaiters THEN "wait" ELSE "idle"
<1>1. /\ pc' = [pc EXCEPT ![w] = l] /\ waiter' = waiter /\ completed' = completed
      /\ busy' = busy /\ leaks' = leaks /\ doomed' = doomed
  BY DEF Enqueue, Goto
<1>2. l \in AllPcs /\ l \notin {"xchg", "put"} /\ ~Handling(w) /\ w \in Procs /\ pc[w] # "idle"
  BY Names DEF AllPcs, Adding, Handling
<1>3. doomed = {}
  BY <1>2, ActiveHost
<1>4. \A x \in Waiters : Linked(x)' <=> Linked(x) \/ x = w
  <2>1. wait_head' = InsertAt(wait_head, InsertPos(w), w) /\ wait_head \in Seq(Waiters)
    BY <1>0 DEF Enqueue, Types
  <2>2. PICK k \in 1 .. Len(wait_head) + 1 : k = InsertPos(w)
    BY <1>0, InsertPosIs
  <2>3. Range(InsertAt(wait_head, k, w)) = Range(wait_head) \cup {w}
    BY <2>1, InsertIs
  <2> QED BY <2>1, <2>2, <2>3 DEF Linked
<1>5. waiter' = [waiter EXCEPT ![w] = waiter[w]]
  BY <1>0, <1>1 DEF Types
<1> HIDE DEF l
<1>6. /\ waiter'[w] = waiter[w] /\ pc'[w] = l
      /\ \A q \in Procs : q # w => pc'[q] = pc[q] /\ ProcOK(q)'
      /\ \A q \in Procs : InCompleted(q, w)' <=> InCompleted(q, w)
      /\ \A x \in Waiters : x # w => WaiterOK(x)' /\ Weight(x)' = Weight(x)
  BY <1>1, <1>2, <1>4, <1>5, OwnStep
<1>7. AddOK(w) /\ RefOK(w)
  BY <1>0 DEF WaiterOK
<1>8. /\ ~Held(w) /\ State(w) = PENDING /\ waiter[w].count = 1
      /\ \A q \in Procs : ~InCompleted(q, w)
  BY <1>7 DEF AddOK, Held
<1>9. ProcOK(w)'
  <2>1. completed'[w] = << >> /\ IsInjective(completed'[w])
    BY <1>0, <1>1, <1>2 DEF ProcOK, Adding
  <2>2. l = IF w \in WakeWaiters THEN "wait" ELSE "idle"
    BY DEF l
  <2> QED BY <1>6, <2>1, <2>2, Names DEF ProcOK, Handling
<1>10. l = IF w \in WakeWaiters THEN "wait" ELSE "idle"
  BY DEF l
<1>11. ~Adding(w)' /\ ~Held(w)' /\ State(w)' = PENDING /\ waiter'[w].count = 1 /\ Linked(w)'
       /\ \A q \in Procs : ~InCompleted(q, w)'
  BY <1>4, <1>6, <1>8, <1>10 DEF Adding, Held, State
<1>12. WaiterOK(w)'
  <2>1. AddOK(w)' /\ HeldOK(w)' /\ LastOK(w)'
    BY <1>11 DEF AddOK, HeldOK, LastOK
  <2>2. LinkOK(w)'
    BY <1>1, <1>3, <1>6, <1>10, <1>11, Names DEF LinkOK, PENDING, HANDLED, REMOVED
  <2>3. RefOK(w)'
    BY <1>2, <1>6, <1>7, <1>10, <1>11 DEF RefOK, ListRefs, OwnerRefs
  <2> QED BY <2>1, <2>2, <2>3 DEF WaiterOK
<1>13. ASSUME NEW x \in SubmitWaiters PROVE Weight(x)' = Weight(x)
  <2>1. CASE x = w BY <1>11, <2>1 DEF Weight
  <2>2. CASE x # w BY <1>6, <2>2, Names
  <2> QED BY <2>1, <2>2
<1>14. \A x \in WakeWaiters : pc'[x] = "idle" <=> pc[x] = "idle"
  BY <1>2, <1>6, <1>10, Names
<1>15. BusyInv'
  BY <1>0, <1>1, <1>13, <1>14, BusySame
<1> QED BY <1>6, <1>9, <1>12, <1>15 DEF Holders

LEMMA RequestIrqFailsHolders ==
    ASSUME IntrInv, Types', NEW w \in Waiters, RequestIrqFails(w)
    PROVE  Holders'
<1>0. Types /\ BusyInv /\ (\A q \in Procs : ProcOK(q)) /\ (\A x \in Waiters : WaiterOK(x))
  BY DEF IntrInv
<1>1. /\ pc[w] = "request" /\ pc' = [pc EXCEPT ![w] = "idle"] /\ waiter' = [waiter EXCEPT ![w] = Freed]
      /\ completed' = completed /\ wait_head' = wait_head /\ doomed' = doomed
      /\ w \in WakeWaiters => busy' = busy - 1 /\ leaks' = leaks
      /\ w \notin WakeWaiters => busy' = busy /\ leaks' = leaks + 1
  BY DEF RequestIrqFails, Goto
<1>2. Adding(w) /\ "idle" \in AllPcs /\ ~Handling(w) /\ w \in Procs
  BY <1>1, Names DEF AllPcs, Adding, Handling
<1>3. \A x \in Waiters : Linked(x)' <=> Linked(x)
  BY <1>1 DEF Linked
<1>4. /\ waiter'[w] = Freed /\ pc'[w] = "idle"
      /\ \A q \in Procs : q # w => pc'[q] = pc[q] /\ ProcOK(q)'
      /\ \A q \in Procs : InCompleted(q, w)' <=> InCompleted(q, w)
      /\ \A x \in Waiters : x # w => WaiterOK(x)' /\ Weight(x)' = Weight(x)
  BY <1>1, <1>2, <1>3, OwnStep
<1>5. ~Linked(w)' /\ ~Held(w)' /\ ~Adding(w)' /\ \A q \in Procs : ~InCompleted(q, w)'
  BY <1>0, <1>2, <1>3, <1>4 DEF WaiterOK, AddOK, Held, Adding
<1>6. WaiterOK(w)'
  <2>1. AddOK(w)' /\ LinkOK(w)' /\ HeldOK(w)'
    BY <1>5 DEF AddOK, LinkOK, HeldOK
  <2>2. LastOK(w)'
    BY <1>4 DEF LastOK
  <2>3. waiter'[w].refcount = 0
    BY <1>4 DEF Freed
  <2>4. RefOK(w)'
    BY <1>4, <1>5, <2>3 DEF RefOK, ListRefs, OwnerRefs
  <2> QED BY <2>1, <2>2, <2>4 DEF WaiterOK
<1>7. ProcOK(w)'
  <2>1. completed'[w] = << >> /\ IsInjective(completed'[w])
    BY <1>0, <1>1, <1>2 DEF ProcOK
  <2> QED BY <1>4, <2>1, Names DEF ProcOK, Handling
<1>8. BusyInv'
  <2>1. CASE w \in WakeWaiters
    <3>1. \A x \in SubmitWaiters : x # w /\ x \in Waiters
      BY <2>1, Names
    <3>2. \A x \in WakeWaiters : x # w => (pc'[x] = "idle" <=> pc[x] = "idle")
      BY <1>4, Names
    <3> QED BY <1>0, <1>1, <1>4, <2>1, <3>1, <3>2, BusySleeper
  <2>2. CASE w \in SubmitWaiters
    <3>1. Weight(w) = 1
      BY <1>2 DEF Weight
    <3>2. Weight(w)' = 0
      BY <1>5 DEF Weight
    <3>3. \A x \in WakeWaiters : pc'[x] = "idle" <=> pc[x] = "idle"
      BY <1>4, <2>2, Names
    <3>4. w \notin WakeWaiters /\ leaks \in Int /\ busy \in Int
      BY <1>0, <2>2, Names, WeightsType DEF Types
    <3>5. busy' = busy + (leaks' - leaks) + (Weight(w)' - Weight(w))
      BY <1>1, <3>1, <3>2, <3>4
    <3> QED BY <1>0, <1>4, <2>2, <3>3, <3>5, BusyWeight, Names
  <2> QED BY <2>1, <2>2, Names
<1> QED BY <1>4, <1>6, <1>7, <1>8 DEF Holders

-----------------------------------------------------------------------------
(* put_ref *)

(* a place in wait_timeout past add_action is one of a wake-up waiter *)
LEMMA PutRefIsWake ==
    ASSUME IntrInv, NEW w \in Waiters, pc[w] \in {"cancel", "drop"}
    PROVE  /\ w \in WakeWaiters /\ w \in Procs /\ w # Irq /\ doomed = {}
           /\ completed[w] = << >> /\ ~Adding(w) /\ ~Handling(w)
<1>1. ProcOK(w) /\ w \in Procs /\ w # Irq
  BY Names DEF IntrInv
<1>2. doomed = {}
  BY <1>1, ActiveHost
<1> QED BY <1>1, <1>2, Names DEF ProcOK, AddPcs, Adding, Handling

LEMMA RecState ==
    ASSUME NEW x \in WaitRec, NEW n \in PENDING .. HANDLED
    PROVE  LET y == [x EXCEPT !.state = n]
           IN  y \in WaitRec /\ y.state = n /\ y.refcount = x.refcount /\ y.count = x.count
               /\ y.thresh = x.thresh
BY DEF WaitRec

LEMMA RecPut ==
    ASSUME NEW x \in WaitRec, x.refcount # 0
    PROVE  LET y == KrefPut(x)
           IN  /\ y \in WaitRec /\ y.refcount = x.refcount - 1
               /\ x.refcount # 1 => y.state = x.state /\ y.count = x.count /\ y.thresh = x.thresh
               /\ x.refcount = 1 => y = Freed
<1>1. CASE x.refcount = 1
  <2>1. Freed \in WaitRec /\ Freed.refcount = 0
    BY HalfAssumption DEF Freed, WaitRec, PENDING, HANDLED, Word, M
  <2> QED BY <1>1, <2>1 DEF KrefPut
<1>2. CASE x.refcount # 1
  <2>1. x.refcount = 2
    BY <1>2 DEF WaitRec
  <2>2. KrefPut(x) = [x EXCEPT !.refcount = x.refcount - 1]
    BY <1>2 DEF KrefPut
  <2> QED BY <1>2, <2>1, <2>2 DEF WaitRec
<1> QED BY <1>1, <1>2

LEMMA CancelHolders ==
    ASSUME IntrInv, Types', NEW w \in Waiters, Cancel(w)
    PROVE  Holders'
<1>0. Types /\ BusyInv /\ (\A q \in Procs : ProcOK(q)) /\ (\A x \in Waiters : WaiterOK(x))
  BY DEF IntrInv
<1> DEFINE n == IF State(w) = PENDING THEN CANCELLED ELSE State(w)
           r == [waiter[w] EXCEPT !.state = n]
<1>1. /\ pc[w] = "cancel" /\ pc' = [pc EXCEPT ![w] = "read"] /\ waiter' = [waiter EXCEPT ![w] = r]
      /\ completed' = completed /\ wait_head' = wait_head /\ doomed' = doomed /\ State(w) # REMOVED
      /\ busy' = busy /\ leaks' = leaks
  BY <1>0 DEF Cancel, Goto, State, Types
<1>2. w \in WakeWaiters /\ w \in Procs /\ completed[w] = << >> /\ ~Adding(w) /\ ~Handling(w) /\ doomed = {}
  BY <1>1, PutRefIsWake
<1>3. /\ r.state = n /\ r.refcount = waiter[w].refcount /\ r.count = waiter[w].count
  <2>1. waiter[w] \in WaitRec /\ n \in PENDING .. HANDLED
    BY <1>0 DEF Types, WaitRec, State, PENDING, CANCELLED, HANDLED
  <2> QED BY <2>1, RecState
<1> HIDE DEF r
<1>4. \A x \in Waiters : Linked(x)' <=> Linked(x)
  BY <1>1 DEF Linked
<1>5. "read" \in AllPcs
  BY DEF AllPcs, ProcessPcs
<1>6. /\ waiter'[w] = r /\ pc'[w] = "read"
      /\ \A q \in Procs : q # w => pc'[q] = pc[q] /\ ProcOK(q)'
      /\ \A q \in Procs : InCompleted(q, w)' <=> InCompleted(q, w)
      /\ \A q \in Procs : pc'[q] = "put" <=> pc[q] = "put"
      /\ \A x \in Waiters : x # w => WaiterOK(x)' /\ Weight(x)' = Weight(x)
  BY <1>1, <1>2, <1>4, <1>5, OwnStep
<1>7. /\ State(w)' = n /\ waiter'[w].refcount = waiter[w].refcount /\ waiter'[w].count = waiter[w].count
      /\ ~Adding(w)' /\ (Held(w)' <=> Held(w)) /\ w \notin SubmitWaiters
  BY <1>2, <1>3, <1>6, Names DEF State, Adding, Held
<1>8. WaiterOK(w)'
  <2>0. AddOK(w) /\ LinkOK(w) /\ HeldOK(w) /\ LastOK(w) /\ RefOK(w)
    BY <1>0 DEF WaiterOK
  <2>1. AddOK(w)'
    BY <1>7 DEF AddOK
  <2>2. LinkOK(w)'
    <3> SUFFICES ASSUME Linked(w)'
                 PROVE  /\ ~Held(w)' /\ waiter'[w].count = 1
                        /\ State(w)' = HANDLED <=> w \in doomed'
                        /\ State(w)' = PENDING <=> w \in SubmitWaiters \/ pc'[w] \in {"wait", "cancel"}
                        /\ State(w)' # REMOVED
      BY DEF LinkOK
    <3>1. ~Held(w) /\ waiter[w].count = 1 /\ State(w) = PENDING
      BY <1>1, <1>4, <2>0 DEF LinkOK
    <3>2. n = CANCELLED
      BY <3>1
    <3> QED BY <1>1, <1>2, <1>6, <1>7, <3>1, <3>2 DEF CANCELLED, PENDING, HANDLED, REMOVED
  <2>3. HeldOK(w)'
    <3> SUFFICES ASSUME NEW p \in Procs, InCompleted(p, w)'
                 PROVE  /\ \A q \in Procs : InCompleted(q, w)' => q = p
                        /\ IF pc'[p] = "put" /\ w = Head(completed'[p])
                           THEN State(w)' = HANDLED
                           ELSE State(w)' = REMOVED /\ (w \in WakeWaiters => pc'[w] \in {"wait", "cancel"})
      BY DEF HeldOK
    <3>1. InCompleted(p, w)
      BY <1>6
    <3>2. \A q \in Procs : InCompleted(q, w) => q = p
      BY <2>0, <3>1 DEF HeldOK
    <3>3. pc[p] = "put" /\ w = Head(completed[p]) /\ State(w) = HANDLED
      BY <1>1, <2>0, <3>1 DEF HeldOK
    <3>4. n = HANDLED
      BY <3>3 DEF HANDLED, PENDING
    <3> QED BY <1>1, <1>6, <1>7, <3>2, <3>3, <3>4
  <2>4. LastOK(w)'
    <3>1. ASSUME ~Linked(w), ~Held(w) PROVE n = HANDLED
      BY <1>1, <1>2, <2>0, <3>1 DEF LastOK, HANDLED, PENDING
    <3> QED BY <1>4, <1>7, <3>1 DEF LastOK
  <2>5. RefOK(w)'
    BY <1>1, <1>2, <1>4, <1>6, <1>7, <2>0 DEF RefOK, ListRefs, OwnerRefs
  <2> QED BY <2>1, <2>2, <2>3, <2>4, <2>5 DEF WaiterOK
<1>9. ProcOK(w)'
  <2>1. completed'[w] = << >> /\ IsInjective(completed'[w])
    BY <1>0, <1>1, <1>2 DEF ProcOK
  <2> QED BY <1>2, <1>6, <1>7, <2>1, Names DEF ProcOK, Handling
<1>10. BusyInv'
  <2>1. \A x \in SubmitWaiters : Weight(x)' = Weight(x)
    BY <1>6, <1>7, Names
  <2>2. \A x \in WakeWaiters : pc'[x] = "idle" <=> pc[x] = "idle"
    BY <1>1, <1>6, Names
  <2> QED BY <1>0, <1>1, <2>1, <2>2, BusySame
<1> QED BY <1>6, <1>8, <1>9, <1>10 DEF Holders

LEMMA DropRefHolders ==
    ASSUME IntrInv, Types', NEW w \in Waiters, DropRef(w)
    PROVE  Holders'
<1>0. Types /\ BusyInv /\ (\A q \in Procs : ProcOK(q)) /\ (\A x \in Waiters : WaiterOK(x))
  BY DEF IntrInv
<1> DEFINE r == KrefPut(waiter[w])
<1>1. /\ pc[w] = "drop" /\ pc' = [pc EXCEPT ![w] = "idle"] /\ waiter' = [waiter EXCEPT ![w] = r]
      /\ completed' = completed /\ wait_head' = wait_head /\ doomed' = doomed
      /\ busy' = busy - 1 /\ leaks' = leaks
  BY <1>0 DEF DropRef, Goto, Types
<1>2. w \in WakeWaiters /\ w \in Procs /\ completed[w] = << >> /\ ~Adding(w) /\ ~Handling(w) /\ doomed = {}
  BY <1>1, PutRefIsWake
<1>3. AddOK(w) /\ LinkOK(w) /\ HeldOK(w) /\ LastOK(w) /\ RefOK(w)
  BY <1>0 DEF WaiterOK
<1>4. waiter[w].refcount = IF Linked(w) \/ Held(w) THEN 2 ELSE 1
  BY <1>1, <1>2, <1>3 DEF RefOK, ListRefs, OwnerRefs, Held
<1>5. /\ r.refcount = IF Linked(w) \/ Held(w) THEN 1 ELSE 0
      /\ Linked(w) \/ Held(w) => r.state = State(w) /\ r.count = waiter[w].count
  <2>1. waiter[w] \in WaitRec /\ waiter[w].refcount # 0
    BY <1>0, <1>4 DEF Types
  <2>2. /\ r.refcount = waiter[w].refcount - 1
        /\ waiter[w].refcount # 1 => r.state = waiter[w].state /\ r.count = waiter[w].count
    BY <2>1, RecPut
  <2> QED BY <1>4, <2>2 DEF State
<1> HIDE DEF r
<1>6. \A x \in Waiters : Linked(x)' <=> Linked(x)
  BY <1>1 DEF Linked
<1>7. "idle" \in AllPcs
  BY DEF AllPcs
<1>8. /\ waiter'[w] = r /\ pc'[w] = "idle"
      /\ \A q \in Procs : q # w => pc'[q] = pc[q] /\ ProcOK(q)'
      /\ \A q \in Procs : InCompleted(q, w)' <=> InCompleted(q, w)
      /\ \A q \in Procs : pc'[q] = "put" <=> pc[q] = "put"
      /\ \A x \in Waiters : x # w => WaiterOK(x)' /\ Weight(x)' = Weight(x)
  BY <1>1, <1>2, <1>6, <1>7, OwnStep
<1>9. /\ State(w)' = r.state /\ waiter'[w].refcount = r.refcount /\ waiter'[w].count = r.count
      /\ ~Adding(w)' /\ (Held(w)' <=> Held(w)) /\ w \notin SubmitWaiters
  BY <1>2, <1>8, Names DEF State, Adding, Held
<1>10. WaiterOK(w)'
  <2>1. AddOK(w)' /\ LastOK(w)'
    BY <1>8, <1>9 DEF AddOK, LastOK
  <2>2. LinkOK(w)'
    BY <1>1, <1>3, <1>5, <1>6, <1>8, <1>9 DEF LinkOK
  <2>3. HeldOK(w)'
    <3> SUFFICES ASSUME NEW p \in Procs, InCompleted(p, w)'
                 PROVE  /\ \A q \in Procs : InCompleted(q, w)' => q = p
                        /\ pc'[p] = "put" /\ w = Head(completed'[p]) /\ State(w)' = HANDLED
      BY DEF HeldOK
    <3>1. InCompleted(p, w) /\ Held(w)
      BY <1>8 DEF Held
    <3>2. \A q \in Procs : InCompleted(q, w) => q = p
      BY <1>3, <3>1 DEF HeldOK
    <3>3. pc[p] = "put" /\ w = Head(completed[p]) /\ State(w) = HANDLED
      BY <1>1, <1>2, <1>3, <3>1 DEF HeldOK
    <3> QED BY <1>1, <1>5, <1>8, <1>9, <3>1, <3>2, <3>3
  <2>4. RefOK(w)'
    <3>1. ListRefs(w)' = IF Linked(w) \/ Held(w) THEN 1 ELSE 0
      BY <1>6, <1>9 DEF ListRefs, Held
    <3>2. OwnerRefs(w)' = 0
      BY <1>8 DEF OwnerRefs
    <3> QED BY <1>5, <1>9, <3>1, <3>2 DEF RefOK
  <2> QED BY <2>1, <2>2, <2>3, <2>4 DEF WaiterOK
<1>11. ProcOK(w)'
  <2>1. completed'[w] = << >> /\ IsInjective(completed'[w])
    BY <1>0, <1>1, <1>2 DEF ProcOK
  <2> QED BY <1>2, <1>8, <1>9, <2>1, Names DEF ProcOK, Handling
<1>12. BusyInv'
  <2>1. \A x \in SubmitWaiters : Weight(x)' = Weight(x)
    BY <1>8, <1>9, Names
  <2>2. \A x \in WakeWaiters : x # w => (pc'[x] = "idle" <=> pc[x] = "idle")
    BY <1>8, Names
  <2> QED BY <1>0, <1>1, <1>2, <1>8, <2>1, <2>2, BusySleeper
<1> QED BY <1>8, <1>10, <1>11, <1>12 DEF Holders

-----------------------------------------------------------------------------
(* run_handlers *)

(* What is known of the first waiter on a list that is being worked on. *)
LEMMA HeadIs ==
    ASSUME IntrInv, NEW p \in Procs, completed[p] # << >>
    PROVE  LET w == Head(completed[p])
           IN  /\ w \in Waiters /\ InCompleted(p, w) /\ Held(w) /\ ~Adding(w) /\ ~Linked(w)
               /\ \A q \in Procs : InCompleted(q, w) => q = p
               /\ pc[p] \in {"run", "xchg", "put"} /\ doomed = {}
               /\ p \notin SubmitWaiters
               /\ pc[p] # "put" => State(w) = REMOVED
               /\ pc[p] = "put" => State(w) = HANDLED
<1>0. Types /\ ProcOK(p) /\ (\A x \in Waiters : WaiterOK(x))
  BY DEF IntrInv
<1>1. completed[p] \in Seq(Waiters)
  BY <1>0 DEF Types
<1>2. PICK s \in Seq(Waiters) : s = completed[p]
  BY <1>1
<1>3. 1 \in 1 .. Len(s) /\ Head(s) = s[1] /\ s[1] \in Waiters
  BY <1>2
<1>4. Head(s) \in Range(s)
  BY <1>3, RangeIs
<1>5. PICK w \in Waiters : w = Head(completed[p])
  BY <1>2, <1>3
<1>6. InCompleted(p, w) /\ Held(w)
  BY <1>2, <1>4, <1>5 DEF InCompleted, Held
<1>7. AddOK(w) /\ LinkOK(w) /\ HeldOK(w)
  BY <1>0 DEF WaiterOK
<1>8. ~Adding(w) /\ ~Linked(w)
  BY <1>6, <1>7 DEF AddOK, LinkOK
<1>9. /\ \A q \in Procs : InCompleted(q, w) => q = p
      /\ pc[p] # "put" => State(w) = REMOVED
      /\ pc[p] = "put" => State(w) = HANDLED
  BY <1>5, <1>6, <1>7 DEF HeldOK
<1>10. pc[p] \in {"run", "xchg", "put"}
  BY <1>0 DEF ProcOK
<1>11. doomed = {} /\ p \notin SubmitWaiters
  BY <1>0, <1>10, ActiveHost DEF ProcOK, AddPcs
<1> QED BY <1>5, <1>6, <1>8, <1>9, <1>10, <1>11

(* A process works on the first waiter of its list: the others are as      *)
(* before.                                                                 *)
LEMMA HandlerStep ==
    ASSUME IntrInv, NEW p \in Procs, completed[p] # << >>, NEW l \in {"run", "xchg", "put"},
           pc' = [pc EXCEPT ![p] = l], wait_head' = wait_head, doomed' = doomed,
           completed' = completed \/ l = "run",
           NEW w \in Waiters, w = Head(completed[p]),
           \A x \in Waiters : x # w => waiter'[x] = waiter[x],
           \A q \in Procs : q # p => completed'[q] = completed[q],
           \A x \in Waiters : x # w => (InCompleted(p, x)' <=> InCompleted(p, x))
    PROVE  /\ pc'[p] = l /\ \A q \in Procs : q # p => pc'[q] = pc[q] /\ ProcOK(q)'
           /\ \A x \in Waiters : (Linked(x)' <=> Linked(x)) /\ (Adding(x)' <=> Adding(x))
                                 /\ (pc'[x] = "idle" <=> pc[x] = "idle")
                                 /\ (pc'[x] \in {"wait", "cancel"} <=> pc[x] \in {"wait", "cancel"})
           /\ \A x \in Waiters : x # w => WaiterOK(x)' /\ Weight(x)' = Weight(x)
<1>0. Types /\ (\A q \in Procs : ProcOK(q)) /\ (\A x \in Waiters : WaiterOK(x))
  BY DEF IntrInv
<1>1. pc'[p] = l /\ \A q \in Procs : q # p => pc'[q] = pc[q]
  BY <1>0 DEF Types
<1>2. pc[p] \in {"run", "xchg", "put"}
  BY <1>0 DEF ProcOK
<1>3. ASSUME NEW q \in Procs, q # p PROVE ProcOK(q)'
  BY <1>0, <1>1, <1>3 DEF ProcOK, Handling
<1>4. ASSUME NEW x \in Waiters
      PROVE  (Linked(x)' <=> Linked(x)) /\ (Adding(x)' <=> Adding(x))
             /\ (pc'[x] = "idle" <=> pc[x] = "idle")
             /\ (pc'[x] \in {"wait", "cancel"} <=> pc[x] \in {"wait", "cancel"})
  BY <1>1, <1>2, Names DEF Linked, Adding
<1>5. ASSUME NEW x \in Waiters, x # w PROVE WaiterOK(x)' /\ Weight(x)' = Weight(x)
  <2>1. waiter'[x] = waiter[x] /\ waiter'[x].count = waiter[x].count /\ (x \in doomed' <=> x \in doomed)
    BY <1>5
  <2>2. \A q \in Procs : InCompleted(q, x)' <=> InCompleted(q, x)
    BY <1>5 DEF InCompleted
  <2>3. ~(Handling(p) /\ x = Head(completed[p])) /\ ~(Handling(p)' /\ x = Head(completed'[p]))
    <3>1. l = "run" => ~Handling(p)'
      BY <1>1 DEF Handling
    <3> QED BY <1>5, <3>1
  <2>4. \A q \in Procs : InCompleted(q, x) =>
            (Handling(q)' /\ x = Head(completed'[q]) <=> Handling(q) /\ x = Head(completed[q]))
    <3> SUFFICES ASSUME NEW q \in Procs
                 PROVE  Handling(q)' /\ x = Head(completed'[q]) <=> Handling(q) /\ x = Head(completed[q])
      OBVIOUS
    <3>1. CASE q = p BY <2>3, <3>1
    <3>2. CASE q # p BY <1>1, <3>2 DEF Handling
    <3> QED BY <3>1, <3>2
  <2>5. \A q \in Procs : InCompleted(q, x) =>
            (pc'[q] = "put" /\ x = Head(completed'[q]) <=> pc[q] = "put" /\ x = Head(completed[q]))
    <3> SUFFICES ASSUME NEW q \in Procs
                 PROVE  pc'[q] = "put" /\ x = Head(completed'[q]) <=> pc[q] = "put" /\ x = Head(completed[q])
      OBVIOUS
    <3>1. CASE q = p BY <2>3, <3>1 DEF Handling
    <3>2. CASE q # p BY <1>1, <3>2
    <3> QED BY <3>1, <3>2
  <2>6. WaiterOK(x)'
    BY <1>0, <1>4, <2>1, <2>2, <2>5, WaiterFrame
  <2>7. Weight(x)' = Weight(x)
    BY <1>4, <2>1, <2>2, <2>4, WeightFrame
  <2> QED BY <2>6, <2>7
<1> QED BY <1>1, <1>3, <1>4, <1>5

LEMMA RunHandlerHolders ==
    ASSUME IntrInv, Types', NEW p \in Procs, RunHandler(p)
    PROVE  Holders'
<1>0. Types /\ BusyInv /\ (\A q \in Procs : ProcOK(q)) /\ (\A x \in Waiters : WaiterOK(x))
  BY DEF IntrInv
<1>1. /\ pc[p] = "run" /\ completed[p] # << >> /\ pc' = [pc EXCEPT ![p] = "xchg"] /\ waiter' = waiter
      /\ completed' = completed /\ wait_head' = wait_head /\ doomed' = doomed /\ leaks' = leaks
      /\ busy' = IF Head(completed[p]) \in SubmitWaiters
                 THEN busy - waiter[Head(completed[p])].count ELSE busy
  BY DEF RunHandler, Goto
<1>2. PICK w \in Waiters : w = Head(completed[p])
  BY <1>1, HeadIs
<1>3. /\ InCompleted(p, w) /\ ~Adding(w) /\ ~Linked(w) /\ p \notin SubmitWaiters
      /\ \A q \in Procs : InCompleted(q, w) => q = p
  BY <1>1, <1>2, HeadIs
<1>4. \A q \in Procs, x \in Waiters : InCompleted(q, x)' <=> InCompleted(q, x)
  BY <1>1 DEF InCompleted
<1>5. /\ pc'[p] = "xchg" /\ \A q \in Procs : q # p => pc'[q] = pc[q] /\ ProcOK(q)'
      /\ \A x \in Waiters : (Linked(x)' <=> Linked(x)) /\ (Adding(x)' <=> Adding(x))
                            /\ (pc'[x] = "idle" <=> pc[x] = "idle")
                            /\ (pc'[x] \in {"wait", "cancel"} <=> pc[x] \in {"wait", "cancel"})
      /\ \A x \in Waiters : x # w => WaiterOK(x)' /\ Weight(x)' = Weight(x)
  BY <1>1, <1>2, <1>4, HandlerStep
<1>6. WaiterOK(w)'
  <2>1. waiter'[w] = waiter[w] /\ (w \in doomed' <=> w \in doomed)
    BY <1>1
  <2>2. \A q \in Procs : InCompleted(q, w) =>
            (pc'[q] = "put" /\ w = Head(completed'[q]) <=> pc[q] = "put" /\ w = Head(completed[q]))
    BY <1>1, <1>3, <1>5
  <2> QED BY <1>0, <1>4, <1>5, <2>1, <2>2, WaiterFrame
<1>7. ProcOK(p)'
  BY <1>0, <1>1, <1>3, <1>5 DEF ProcOK, Handling, ProcessPcs
<1>8. BusyInv'
  <2>1. \A x \in WakeWaiters : pc'[x] = "idle" <=> pc[x] = "idle"
    BY <1>5, Names
  <2>2. CASE w \in SubmitWaiters
    <3>1. Weight(w) = waiter[w].count
      <4>1. ~Handling(p)
        BY <1>1 DEF Handling
      <4> QED BY <1>3, <4>1 DEF Weight
    <3>2. Weight(w)' = 0
      <4>1. Handling(p)' /\ w = Head(completed'[p])
        BY <1>1, <1>2, <1>5 DEF Handling
      <4>2. ~\E q \in Procs : InCompleted(q, w)' /\ ~(Handling(q)' /\ w = Head(completed'[q]))
        BY <1>3, <1>4, <4>1
      <4> QED BY <1>3, <1>5, <4>2 DEF Weight
    <3>3. waiter[w].count \in Int /\ leaks \in Int /\ busy \in Int
      BY <1>0, WeightsType DEF Types, WaitRec
    <3>4. busy' = busy + (leaks' - leaks) + (Weight(w)' - Weight(w))
      BY <1>1, <1>2, <2>2, <3>1, <3>2, <3>3
    <3> QED BY <1>0, <1>5, <2>1, <2>2, <3>4, BusyWeight, Names
  <2>3. CASE w \notin SubmitWaiters
    <3>1. \A x \in SubmitWaiters : Weight(x)' = Weight(x)
      BY <1>5, <2>3, Names
    <3> QED BY <1>0, <1>1, <1>2, <2>1, <2>3, <3>1, BusySame
  <2> QED BY <2>2, <2>3
<1> QED BY <1>5, <1>6, <1>7, <1>8 DEF Holders

LEMMA MarkHandledHolders ==
    ASSUME IntrInv, Types', NEW p \in Procs, MarkHandled(p)
    PROVE  Holders'
<1>0. Types /\ BusyInv /\ (\A q \in Procs : ProcOK(q)) /\ (\A x \in Waiters : WaiterOK(x))
  BY DEF IntrInv
<1>1. /\ pc[p] = "xchg" /\ pc' = [pc EXCEPT ![p] = "put"]
      /\ waiter' = [waiter EXCEPT ![Head(completed[p])].state = HANDLED]
      /\ completed' = completed /\ wait_head' = wait_head /\ doomed' = doomed /\ leaks' = leaks
      /\ busy' = busy
  BY DEF MarkHandled, Goto
<1>2. completed[p] # << >>
  BY <1>0, <1>1 DEF ProcOK, Handling
<1>3. PICK w \in Waiters : w = Head(completed[p])
  BY <1>2, HeadIs
<1>4. /\ InCompleted(p, w) /\ ~Adding(w) /\ ~Linked(w) /\ p \notin SubmitWaiters /\ Held(w)
      /\ \A q \in Procs : InCompleted(q, w) => q = p
  BY <1>2, <1>3, HeadIs
<1>5. /\ waiter'[w].state = HANDLED /\ waiter'[w].count = waiter[w].count
      /\ waiter'[w].refcount = waiter[w].refcount
      /\ \A x \in Waiters : x # w => waiter'[x] = waiter[x]
  <2>1. waiter' = [waiter EXCEPT ![w] = [waiter[w] EXCEPT !.state = HANDLED]]
    BY <1>0, <1>1, <1>3 DEF Types
  <2>2. waiter'[w] = [waiter[w] EXCEPT !.state = HANDLED] /\ waiter[w] \in WaitRec
        /\ \A x \in Waiters : x # w => waiter'[x] = waiter[x]
    BY <1>0, <2>1 DEF Types
  <2>3. HANDLED \in PENDING .. HANDLED
    BY DEF PENDING, HANDLED
  <2> QED BY <2>2, <2>3, RecState
<1>6. \A q \in Procs, x \in Waiters : InCompleted(q, x)' <=> InCompleted(q, x)
  BY <1>1 DEF InCompleted
<1>7. /\ pc'[p] = "put" /\ \A q \in Procs : q # p => pc'[q] = pc[q] /\ ProcOK(q)'
      /\ \A x \in Waiters : (Linked(x)' <=> Linked(x)) /\ (Adding(x)' <=> Adding(x))
                            /\ (pc'[x] = "idle" <=> pc[x] = "idle")
                            /\ (pc'[x] \in {"wait", "cancel"} <=> pc[x] \in {"wait", "cancel"})
      /\ \A x \in Waiters : x # w => WaiterOK(x)' /\ Weight(x)' = Weight(x)
  BY <1>1, <1>2, <1>3, <1>5, <1>6, HandlerStep
<1>8. WaiterOK(w)'
  <2>1. ~Adding(w)' /\ ~Linked(w)' /\ Held(w)' /\ State(w)' = HANDLED
        /\ pc'[p] = "put" /\ w = Head(completed'[p])
    BY <1>1, <1>3, <1>4, <1>5, <1>6, <1>7 DEF State, Held
  <2>2. AddOK(w)' /\ LinkOK(w)' /\ LastOK(w)'
    BY <2>1 DEF AddOK, LinkOK, LastOK
  <2>3. HeldOK(w)'
    BY <1>4, <1>6, <2>1 DEF HeldOK
  <2>4. RefOK(w)'
    BY <1>0, <1>4, <1>5, <1>6, <1>7 DEF WaiterOK, RefOK, ListRefs, OwnerRefs
  <2> QED BY <2>2, <2>3, <2>4 DEF WaiterOK
<1>9. ProcOK(p)'
  BY <1>0, <1>1, <1>2, <1>4, <1>7 DEF ProcOK, Handling, ProcessPcs
<1>10. BusyInv'
  <2>1. \A x \in WakeWaiters : pc'[x] = "idle" <=> pc[x] = "idle"
    BY <1>7, Names
  <2>2. Weight(w)' = Weight(w)
    <3>1. \A q \in Procs : InCompleted(q, w) =>
              (Handling(q)' /\ w = Head(completed'[q]) <=> Handling(q) /\ w = Head(completed[q]))
      BY <1>1, <1>3, <1>4, <1>7 DEF Handling
    <3>2. (Adding(w)' <=> Adding(w)) /\ (Linked(w)' <=> Linked(w)) /\ waiter'[w].count = waiter[w].count
      BY <1>5, <1>7
    <3> QED BY <1>6, <3>1, <3>2, WeightFrame
  <2>3. \A x \in SubmitWaiters : Weight(x)' = Weight(x)
    BY <1>7, <2>2, Names
  <2> QED BY <1>0, <1>1, <2>1, <2>3, BusySame
<1> QED BY <1>7, <1>8, <1>9, <1>10 DEF Holders

LEMMA TailIs ==
    ASSUME NEW T, NEW s \in Seq(T), s # << >>, IsInjective(s)
    PROVE  /\ Tail(s) \in Seq(T) /\ IsInjective(Tail(s))
           /\ Range(Tail(s)) = Range(s) \ {Head(s)}
<1> DEFINE t == Tail(s)
<1>1. t \in Seq(T) /\ Len(t) = Len(s) - 1 /\ Len(s) \in Nat \ {0} /\ Head(s) = s[1]
      /\ \A i \in 1 .. Len(s) - 1 : t[i] = s[i + 1]
  OBVIOUS
<1>2. DOMAIN t = 1 .. Len(s) - 1 /\ DOMAIN s = 1 .. Len(s)
  BY <1>1
<1> HIDE DEF t
<1>3. \A i, j \in 1 .. Len(s) : s[i] = s[j] => i = j
  BY <1>2 DEF IsInjective
<1>4. IsInjective(t)
  <2> SUFFICES ASSUME NEW i \in 1 .. Len(s) - 1, NEW j \in 1 .. Len(s) - 1, t[i] = t[j] PROVE i = j
    BY <1>2 DEF IsInjective
  <2>1. i + 1 \in 1 .. Len(s) /\ j + 1 \in 1 .. Len(s) /\ s[i + 1] = s[j + 1]
    BY <1>1
  <2>2. i + 1 = j + 1
    BY <1>3, <2>1
  <2> QED BY <1>1, <2>2
<1>5. \A x : x \in Range(t) <=> \E i \in 1 .. Len(s) - 1 : t[i] = x
  BY <1>1, RangeIs
<1>6. \A x : x \in Range(s) <=> \E i \in 1 .. Len(s) : s[i] = x
  BY RangeIs
<1>7. Range(t) = Range(s) \ {Head(s)}
  <2>1. ASSUME NEW x \in Range(t) PROVE x \in Range(s) /\ x # Head(s)
    <3>1. PICK i \in 1 .. Len(s) - 1 : t[i] = x
      BY <1>5, <2>1
    <3>2. i + 1 \in 1 .. Len(s) /\ 1 \in 1 .. Len(s) /\ i + 1 # 1 /\ s[i + 1] = x
      BY <1>1, <3>1
    <3> QED BY <1>1, <1>3, <1>6, <3>2
  <2>2. ASSUME NEW x \in Range(s), x # Head(s) PROVE x \in Range(t)
    <3>1. PICK i \in 1 .. Len(s) : s[i] = x
      BY <1>6, <2>2
    <3>2. i - 1 \in 1 .. Len(s) - 1 /\ (i - 1) + 1 = i
      BY <1>1, <2>2, <3>1
    <3>3. t[i - 1] = x
      BY <1>1, <3>1, <3>2
    <3> QED BY <1>5, <3>2, <3>3
  <2> QED BY <2>1, <2>2
<1> QED BY <1>1, <1>4, <1>7 DEF t

LEMMA PutHandledHolders ==
    ASSUME IntrInv, Types', NEW p \in Procs, PutHandled(p)
    PROVE  Holders'
<1>0. Types /\ BusyInv /\ (\A q \in Procs : ProcOK(q)) /\ (\A x \in Waiters : WaiterOK(x))
  BY DEF IntrInv
<1>1. /\ pc[p] = "put" /\ pc' = [pc EXCEPT ![p] = "run"]
      /\ waiter' = [waiter EXCEPT ![Head(completed[p])] = KrefPut(waiter[Head(completed[p])])]
      /\ completed' = [completed EXCEPT ![p] = Tail(completed[p])]
      /\ wait_head' = wait_head /\ doomed' = doomed /\ leaks' = leaks
      /\ busy' = busy
  BY DEF PutHandled, Goto
<1>2. completed[p] # << >>
  BY <1>0, <1>1 DEF ProcOK, Handling
<1>3. PICK w \in Waiters : w = Head(completed[p])
  BY <1>2, HeadIs
<1>4. /\ InCompleted(p, w) /\ ~Adding(w) /\ ~Linked(w) /\ p \notin SubmitWaiters /\ Held(w)
      /\ State(w) = HANDLED
      /\ \A q \in Procs : InCompleted(q, w) => q = p
  BY <1>1, <1>2, <1>3, HeadIs
<1>5. /\ waiter'[w] = KrefPut(waiter[w]) /\ waiter[w] \in WaitRec
      /\ \A x \in Waiters : x # w => waiter'[x] = waiter[x]
  BY <1>0, <1>1, <1>3 DEF Types
<1>6. /\ completed'[p] = Tail(completed[p])
      /\ \A q \in Procs : q # p => completed'[q] = completed[q]
  BY <1>0, <1>1 DEF Types
<1>7. /\ IsInjective(completed'[p])
      /\ \A x \in Waiters : InCompleted(p, x)' <=> InCompleted(p, x) /\ x # w
  <2>1. completed[p] \in Seq(Waiters) /\ IsInjective(completed[p])
    BY <1>0 DEF Types, ProcOK
  <2>2. PICK s \in Seq(Waiters) : s = completed[p]
    BY <2>1
  <2>3. IsInjective(Tail(s)) /\ Range(Tail(s)) = Range(s) \ {Head(s)}
    BY <1>2, <2>1, <2>2, TailIs
  <2> QED BY <1>3, <1>6, <2>2, <2>3 DEF InCompleted
<1>8. /\ pc'[p] = "run" /\ \A q \in Procs : q # p => pc'[q] = pc[q] /\ ProcOK(q)'
      /\ \A x \in Waiters : (Linked(x)' <=> Linked(x)) /\ (Adding(x)' <=> Adding(x))
                            /\ (pc'[x] = "idle" <=> pc[x] = "idle")
                            /\ (pc'[x] \in {"wait", "cancel"} <=> pc[x] \in {"wait", "cancel"})
      /\ \A x \in Waiters : x # w => WaiterOK(x)' /\ Weight(x)' = Weight(x)
  <2>1. /\ completed[p] # << >> /\ "run" \in {"run", "xchg", "put"} /\ w = Head(completed[p])
        /\ pc' = [pc EXCEPT ![p] = "run"] /\ wait_head' = wait_head /\ doomed' = doomed
        /\ \A x \in Waiters : x # w => waiter'[x] = waiter[x]
        /\ \A q \in Procs : q # p => completed'[q] = completed[q]
        /\ \A x \in Waiters : x # w => (InCompleted(p, x)' <=> InCompleted(p, x))
    BY <1>1, <1>2, <1>3, <1>5, <1>6, <1>7
  <2> QED BY <2>1, HandlerStep
<1>9. \A q \in Procs : ~InCompleted(q, w)'
  <2> SUFFICES ASSUME NEW q \in Procs PROVE ~InCompleted(q, w)'
    OBVIOUS
  <2>1. CASE q = p BY <1>7, <2>1
  <2>2. CASE q # p BY <1>4, <1>6, <2>2 DEF InCompleted
  <2> QED BY <2>1, <2>2
<1>10. WaiterOK(w)'
  <2>1. ~Adding(w)' /\ ~Linked(w)' /\ ~Held(w)'
    BY <1>4, <1>8, <1>9 DEF Held
  <2>2. waiter[w].refcount = 1 + OwnerRefs(w)
    BY <1>0, <1>4 DEF WaiterOK, RefOK, ListRefs
  <2>3. OwnerRefs(w)' = OwnerRefs(w) /\ OwnerRefs(w) \in {0, 1}
    BY <1>8 DEF OwnerRefs
  <2>4. /\ waiter'[w].refcount = OwnerRefs(w)
        /\ OwnerRefs(w) = 1 => State(w)' = HANDLED
    <3>1. waiter[w].refcount # 0
      BY <2>2, <2>3
    <3>2. /\ waiter'[w].refcount = waiter[w].refcount - 1
          /\ waiter[w].refcount # 1 => waiter'[w].state = waiter[w].state
      BY <1>5, <3>1, RecPut
    <3> QED BY <1>4, <2>2, <2>3, <3>2 DEF State
  <2>5. AddOK(w)' /\ LinkOK(w)' /\ HeldOK(w)'
    BY <1>9, <2>1 DEF AddOK, LinkOK, HeldOK
  <2>6. LastOK(w)'
    BY <1>8, <2>4 DEF LastOK, OwnerRefs
  <2>7. RefOK(w)'
    <3>1. ListRefs(w)' = 0
      BY <1>9, <2>1 DEF ListRefs
    <3> QED BY <2>3, <2>4, <3>1 DEF RefOK
  <2> QED BY <2>5, <2>6, <2>7 DEF WaiterOK
<1>11. ProcOK(p)'
  BY <1>0, <1>1, <1>4, <1>7, <1>8 DEF ProcOK, Handling, ProcessPcs
<1>12. BusyInv'
  <2>1. \A x \in WakeWaiters : pc'[x] = "idle" <=> pc[x] = "idle"
    BY <1>8, Names
  <2>2. Weight(w)' = 0
    BY <1>4, <1>8, <1>9 DEF Weight
  <2>3. Weight(w) = 0
    <3>1. Handling(p)
      BY <1>1 DEF Handling
    <3>2. ~\E q \in Procs : InCompleted(q, w) /\ ~(Handling(q) /\ w = Head(completed[q]))
      BY <1>3, <1>4, <3>1
    <3> QED BY <1>4, <3>2 DEF Weight
  <2>4. \A x \in SubmitWaiters : Weight(x)' = Weight(x)
    BY <1>8, <2>2, <2>3, Names
  <2> QED BY <1>0, <1>1, <2>1, <2>4, BusySame
<1> QED BY <1>8, <1>10, <1>11, <1>12 DEF Holders

-----------------------------------------------------------------------------
(* nvhost_intr_stop *)

LEMMA StopMarkHolders ==
    ASSUME IntrInv, Types', NEW w \in Waiters, StopMark(w)
    PROVE  Holders'
<1>0. Types /\ BusyInv /\ (\A q \in Procs : ProcOK(q)) /\ (\A x \in Waiters : WaiterOK(x))
  BY DEF IntrInv
<1>1. /\ doomed = {} /\ Linked(w) /\ State(w) = CANCELLED
      /\ waiter' = [waiter EXCEPT ![w] = [waiter[w] EXCEPT !.state = HANDLED]]
      /\ doomed' = {w} /\ wait_head' = wait_head /\ pc' = pc /\ completed' = completed
      /\ busy' = busy /\ leaks' = leaks
  BY <1>0 DEF StopMark, pvars, Types
<1>2. /\ State(w)' = HANDLED /\ waiter'[w].count = waiter[w].count
      /\ waiter'[w].refcount = waiter[w].refcount
      /\ \A x \in Waiters : x # w => waiter'[x] = waiter[x]
  <2>1. waiter'[w] = [waiter[w] EXCEPT !.state = HANDLED] /\ waiter[w] \in WaitRec
        /\ \A x \in Waiters : x # w => waiter'[x] = waiter[x]
    BY <1>0, <1>1 DEF Types
  <2>2. HANDLED \in PENDING .. HANDLED
    BY DEF PENDING, HANDLED
  <2> QED BY <2>1, <2>2, RecState DEF State
<1>3. ASSUME NEW q \in Procs PROVE ProcOK(q)'
  BY <1>0, <1>1 DEF ProcOK, Handling
<1>4. ASSUME NEW x \in Waiters
      PROVE  /\ (Linked(x)' <=> Linked(x)) /\ (Adding(x)' <=> Adding(x))
             /\ \A q \in Procs : InCompleted(q, x)' <=> InCompleted(q, x)
             /\ \A q \in Procs : Handling(q)' <=> Handling(q)
             /\ waiter'[x].count = waiter[x].count
  BY <1>1, <1>2 DEF Linked, Adding, InCompleted, Handling
<1>5. ASSUME NEW x \in Waiters, x # w PROVE WaiterOK(x)'
  <2>1. waiter'[x] = waiter[x] /\ (x \in doomed' <=> x \in doomed)
    BY <1>1, <1>2, <1>5
  <2> QED BY <1>0, <1>1, <1>4, <2>1, WaiterFrame
<1>6. WaiterOK(w)'
  <2>1. LinkOK(w) /\ RefOK(w) /\ AddOK(w)
    BY <1>0 DEF WaiterOK
  <2>2. ~Held(w) /\ waiter[w].count = 1 /\ ~(w \in SubmitWaiters \/ pc[w] \in {"wait", "cancel"}) /\ ~Adding(w)
    BY <1>1, <2>1 DEF LinkOK, AddOK, CANCELLED, PENDING
  <2>3. ~Held(w)' /\ \A q \in Procs : ~InCompleted(q, w)'
    BY <1>4, <2>2 DEF Held
  <2>4. AddOK(w)' /\ LinkOK(w)' /\ HeldOK(w)' /\ LastOK(w)'
    BY <1>1, <1>2, <1>4, <2>2, <2>3 DEF AddOK, LinkOK, HeldOK, LastOK, HANDLED, PENDING, REMOVED
  <2>5. RefOK(w)'
    BY <1>1, <1>2, <1>4, <2>1 DEF RefOK, ListRefs, OwnerRefs
  <2> QED BY <2>4, <2>5 DEF WaiterOK
<1>7. BusyInv'
  <2>1. ASSUME NEW x \in SubmitWaiters PROVE Weight(x)' = Weight(x)
    <3>1. x \in Waiters /\ \A q \in Procs : Head(completed'[q]) = Head(completed[q])
      BY <1>1, Names
    <3> QED BY <1>4, <3>1, WeightFrame
  <2>2. \A x \in WakeWaiters : pc'[x] = "idle" <=> pc[x] = "idle"
    BY <1>1
  <2> QED BY <1>0, <1>1, <2>1, <2>2, BusySame
<1> QED BY <1>3, <1>5, <1>6, <1>7 DEF Holders

(* the waiter that stop has marked is on the list, and is nobody else's *)
LEMMA DoomedIs ==
    ASSUME IntrInv, NEW w \in Waiters, w \in doomed
    PROVE  /\ doomed = {w} /\ Linked(w) /\ ~Held(w) /\ stop = "walk"
           /\ w \in WakeWaiters /\ pc[w] = "idle" /\ State(w) = HANDLED
           /\ waiter[w].refcount = 1
<1>0. StopOK /\ WaiterOK(w)
  BY DEF IntrInv
<1>1. doomed = {w} /\ Linked(w) /\ stop = "walk"
  BY <1>0 DEF StopOK
<1>2. ~Held(w) /\ State(w) = HANDLED /\ ~(w \in SubmitWaiters)
  BY <1>0, <1>1 DEF WaiterOK, LinkOK, HANDLED, PENDING
<1>3. pc[w] = "idle"
  BY <1>1, ActiveHost, Names
<1>4. waiter[w].refcount = 1
  BY <1>0, <1>1, <1>3 DEF WaiterOK, RefOK, ListRefs, OwnerRefs
<1> QED BY <1>1, <1>2, <1>3, <1>4, Names

(* ... so that it comes off the list and off no other *)
LEMMA UnlinkIs ==
    ASSUME IntrInv, NEW w \in Waiters, StopUnlink(w)
    PROVE  /\ completed' = completed /\ waiter' = [waiter EXCEPT ![w] = Freed]
           /\ wait_head' \in Seq(Waiters) /\ IsInjective(wait_head')
           /\ \A x \in Waiters : Linked(x)' <=> Linked(x) /\ x # w
<1>0. Types /\ w \in doomed /\ ~Held(w) /\ waiter[w].refcount = 1
  BY DoomedIs DEF IntrInv, StopUnlink
<1> DEFINE S == Waiters \ {w}
<1>1. /\ wait_head' = Kept(wait_head, S) /\ completed' = [p \in Procs |-> Kept(completed[p], S)]
      /\ waiter' = [waiter EXCEPT ![w] = KrefPut(waiter[w])]
  BY DEF StopUnlink
<1>2. \A x \in Waiters : x \in S <=> x # w
  OBVIOUS
<1> HIDE DEF S
<1>3. ASSUME NEW p \in Procs PROVE Kept(completed[p], S) = completed[p]
  <2>1. PICK s \in Seq(Waiters) : s = completed[p]
    BY <1>0 DEF Types
  <2>2. Range(s) \subseteq S
    <3>1. Range(s) \subseteq Waiters
      BY RangeIs
    <3>2. w \notin Range(s)
      BY <1>0, <2>1 DEF Held, InCompleted
    <3> QED BY <1>2, <3>1, <3>2
  <2>3. Kept(s, S) = s
    BY <2>2, KeptIs
  <2> QED BY <2>1, <2>3
<1>4. completed' = completed
  <2>1. completed = [p \in Procs |-> completed[p]]
    BY <1>0 DEF Types
  <2> QED BY <1>1, <1>3, <2>1, Zenon
<1>5. /\ Kept(wait_head, S) \in Seq(Waiters) /\ IsInjective(Kept(wait_head, S))
      /\ Range(Kept(wait_head, S)) = Range(wait_head) \cap S
  <2>1. wait_head \in Seq(Waiters) /\ IsInjective(wait_head)
    BY <1>0 DEF Types
  <2> QED BY <2>1, KeptIs
<1>6. KrefPut(waiter[w]) = Freed
  BY <1>0 DEF KrefPut
<1> QED BY <1>1, <1>2, <1>4, <1>5, <1>6 DEF Linked

LEMMA StopUnlinkHolders ==
    ASSUME IntrInv, Types', NEW w \in Waiters, StopUnlink(w)
    PROVE  Holders'
<1>0. Types /\ BusyInv /\ (\A q \in Procs : ProcOK(q)) /\ (\A x \in Waiters : WaiterOK(x))
  BY DEF IntrInv
<1>1. /\ doomed = {w} /\ Linked(w) /\ ~Held(w) /\ w \in WakeWaiters /\ pc[w] = "idle"
  BY DoomedIs DEF StopUnlink
<1>2. /\ completed' = completed /\ waiter' = [waiter EXCEPT ![w] = Freed]
      /\ \A x \in Waiters : Linked(x)' <=> Linked(x) /\ x # w
  BY UnlinkIs
<1>3. doomed' = {} /\ pc' = pc /\ busy' = busy /\ leaks' = leaks
  BY DEF StopUnlink
<1>4. waiter'[w] = Freed /\ \A x \in Waiters : x # w => waiter'[x] = waiter[x]
  BY <1>0, <1>2 DEF Types
<1>5. ASSUME NEW q \in Procs PROVE ProcOK(q)'
  BY <1>0, <1>2, <1>3 DEF ProcOK, Handling
<1>6. ASSUME NEW x \in Waiters
      PROVE  /\ (Adding(x)' <=> Adding(x))
             /\ \A q \in Procs : InCompleted(q, x)' <=> InCompleted(q, x)
             /\ \A q \in Procs : Handling(q)' <=> Handling(q)
  BY <1>2, <1>3 DEF Adding, InCompleted, Handling
<1>7. ASSUME NEW x \in Waiters, x # w PROVE WaiterOK(x)' /\ Weight(x)' = Weight(x)
  <2>1. waiter'[x] = waiter[x] /\ (x \in doomed' <=> x \in doomed) /\ (Linked(x)' <=> Linked(x))
        /\ waiter'[x].count = waiter[x].count
    BY <1>1, <1>2, <1>3, <1>4, <1>7
  <2>2. WaiterOK(x)'
    BY <1>0, <1>2, <1>3, <1>6, <2>1, WaiterFrame
  <2>3. \A q \in Procs : Head(completed'[q]) = Head(completed[q])
    BY <1>2
  <2>4. Weight(x)' = Weight(x)
    BY <1>6, <2>1, <2>3, WeightFrame
  <2> QED BY <2>2, <2>4
<1>8. WaiterOK(w)'
  <2>1. ~Linked(w)' /\ ~Held(w)' /\ ~Adding(w)' /\ pc'[w] = "idle" /\ \A q \in Procs : ~InCompleted(q, w)'
    BY <1>1, <1>2, <1>3, <1>6 DEF Held, Adding
  <2>2. waiter'[w].refcount = 0
    BY <1>4 DEF Freed
  <2>3. AddOK(w)' /\ LinkOK(w)' /\ HeldOK(w)' /\ LastOK(w)'
    BY <2>1 DEF AddOK, LinkOK, HeldOK, LastOK
  <2>4. RefOK(w)'
    BY <2>1, <2>2 DEF RefOK, ListRefs, OwnerRefs
  <2> QED BY <2>3, <2>4 DEF WaiterOK
<1>9. BusyInv'
  <2>1. \A x \in SubmitWaiters : Weight(x)' = Weight(x)
    BY <1>1, <1>7, Names
  <2>2. \A x \in WakeWaiters : pc'[x] = "idle" <=> pc[x] = "idle"
    BY <1>3
  <2> QED BY <1>0, <1>3, <2>1, <2>2, BusySame
<1> QED BY <1>5, <1>7, <1>8, <1>9 DEF Holders

-----------------------------------------------------------------------------
(* process_wait_list: which waiters are merged into which *)

(* positions merged into position i *)
After(i, n, sb, mg) == {k \in i + 1 .. n : k \in mg /\ \A j \in i + 1 .. k : j \in sb => j \in mg}

(* lead gives each position of sb the one it is merged into *)
Leads(lead, n, sb, mg) == \A i \in sb \ mg : {k \in sb : lead[k] = i} = {i} \cup After(i, n, sb, mg)

(* The positions of the submit waiters (sb), some of them merged into an   *)
(* earlier one (mg): each belongs to the last one that is not merged.      *)
LEMMA LeaderIs ==
    ASSUME NEW n \in Nat, NEW sb \in SUBSET (1 .. n), NEW mg \in SUBSET sb,
           \A i \in mg : \E j \in sb : j < i
    PROVE  \E lead \in [sb -> sb \ mg] : Leads(lead, n, sb, mg)
<1> DEFINE IsLead(j, k) == j \in sb \ mg /\ j <= k /\ \A m \in j + 1 .. k : m \in sb => m \in mg
<1>1. ASSUME NEW k \in sb PROVE \E j : IsLead(j, k)
  <2> DEFINE below == {i \in sb : i <= k}
             U == {k - j : j \in {i \in sb \ mg : i <= k}}
  <2>1. PICK a \in below : \A i \in below : a <= i
    <3>1. \A i \in sb : i \in Nat
      OBVIOUS
    <3>2. below \in SUBSET Nat
      BY <3>1
    <3>3. k \in below
      BY <3>1
    <3> HIDE DEF below
    <3> QED BY <3>2, <3>3, LeastElement
  <2>2. a \notin mg
    BY <2>1
  <2>3. U \in SUBSET Nat /\ U # {}
    BY <2>1, <2>2
  <2>4. PICK u \in U : \A x \in U : u <= x
    <3> HIDE DEF U
    <3> QED BY <2>3, LeastElement
  <2>5. PICK j \in sb \ mg : j <= k /\ u = k - j
    BY <2>4
  <2>6. ASSUME NEW m \in j + 1 .. k, m \in sb, m \notin mg PROVE FALSE
    <3>1. k - m \in U
      BY <2>6
    <3>2. k - j <= k - m
      BY <2>4, <2>5, <3>1
    <3> QED BY <2>5, <2>6, <3>2
  <2>7. IsLead(j, k)
    BY <2>5, <2>6
  <2> QED BY <2>7
<1> DEFINE lead == [k \in sb |-> CHOOSE j : IsLead(j, k)]
<1>2. \A k \in sb : IsLead(lead[k], k)
  <2> HIDE DEF IsLead
  <2> QED BY <1>1
<1>3. \A k \in sb : \A i, j : IsLead(i, k) /\ IsLead(j, k) => i = j
  OBVIOUS
<1>4. lead \in [sb -> sb \ mg]
  <2>1. \A k \in sb : lead[k] \in sb \ mg
    BY <1>2
  <2> QED BY <2>1
<1> HIDE DEF lead
<1>5. ASSUME NEW i \in sb \ mg
      PROVE {k \in sb : lead[k] = i} = {i} \cup After(i, n, sb, mg)
  <2>1. \A k \in sb : lead[k] = i <=> IsLead(i, k)
    <3> HIDE DEF IsLead
    <3> QED BY <1>2, <1>3
  <2>2. ASSUME NEW k \in sb
        PROVE  IsLead(i, k) <=> k = i \/ (k \in i + 1 .. n /\ k \in mg /\ \A j \in i + 1 .. k : j \in sb => j \in mg)
    <3>1. CASE k = i BY <3>1
    <3>2. CASE k < i BY <3>2
    <3>3. CASE k > i BY <3>3
    <3> QED BY <3>1, <3>2, <3>3
  <2> HIDE DEF IsLead
  <2> QED BY <2>1, <2>2 DEF After
<1>6. Leads(lead, n, sb, mg)
  BY <1>5 DEF Leads
<1> QED BY <1>4, <1>6

(* Each submit waiter of a done list passes its job to one waiter of the   *)
(* list: to itself and Followers more, or to none if it is merged.         *)
LEMMA MergeIs ==
    ASSUME NEW d \in Seq(Waiters), IsInjective(d)
    PROVE  LET A == Range(d) \cap SubmitWaiters
           IN  \E h \in [A -> A] : \A i \in 1 .. Len(d) : d[i] \in SubmitWaiters =>
                 /\ Followers(d, i) \in Nat
                 /\ Cardinality({x \in A : h[x] = d[i]}) = IF Merged(d, i) THEN 0 ELSE 1 + Followers(d, i)
<1> DEFINE n == Len(d)
           A == Range(d) \cap SubmitWaiters
           sb == {i \in 1 .. n : d[i] \in SubmitWaiters}
           mg == {i \in 1 .. n : Merged(d, i)}
           F(i) == After(i, n, sb, mg)
<1>1. n \in Nat /\ DOMAIN d = 1 .. n
  OBVIOUS
<1>2. \A i, j \in 1 .. n : d[i] = d[j] => i = j
  BY <1>1 DEF IsInjective
<1>3. mg \subseteq sb /\ \A i \in mg : \E j \in sb : j < i
  <2>1. \A i \in mg : i \in sb
    BY DEF Merged
  <2>2. ASSUME NEW i \in mg PROVE \E j \in sb : j < i
    <3>1. PICK j \in 1 .. i - 1 : d[j] \in SubmitWaiters
      BY DEF Merged
    <3>2. j \in 1 .. n /\ j < i
      BY <1>1
    <3> QED BY <3>1, <3>2
  <2> HIDE DEF mg
  <2> QED BY <2>1, <2>2
<1>4. \A i \in 1 .. n : F(i) = {k \in i + 1 .. n : Merged(d, k)
                                   /\ \A j \in i + 1 .. k : d[j] \in SubmitWaiters => Merged(d, j)}
  <2> TAKE i \in 1 .. n
  <2>1. \A k \in i + 1 .. n : k \in 1 .. n
    BY <1>1
  <2>2. \A k \in i + 1 .. n : \A j \in i + 1 .. k : j \in 1 .. n
    BY <1>1
  <2>3. \A j \in 1 .. n : (j \in mg <=> Merged(d, j)) /\ (j \in sb <=> d[j] \in SubmitWaiters)
    OBVIOUS
  <2> HIDE DEF mg, sb
  <2>4. ASSUME NEW k \in i + 1 .. n
        PROVE  (k \in mg /\ \A j \in i + 1 .. k : j \in sb => j \in mg)
               <=> (Merged(d, k) /\ \A j \in i + 1 .. k : d[j] \in SubmitWaiters => Merged(d, j))
    BY <2>1, <2>2, <2>3
  <2> QED BY <2>4 DEF After
<1>5. \A i \in 1 .. n : Followers(d, i) = Cardinality(F(i))
  <2> HIDE DEF F
  <2> QED BY <1>4 DEF Followers
<1>6. sb \in SUBSET (1 .. n)
  OBVIOUS
<1>7. \A x \in A : \E i \in sb : d[i] = x
  <2>1. \A x : x \in Range(d) <=> \E i \in 1 .. n : d[i] = x
    BY RangeIs
  <2> QED BY <2>1
<1>8. \A i \in sb : d[i] \in A /\ i \in 1 .. n
  <2>1. \A x : x \in Range(d) <=> \E i \in 1 .. n : d[i] = x
    BY RangeIs
  <2> QED BY <2>1
<1>9. \A i \in 1 .. n : (d[i] \in SubmitWaiters <=> i \in sb) /\ (Merged(d, i) <=> i \in mg)
  OBVIOUS
<1> HIDE DEF n, A, sb, mg
<1>10. PICK lead \in [sb -> sb \ mg] : \A i \in sb \ mg : {k \in sb : lead[k] = i} = {i} \cup F(i)
  <2>1. mg \in SUBSET sb
    BY <1>3
  <2>2. PICK lead \in [sb -> sb \ mg] : Leads(lead, n, sb, mg)
    BY <1>1, <1>3, <1>6, <2>1, LeaderIs
  <2> QED BY <2>2 DEF Leads
<1> DEFINE at(x) == CHOOSE i \in sb : d[i] = x
           h == [x \in A |-> d[lead[at(x)]]]
<1>11. \A x \in A : at(x) \in sb /\ d[at(x)] = x
  BY <1>7
<1>12. \A i \in sb : at(d[i]) = i
  <2> HIDE DEF at
  <2> QED BY <1>2, <1>8, <1>11
<1> HIDE DEF at
<1>13. h \in [A -> A]
  <2>1. \A x \in A : lead[at(x)] \in sb
    BY <1>10, <1>11
  <2> QED BY <1>8, <2>1
<1>14. \A x \in A : h[x] = d[lead[at(x)]]
  OBVIOUS
<1> HIDE DEF h
<1>15. ASSUME NEW i \in sb
       PROVE  Cardinality({x \in A : h[x] = d[i]}) = Cardinality({k \in sb : lead[k] = i})
              /\ IsFiniteSet({k \in sb : lead[k] = i})
  <2> DEFINE K == {k \in sb : lead[k] = i}
             X == {x \in A : h[x] = d[i]}
             phi == [k \in K |-> d[k]]
  <2>1. IsFiniteSet(K)
    <3>1. K \subseteq 1 .. n
      BY <1>6
    <3>2. IsFiniteSet(1 .. n)
      BY <1>1, FS_Interval
    <3> HIDE DEF K
    <3> QED BY <3>1, <3>2, FS_Subset
  <2>2. \A x \in A : h[x] = d[i] <=> at(x) \in K
    BY <1>2, <1>8, <1>10, <1>11, <1>14
  <2>3. \A k \in K : k \in sb /\ d[k] \in X
    BY <1>8, <1>12, <2>2
  <2>4. \A x \in X : at(x) \in K /\ d[at(x)] = x
    BY <1>11, <2>2
  <2> HIDE DEF K, X
  <2>5. phi \in [K -> X]
    BY <2>3
  <2>6. \A k, m \in K : phi[k] = phi[m] => k = m
    BY <1>2, <1>8, <2>3
  <2>7. \A x \in X : \E k \in K : phi[k] = x
    BY <2>4
  <2> HIDE DEF phi
  <2>8. phi \in Bijection(K, X)
    BY <2>5, <2>6, <2>7 DEF Bijection, Injection, Surjection, IsInjective
  <2>9. Cardinality(X) = Cardinality(K)
    BY <2>1, <2>8, FS_Bijection DEF ExistsBijection
  <2> QED BY <2>1, <2>9 DEF K, X
<1>16. ASSUME NEW i \in sb PROVE IsFiniteSet(F(i)) /\ Cardinality(F(i)) \in Nat /\ i \notin F(i)
  <2>1. F(i) \subseteq 1 .. n /\ i \notin F(i)
    BY <1>1, <1>6 DEF After
  <2>2. IsFiniteSet(1 .. n)
    BY <1>1, FS_Interval
  <2> HIDE DEF F
  <2> QED BY <2>1, <2>2, FS_Subset, FS_CardinalityType
<1>17. ASSUME NEW i \in sb
       PROVE  Cardinality({x \in A : h[x] = d[i]}) = IF i \in mg THEN 0 ELSE 1 + Cardinality(F(i))
  <2> HIDE DEF F
  <2>1. CASE i \in mg
    <3>1. {k \in sb : lead[k] = i} = {}
      BY <1>10, <2>1
    <3> QED BY <1>15, <2>1, <3>1, FS_EmptySet
  <2>2. CASE i \notin mg
    <3>1. {k \in sb : lead[k] = i} = F(i) \cup {i}
      BY <1>10, <2>2
    <3>2. Cardinality(F(i) \cup {i}) = Cardinality(F(i)) + 1
      BY <1>16, FS_AddElement
    <3> QED BY <1>15, <1>16, <2>2, <3>1, <3>2
  <2> QED BY <2>1, <2>2
<1> HIDE DEF F
<1>18. \A i \in 1 .. n : d[i] \in SubmitWaiters =>
          /\ Followers(d, i) \in Nat
          /\ Cardinality({x \in A : h[x] = d[i]}) = IF Merged(d, i) THEN 0 ELSE 1 + Followers(d, i)
  BY <1>5, <1>9, <1>16, <1>17
<1>19. \E hh \in [A -> A] : \A i \in 1 .. n : d[i] \in SubmitWaiters =>
          /\ Followers(d, i) \in Nat
          /\ Cardinality({x \in A : hh[x] = d[i]}) = IF Merged(d, i) THEN 0 ELSE 1 + Followers(d, i)
  BY <1>13, <1>18
<1> QED BY <1>19 DEF A, n

LEMMA SplitIs ==
    ASSUME NEW T, NEW s \in Seq(T), IsInjective(s), NEW m \in 0 .. Len(s)
    PROVE  LET a == SubSeq(s, 1, m)
               b == SubSeq(s, m + 1, Len(s))
           IN  /\ a \in Seq(T) /\ IsInjective(a) /\ Range(a) \subseteq Range(s) /\ Len(a) = m
               /\ b \in Seq(T) /\ IsInjective(b) /\ Range(b) = Range(s) \ Range(a)
<1> DEFINE a == SubSeq(s, 1, m)
           b == SubSeq(s, m + 1, Len(s))
           L == Len(s)
<1>0. L \in Nat /\ m \in Nat /\ m <= L /\ DOMAIN s = 1 .. L
  OBVIOUS
<1>1. a \in Seq(T) /\ Len(a) = m /\ \A i \in 1 .. m : a[i] = s[i]
  BY <1>0
<1>2. b \in Seq(T) /\ Len(b) = L - m /\ \A i \in 1 .. L - m : b[i] = s[i + m]
  <2>1. PICK k \in 1 .. L + 1 : k = m + 1
    BY <1>0
  <2>2. /\ SubSeq(s, k, L) \in Seq(T) /\ Len(SubSeq(s, k, L)) = L + 1 - k
        /\ \A i \in 1 .. L + 1 - k : SubSeq(s, k, L)[i] = s[i + k - 1]
    BY <1>0
  <2>3. L + 1 - k = L - m
    <3> HIDE DEF L
    <3> QED BY <1>0, <2>1
  <2>4. b = SubSeq(s, k, L)
    BY <2>1
  <2>5. \A i \in 1 .. L - m : i + k - 1 = i + m
    BY <1>0, <2>1
  <2> HIDE DEF b, L
  <2> QED BY <2>2, <2>3, <2>4, <2>5
<1>3. DOMAIN a = 1 .. m /\ DOMAIN b = 1 .. L - m
  BY <1>1, <1>2
<1> HIDE DEF a, b
<1>4. \A i, j \in 1 .. L : s[i] = s[j] => i = j
  BY <1>0 DEF IsInjective
<1>5. /\ \A x : x \in Range(a) <=> \E i \in 1 .. m : a[i] = x
      /\ \A x : x \in Range(b) <=> \E i \in 1 .. L - m : b[i] = x
      /\ \A x : x \in Range(s) <=> \E i \in 1 .. L : s[i] = x
  <2>1. \A x : x \in Range(a) <=> \E i \in 1 .. m : a[i] = x
    BY <1>1, RangeIs
  <2>2. \A x : x \in Range(b) <=> \E i \in 1 .. L - m : b[i] = x
    BY <1>2, RangeIs
  <2>3. \A x : x \in Range(s) <=> \E i \in 1 .. L : s[i] = x
    BY RangeIs
  <2> QED BY <2>1, <2>2, <2>3
<1> HIDE DEF L
<1>6. \A i \in 1 .. m : i \in 1 .. L
  BY <1>0
<1>7. \A i \in 1 .. L - m : i + m \in 1 .. L /\ i + m \notin 1 .. m
  BY <1>0
<1>8. IsInjective(a)
  BY <1>1, <1>3, <1>4, <1>6 DEF IsInjective
<1>9. IsInjective(b)
  <2> SUFFICES ASSUME NEW i \in 1 .. L - m, NEW j \in 1 .. L - m, b[i] = b[j] PROVE i = j
    BY <1>3 DEF IsInjective
  <2>1. i + m = j + m
    BY <1>2, <1>4, <1>7
  <2> QED BY <1>0, <2>1
<1>10. Range(a) \subseteq Range(s)
  BY <1>1, <1>5, <1>6
<1>11. ASSUME NEW x \in Range(b) PROVE x \in Range(s) /\ x \notin Range(a)
  <2>1. PICK i \in 1 .. L - m : s[i + m] = x
    BY <1>2, <1>5, <1>11
  <2>2. ASSUME NEW j \in 1 .. m, a[j] = x PROVE FALSE
    <3>1. j = i + m
      BY <1>1, <1>4, <1>6, <1>7, <2>1, <2>2
    <3> QED BY <1>7, <3>1
  <2> QED BY <1>5, <1>7, <2>1, <2>2
<1>12. ASSUME NEW x \in Range(s), x \notin Range(a) PROVE x \in Range(b)
  <2>1. PICK i \in 1 .. L : s[i] = x
    BY <1>5
  <2>2. i \notin 1 .. m
    BY <1>1, <1>5, <1>12, <2>1
  <2>3. i - m \in 1 .. L - m /\ (i - m) + m = i
    BY <1>0, <2>2
  <2>4. b[i - m] = x
    BY <1>2, <2>1, <2>3
  <2> QED BY <1>5, <2>3, <2>4
<1>13. Range(b) = Range(s) \ Range(a)
  BY <1>11, <1>12
<1>14. Len(a) = m
  BY <1>1
<1>15. a \in Seq(T) /\ b \in Seq(T)
  BY <1>1, <1>2
<1> QED BY <1>8, <1>9, <1>10, <1>13, <1>14, <1>15 DEF a, b, L

LEMMA DoneIs ==
    ASSUME Types, NEW p \in Procs
    PROVE  LET d == DonePrefix(p)
               rest == SubSeq(wait_head, Len(d) + 1, Len(wait_head))
           IN  /\ d \in Seq(Waiters) /\ IsInjective(d) /\ Range(d) \subseteq Range(wait_head)
               /\ rest \in Seq(Waiters) /\ IsInjective(rest)
               /\ Range(rest) = Range(wait_head) \ Range(d)
<1> DEFINE isDone(i) == \A j \in 1 .. i : Reached(sync[p], Thresh(wait_head[j]))
           I == {i \in DOMAIN wait_head : isDone(i)}
<1>1. DonePrefix(p) = SubSeq(wait_head, 1, Cardinality(I))
  BY DEF DonePrefix
<1>2. wait_head \in Seq(Waiters) /\ IsInjective(wait_head) /\ Len(wait_head) \in Nat
      /\ DOMAIN wait_head = 1 .. Len(wait_head)
  BY DEF Types
<1>3. I \subseteq 1 .. Len(wait_head)
  BY <1>2
<1> HIDE DEF I
<1>4. Cardinality(I) \in 0 .. Len(wait_head)
  <2>1. IsFiniteSet(1 .. Len(wait_head)) /\ Cardinality(1 .. Len(wait_head)) = Len(wait_head)
    <3>1. IsFiniteSet(1 .. Len(wait_head))
          /\ Cardinality(1 .. Len(wait_head)) = IF 1 > Len(wait_head) THEN 0 ELSE Len(wait_head) - 1 + 1
      BY <1>2, FS_Interval
    <3> QED BY <1>2, <3>1
  <2>2. IsFiniteSet(I) /\ Cardinality(I) <= Len(wait_head)
    BY <1>3, <2>1, FS_Subset
  <2> QED BY <1>2, <2>2, FS_CardinalityType
<1>5. PICK m \in 0 .. Len(wait_head) : m = Cardinality(I)
  BY <1>4
<1>6. DonePrefix(p) = SubSeq(wait_head, 1, m)
  BY <1>1, <1>5
<1>7. Len(DonePrefix(p)) = m
  BY <1>2, <1>6, SplitIs
<1> QED BY <1>2, <1>6, <1>7, SplitIs

(* the completed lists of one pass, one after the other *)
LEMMA CompletedIs ==
    ASSUME NEW d \in Seq(Waiters), IsInjective(d), NEW dropped
    PROVE  LET c == Kept(d, SubmitWaiters \ dropped) \o Kept(d, WakeWaiters \ dropped)
           IN  c \in Seq(Waiters) /\ IsInjective(c) /\ Range(c) = Range(d) \ dropped
<1> DEFINE S == SubmitWaiters \ dropped
           W == WakeWaiters \ dropped
           a == Kept(d, S)
           b == Kept(d, W)
           c == a \o b
<1>1. a \in Seq(Waiters) /\ IsInjective(a) /\ Range(a) = Range(d) \cap S
  BY KeptIs
<1>2. b \in Seq(Waiters) /\ IsInjective(b) /\ Range(b) = Range(d) \cap W
  BY KeptIs
<1>3. Range(d) \subseteq Waiters
  BY RangeIs
<1>4. (Range(d) \cap S) \cap (Range(d) \cap W) = {}
  BY <1>3, Names
<1>5. (Range(d) \cap S) \cup (Range(d) \cap W) = Range(d) \ dropped
  BY <1>3, Names
<1> HIDE DEF S, W, a, b
<1>6. Len(a) \in Nat /\ Len(b) \in Nat /\ DOMAIN a = 1 .. Len(a) /\ DOMAIN b = 1 .. Len(b)
  BY <1>1, <1>2
<1>7. /\ c \in Seq(Waiters) /\ Len(c) = Len(a) + Len(b)
      /\ \A i \in 1 .. Len(a) + Len(b) : c[i] = IF i <= Len(a) THEN a[i] ELSE b[i - Len(a)]
  BY <1>1, <1>2
<1> HIDE DEF c
<1>8. /\ \A x : x \in Range(a) <=> \E i \in 1 .. Len(a) : a[i] = x
      /\ \A x : x \in Range(b) <=> \E i \in 1 .. Len(b) : b[i] = x
      /\ \A x : x \in Range(c) <=> \E i \in 1 .. Len(a) + Len(b) : c[i] = x
  <2>1. \A x : x \in Range(a) <=> \E i \in 1 .. Len(a) : a[i] = x
    BY <1>1, RangeIs
  <2>2. \A x : x \in Range(b) <=> \E i \in 1 .. Len(b) : b[i] = x
    BY <1>2, RangeIs
  <2>3. \A x : x \in Range(c) <=> \E i \in 1 .. Len(a) + Len(b) : c[i] = x
    BY <1>7, RangeIs
  <2> QED BY <2>1, <2>2, <2>3
<1>9. \A i \in 1 .. Len(a) : i \in 1 .. Len(a) + Len(b) /\ c[i] = a[i]
  BY <1>6, <1>7
<1>10. \A i \in 1 .. Len(b) : i + Len(a) \in 1 .. Len(a) + Len(b) /\ c[i + Len(a)] = b[i]
  <2> TAKE i \in 1 .. Len(b)
  <2>1. i + Len(a) \in 1 .. Len(a) + Len(b) /\ ~(i + Len(a) <= Len(a)) /\ (i + Len(a)) - Len(a) = i
    BY <1>6
  <2> QED BY <1>7, <2>1
<1>11. \A i \in 1 .. Len(a) + Len(b) :
          \/ i \in 1 .. Len(a) /\ c[i] = a[i]
          \/ i - Len(a) \in 1 .. Len(b) /\ c[i] = b[i - Len(a)]
  BY <1>6, <1>7
<1>12. Range(c) = Range(a) \cup Range(b)
  <2>1. ASSUME NEW x \in Range(c) PROVE x \in Range(a) \cup Range(b)
    <3>1. PICK i \in 1 .. Len(a) + Len(b) : c[i] = x
      BY <1>8
    <3> QED BY <1>8, <1>11, <3>1
  <2>2. ASSUME NEW x \in Range(a) \cup Range(b) PROVE x \in Range(c)
    <3>1. CASE x \in Range(a)
      BY <1>8, <1>9, <3>1
    <3>2. CASE x \in Range(b)
      <4>1. PICK i \in 1 .. Len(b) : b[i] = x
        BY <1>8, <3>2
      <4> QED BY <1>8, <1>10, <4>1
    <3> QED BY <3>1, <3>2
  <2> QED BY <2>1, <2>2
<1>13. IsInjective(c)
  <2>1. /\ \A i, j \in 1 .. Len(a) : a[i] = a[j] => i = j
        /\ \A i, j \in 1 .. Len(b) : b[i] = b[j] => i = j
    BY <1>1, <1>2, <1>6 DEF IsInjective
  <2>2. \A i \in 1 .. Len(a) : \A j \in 1 .. Len(b) : a[i] # b[j]
    BY <1>1, <1>2, <1>4, <1>8
  <2>3. ASSUME NEW i \in 1 .. Len(a) + Len(b), NEW j \in 1 .. Len(a) + Len(b), c[i] = c[j] PROVE i = j
    <3>1. CASE i \in 1 .. Len(a) /\ j \in 1 .. Len(a)
      BY <1>9, <2>1, <2>3, <3>1
    <3>2. CASE i \in 1 .. Len(a) /\ j \notin 1 .. Len(a)
      BY <1>11, <2>2, <2>3, <3>2, <1>9
    <3>3. CASE i \notin 1 .. Len(a) /\ j \in 1 .. Len(a)
      BY <1>11, <2>2, <2>3, <3>3, <1>9
    <3>4. CASE i \notin 1 .. Len(a) /\ j \notin 1 .. Len(a)
      <4>1. i - Len(a) \in 1 .. Len(b) /\ j - Len(a) \in 1 .. Len(b) /\ b[i - Len(a)] = b[j - Len(a)]
        BY <1>11, <2>3, <3>4
      <4>2. i - Len(a) = j - Len(a)
        BY <2>1, <4>1
      <4> QED BY <1>6, <4>2
    <3> QED BY <3>1, <3>2, <3>3, <3>4
  <2>4. DOMAIN c = 1 .. Len(a) + Len(b)
    BY <1>7
  <2> QED BY <2>3, <2>4 DEF IsInjective
<1>14. Range(c) = Range(d) \ dropped
  BY <1>1, <1>2, <1>5, <1>12
<1>15. c \in Seq(Waiters)
  BY <1>7
<1> QED BY <1>13, <1>14, <1>15 DEF c, a, b, S, W

(* what one pass over the list takes off it, by the names of the action *)
MergedOf(d) == {d[i] : i \in {k \in DOMAIN d : Merged(d, k)}}
DroppedOf(d) == {w \in Range(d) : State(w) + 1 = HANDLED} \cup MergedOf(d)
JobsOf(d, w) == IF w \in SubmitWaiters
                THEN Followers(d, CHOOSE i \in DOMAIN d : d[i] = w) ELSE 0

LEMMA ProcessUnfold ==
    ASSUME Types, NEW p \in Procs, ProcessWaitList(p)
    PROVE  LET d == DonePrefix(p)
           IN  /\ d \in Seq(Waiters) /\ IsInjective(d) /\ Range(d) \subseteq Range(wait_head)
               /\ wait_head' \in Seq(Waiters) /\ IsInjective(wait_head')
               /\ Range(wait_head') = Range(wait_head) \ Range(d)
               /\ armed' = IF wait_head' = << >> THEN Off ELSE waiter[Head(wait_head')].thresh
               /\ completed'[p] \in Seq(Waiters) /\ IsInjective(completed'[p])
               /\ Range(completed'[p]) = Range(d) \ DroppedOf(d)
               /\ completed' \in [Procs -> Seq(Waiters)]
               /\ \A q \in Procs : q # p => completed'[q] = completed[q]
               /\ DOMAIN waiter' = Waiters /\ waiter' = [w \in Waiters |-> waiter'[w]]
               /\ \A w \in Waiters : waiter'[w] =
                     IF w \in DroppedOf(d) THEN KrefPut([waiter[w] EXCEPT !.state = @ + 1])
                     ELSE IF w \in Range(d)
                     THEN [waiter[w] EXCEPT !.state = @ + 1, !.count = @ + JobsOf(d, w)]
                     ELSE waiter[w]
<1> DEFINE d == DonePrefix(p)
           rest == SubSeq(wait_head, Len(d) + 1, Len(wait_head))
           c == Kept(d, SubmitWaiters \ DroppedOf(d)) \o Kept(d, WakeWaiters \ DroppedOf(d))
<1>1. /\ wait_head' = rest
      /\ completed' = [completed EXCEPT ![p] = c]
      /\ armed' = IF rest = << >> THEN Off ELSE waiter[Head(rest)].thresh
      /\ waiter' = [w \in Waiters |->
                     IF w \in DroppedOf(d) THEN KrefPut([waiter[w] EXCEPT !.state = @ + 1])
                     ELSE IF w \in Range(d)
                     THEN [waiter[w] EXCEPT !.state = @ + 1, !.count = @ + JobsOf(d, w)]
                     ELSE waiter[w]]
  BY DEF ProcessWaitList, DroppedOf, MergedOf, JobsOf, Thresh
<1>2. /\ d \in Seq(Waiters) /\ IsInjective(d) /\ Range(d) \subseteq Range(wait_head)
      /\ rest \in Seq(Waiters) /\ IsInjective(rest)
      /\ Range(rest) = Range(wait_head) \ Range(d)
  BY DoneIs
<1> HIDE DEF d
<1>3. c \in Seq(Waiters) /\ IsInjective(c) /\ Range(c) = Range(d) \ DroppedOf(d)
  BY <1>2, CompletedIs
<1> HIDE DEF rest, c
<1>4. completed'[p] = c /\ \A q \in Procs : q # p => completed'[q] = completed[q]
  BY <1>1 DEF Types
<1>5. completed' \in [Procs -> Seq(Waiters)]
  BY <1>1, <1>3 DEF Types
<1>6. DOMAIN waiter' = Waiters /\ waiter' = [w \in Waiters |-> waiter'[w]]
  BY <1>1
<1>7. \A w \in Waiters : waiter'[w] =
                     IF w \in DroppedOf(d) THEN KrefPut([waiter[w] EXCEPT !.state = @ + 1])
                     ELSE IF w \in Range(d)
                     THEN [waiter[w] EXCEPT !.state = @ + 1, !.count = @ + JobsOf(d, w)]
                     ELSE waiter[w]
  BY <1>1
<1> QED BY <1>1, <1>2, <1>3, <1>4, <1>5, <1>6, <1>7 DEF d

(* What is known of a waiter that a pass takes off the list. *)
LEMMA ListedIs ==
    ASSUME IntrInv, NEW d \in Seq(Waiters), IsInjective(d), Range(d) \subseteq Range(wait_head), doomed = {},
           NEW w \in Range(d)
    PROVE  /\ w \in Waiters /\ Linked(w) /\ ~Held(w) /\ ~Adding(w) /\ waiter[w] \in WaitRec
           /\ waiter[w].count = 1 /\ waiter[w].refcount = 1 + OwnerRefs(w)
           /\ State(w) \in {PENDING, CANCELLED}
           /\ State(w) = PENDING <=> w \in SubmitWaiters \/ pc[w] \in {"wait", "cancel"}
           /\ w \in WakeWaiters => (w \in DroppedOf(d) <=> State(w) = CANCELLED)
           /\ w \in SubmitWaiters => (w \in DroppedOf(d) <=> w \in MergedOf(d))
           /\ JobsOf(d, w) \in Nat
<1>0. Types /\ (\A x \in Waiters : WaiterOK(x))
  BY DEF IntrInv
<1>1. w \in Waiters /\ Linked(w)
  BY RangeIs DEF Linked
<1>2. AddOK(w) /\ LinkOK(w) /\ RefOK(w)
  BY <1>0, <1>1 DEF WaiterOK
<1>3. /\ ~Held(w) /\ ~Adding(w) /\ waiter[w].count = 1 /\ State(w) # HANDLED /\ State(w) # REMOVED
      /\ State(w) = PENDING <=> w \in SubmitWaiters \/ pc[w] \in {"wait", "cancel"}
  BY <1>1, <1>2 DEF LinkOK, AddOK
<1>4. waiter[w].refcount = 1 + OwnerRefs(w)
  BY <1>1, <1>2 DEF RefOK, ListRefs
<1>5. waiter[w] \in WaitRec
  BY <1>0, <1>1 DEF Types
<1>6. State(w) \in {PENDING, CANCELLED}
  BY <1>3, <1>5 DEF WaitRec, State, PENDING, CANCELLED, REMOVED, HANDLED
<1>7. State(w) + 1 = HANDLED <=> State(w) = CANCELLED
  BY <1>6 DEF PENDING, CANCELLED, HANDLED
<1>8. \A x \in MergedOf(d) : x \in SubmitWaiters
  BY DEF MergedOf, Merged
<1>9. w \in WakeWaiters => (w \in DroppedOf(d) <=> State(w) = CANCELLED)
  BY <1>1, <1>7, <1>8, Names DEF DroppedOf
<1>10. w \in SubmitWaiters => (w \in DroppedOf(d) <=> w \in MergedOf(d))
  BY <1>3, <1>7 DEF DroppedOf, PENDING, CANCELLED
<1>11. JobsOf(d, w) \in Nat
  <2>1. CASE w \in SubmitWaiters
    <3>1. DOMAIN d = 1 .. Len(d) /\ \E i \in 1 .. Len(d) : d[i] = w
      BY RangeIs
    <3>2. PICK i \in 1 .. Len(d) : d[i] = w /\ i = CHOOSE j \in DOMAIN d : d[j] = w
      BY <3>1
    <3>3. Followers(d, i) \in Nat
      BY <2>1, <3>2, MergeIs
    <3> QED BY <2>1, <3>2, <3>3 DEF JobsOf
  <2>2. CASE w \notin SubmitWaiters
    BY <2>2 DEF JobsOf
  <2> QED BY <2>1, <2>2
<1> QED BY <1>1, <1>3, <1>4, <1>5, <1>6, <1>9, <1>10, <1>11

(* ... and what becomes of it *)
LEMMA TakenIs ==
    ASSUME IntrInv, NEW p \in Procs, ProcessWaitList(p), NEW w \in Range(DonePrefix(p))
    PROVE  /\ waiter'[w] \in WaitRec
           /\ w \notin DroppedOf(DonePrefix(p)) =>
                 /\ waiter'[w].state = REMOVED /\ waiter'[w].refcount = waiter[w].refcount
                 /\ waiter'[w].count = 1 + JobsOf(DonePrefix(p), w) /\ State(w) = PENDING
           /\ w \in DroppedOf(DonePrefix(p)) =>
                 /\ waiter'[w].refcount = waiter[w].refcount - 1
                 /\ waiter[w].refcount # 1 => waiter'[w].state = HANDLED
<1>0. Types
  BY DEF IntrInv
<1>1. doomed = {}
  <2>1. pc[p] # "idle"
    BY DEF ProcessWaitList
  <2> QED BY <2>1, ActiveHost
<1>2. PICK d \in Seq(Waiters) : d = DonePrefix(p)
  BY <1>0, ProcessUnfold
<1>3. /\ IsInjective(d) /\ Range(d) \subseteq Range(wait_head)
      /\ \A x \in Waiters : waiter'[x] =
            IF x \in DroppedOf(d) THEN KrefPut([waiter[x] EXCEPT !.state = @ + 1])
            ELSE IF x \in Range(d)
            THEN [waiter[x] EXCEPT !.state = @ + 1, !.count = @ + JobsOf(d, x)]
            ELSE waiter[x]
  BY <1>0, <1>2, ProcessUnfold
<1>4. w \in Range(d)
  BY <1>2
<1>5. /\ w \in Waiters /\ waiter[w] \in WaitRec /\ waiter[w].count = 1 /\ waiter[w].refcount = 1 + OwnerRefs(w)
      /\ State(w) \in {PENDING, CANCELLED}
      /\ State(w) = PENDING <=> w \in SubmitWaiters \/ pc[w] \in {"wait", "cancel"}
      /\ w \in WakeWaiters => (w \in DroppedOf(d) <=> State(w) = CANCELLED)
      /\ JobsOf(d, w) \in Nat
  BY <1>1, <1>3, <1>4, ListedIs
<1>6. PICK x \in WaitRec : x = waiter[w]
  BY <1>5
<1>7. x.state + 1 \in PENDING .. HANDLED /\ x.state = State(w)
  BY <1>5, <1>6 DEF State, PENDING, CANCELLED, HANDLED
<1>8. PICK y \in WaitRec : y = [x EXCEPT !.state = x.state + 1]
  BY <1>7, RecState
<1>9. y.state = x.state + 1 /\ y.refcount = x.refcount /\ y.count = x.count /\ y.thresh = x.thresh
  BY <1>7, <1>8, RecState
<1>10. ASSUME w \notin DroppedOf(d)
       PROVE  /\ waiter'[w] \in WaitRec /\ waiter'[w].state = REMOVED /\ waiter'[w].refcount = waiter[w].refcount
              /\ waiter'[w].count = 1 + JobsOf(d, w) /\ State(w) = PENDING
  <2>1. State(w) = PENDING
    BY <1>5, <1>10, Names
  <2>2. waiter'[w] = [x EXCEPT !.state = x.state + 1, !.count = x.count + JobsOf(d, w)]
    BY <1>3, <1>4, <1>5, <1>6, <1>10
  <2>3. PICK j \in Nat : j = JobsOf(d, w)
    BY <1>5
  <2>4. waiter'[w] = [y EXCEPT !.count = y.count + j]
    BY <1>8, <1>9, <2>2, <2>3
  <2>5. y.count = 1
    BY <1>5, <1>6, <1>9
  <2>6. waiter'[w] = [y EXCEPT !.count = 1 + j] /\ 1 + j \in Nat \ {0}
    BY <2>4, <2>5
  <2>7. /\ waiter'[w] \in WaitRec /\ waiter'[w].state = y.state /\ waiter'[w].refcount = y.refcount
        /\ waiter'[w].count = 1 + j
    BY <2>6 DEF WaitRec
  <2>8. y.state = REMOVED
    BY <1>7, <1>9, <2>1 DEF PENDING, REMOVED
  <2> QED BY <1>6, <1>9, <2>1, <2>3, <2>7, <2>8
<1>11. ASSUME w \in DroppedOf(d)
       PROVE  /\ waiter'[w] \in WaitRec /\ waiter'[w].refcount = waiter[w].refcount - 1
              /\ waiter[w].refcount # 1 => waiter'[w].state = HANDLED
  <2>1. waiter'[w] = KrefPut(y)
    BY <1>3, <1>5, <1>6, <1>8, <1>11
  <2>2. y.refcount = 1 + OwnerRefs(w) /\ OwnerRefs(w) \in {0, 1}
    BY <1>5, <1>6, <1>9 DEF OwnerRefs
  <2>3. y.refcount # 0
    BY <2>2
  <2>4. /\ waiter'[w] \in WaitRec /\ waiter'[w].refcount = y.refcount - 1
        /\ y.refcount # 1 => waiter'[w].state = y.state
    BY <2>1, <2>3, RecPut
  <2>5. y.refcount # 1 => y.state = HANDLED
    <3>1. y.refcount # 1 => w \in WakeWaiters
      BY <2>2 DEF OwnerRefs
    <3>2. State(w) = CANCELLED => y.state = HANDLED
      BY <1>7, <1>9 DEF CANCELLED, HANDLED
    <3> QED BY <1>5, <1>11, <3>1, <3>2
  <2> QED BY <1>6, <1>9, <2>4, <2>5
<1> QED BY <1>2, <1>10, <1>11

LEMMA ProcessHolders ==
    ASSUME IntrInv, Types', NEW p \in Procs, ProcessWaitList(p)
    PROVE  Holders'
<1>0. Types /\ BusyInv /\ (\A q \in Procs : ProcOK(q)) /\ (\A x \in Waiters : WaiterOK(x))
  BY DEF IntrInv
<1>1. /\ pc[p] = "lock" /\ pc' = [pc EXCEPT ![p] = "run"] /\ busy' = busy /\ leaks' = leaks /\ doomed' = doomed
  BY DEF ProcessWaitList, Goto
<1>2. doomed = {} /\ completed[p] = << >> /\ p \notin SubmitWaiters
  BY <1>0, <1>1, ActiveHost DEF ProcOK, AddPcs
<1>3. PICK d \in Seq(Waiters) : d = DonePrefix(p)
  BY <1>0, ProcessUnfold
<1> DEFINE D == DroppedOf(d)
<1>4. /\ IsInjective(d) /\ Range(d) \subseteq Range(wait_head)
      /\ Range(wait_head') = Range(wait_head) \ Range(d)
      /\ IsInjective(completed'[p]) /\ Range(completed'[p]) = Range(d) \ D
      /\ \A q \in Procs : q # p => completed'[q] = completed[q]
      /\ \A w \in Waiters : w \notin Range(d) => waiter'[w] = waiter[w]
  <2>1. D \subseteq Range(d)
    <3>1. DOMAIN d = 1 .. Len(d) /\ \A x : x \in Range(d) <=> \E i \in 1 .. Len(d) : d[i] = x
      BY RangeIs
    <3> QED BY <3>1 DEF DroppedOf, MergedOf
  <2> HIDE DEF D
  <2>2. /\ IsInjective(d) /\ Range(d) \subseteq Range(wait_head)
        /\ Range(wait_head') = Range(wait_head) \ Range(d)
        /\ IsInjective(completed'[p]) /\ Range(completed'[p]) = Range(d) \ D
        /\ \A q \in Procs : q # p => completed'[q] = completed[q]
    BY <1>0, <1>3, ProcessUnfold DEF D
  <2>3. \A w \in Waiters : waiter'[w] =
            IF w \in D THEN KrefPut([waiter[w] EXCEPT !.state = @ + 1])
            ELSE IF w \in Range(d)
            THEN [waiter[w] EXCEPT !.state = @ + 1, !.count = @ + JobsOf(d, w)]
            ELSE waiter[w]
    BY <1>0, <1>3, ProcessUnfold DEF D
  <2>4. \A w \in Waiters : w \notin Range(d) => waiter'[w] = waiter[w]
    BY <2>1, <2>3
  <2> QED BY <2>2, <2>4
<1> HIDE DEF D
<1>5. pc'[p] = "run" /\ \A q \in Procs : q # p => pc'[q] = pc[q]
  BY <1>0, <1>1 DEF Types
<1>6. ASSUME NEW q \in Procs PROVE ProcOK(q)'
  <2>1. CASE q = p BY <1>1, <1>2, <1>4, <1>5, <2>1 DEF ProcOK, Handling, ProcessPcs
  <2>2. CASE q # p BY <1>0, <1>4, <1>5, <2>2 DEF ProcOK, Handling
  <2> QED BY <2>1, <2>2
<1>7. ASSUME NEW x \in Waiters
      PROVE  /\ (Adding(x)' <=> Adding(x)) /\ (pc'[x] = "idle" <=> pc[x] = "idle")
             /\ (pc'[x] \in {"wait", "cancel"} <=> pc[x] \in {"wait", "cancel"})
             /\ Linked(x)' <=> Linked(x) /\ x \notin Range(d)
             /\ ~InCompleted(p, x) /\ (InCompleted(p, x)' <=> x \in Range(d) \ D)
             /\ \A q \in Procs : q # p => (InCompleted(q, x)' <=> InCompleted(q, x))
             /\ \A q \in Procs : (Handling(q)' <=> Handling(q)) /\ (pc'[q] = "put" <=> pc[q] = "put")
  <2>1. /\ (Adding(x)' <=> Adding(x)) /\ (pc'[x] = "idle" <=> pc[x] = "idle")
        /\ (pc'[x] \in {"wait", "cancel"} <=> pc[x] \in {"wait", "cancel"})
    BY <1>1, <1>5, Names DEF Adding
  <2>2. Linked(x)' <=> Linked(x) /\ x \notin Range(d)
    BY <1>4 DEF Linked
  <2>3. ~InCompleted(p, x) /\ (InCompleted(p, x)' <=> x \in Range(d) \ D)
    BY <1>2, <1>4 DEF InCompleted, Range
  <2>4. \A q \in Procs : q # p => (InCompleted(q, x)' <=> InCompleted(q, x))
    BY <1>4 DEF InCompleted
  <2>5. \A q \in Procs : (Handling(q)' <=> Handling(q)) /\ (pc'[q] = "put" <=> pc[q] = "put")
    BY <1>1, <1>5 DEF Handling
  <2> QED BY <2>1, <2>2, <2>3, <2>4, <2>5
<1>8. ASSUME NEW x \in Waiters, x \notin Range(d) PROVE WaiterOK(x)' /\ Weight(x)' = Weight(x)
  <2>1. waiter'[x] = waiter[x] /\ waiter'[x].count = waiter[x].count /\ (x \in doomed' <=> x \in doomed)
        /\ (Linked(x)' <=> Linked(x))
    BY <1>1, <1>4, <1>7, <1>8
  <2>2. \A q \in Procs : InCompleted(q, x)' <=> InCompleted(q, x)
    BY <1>7, <1>8
  <2>3. \A q \in Procs : InCompleted(q, x) => q # p /\ completed'[q] = completed[q]
    BY <1>4, <1>7
  <2>4. WaiterOK(x)'
    BY <1>0, <1>7, <2>1, <2>2, <2>3, WaiterFrame
  <2>5. Weight(x)' = Weight(x)
    BY <1>7, <2>1, <2>2, <2>3, WeightFrame
  <2> QED BY <2>4, <2>5
<1>9. ASSUME NEW x \in Range(d)
      PROVE  /\ x \in Waiters /\ Linked(x) /\ ~Adding(x) /\ waiter[x].refcount = 1 + OwnerRefs(x)
             /\ State(x) = PENDING <=> x \in SubmitWaiters \/ pc[x] \in {"wait", "cancel"}
             /\ \A q \in Procs : ~InCompleted(q, x)
             /\ ~Adding(x)' /\ ~Linked(x)' /\ OwnerRefs(x)' = OwnerRefs(x)
             /\ \A q \in Procs : InCompleted(q, x)' <=> q = p /\ x \notin D
  <2>1. /\ x \in Waiters /\ Linked(x) /\ ~Held(x) /\ ~Adding(x) /\ waiter[x].refcount = 1 + OwnerRefs(x)
        /\ State(x) = PENDING <=> x \in SubmitWaiters \/ pc[x] \in {"wait", "cancel"}
    BY <1>2, <1>4, ListedIs
  <2>2. \A q \in Procs : ~InCompleted(q, x)
    BY <2>1 DEF Held
  <2>3. ~Adding(x)' /\ ~Linked(x)' /\ OwnerRefs(x)' = OwnerRefs(x)
    BY <1>7, <2>1 DEF OwnerRefs
  <2>4. \A q \in Procs : InCompleted(q, x)' <=> q = p /\ x \notin D
    BY <1>7, <2>1, <2>2
  <2> QED BY <2>1, <2>2, <2>3, <2>4
<1>10. ASSUME NEW x \in Range(d), x \notin D PROVE WaiterOK(x)'
  <2>1. waiter'[x].state = REMOVED /\ waiter'[x].refcount = waiter[x].refcount /\ State(x) = PENDING
    BY <1>3, <1>10, TakenIs DEF D
  <2>2. State(x)' = REMOVED /\ Held(x)'
    BY <1>9, <1>10, <2>1 DEF State, Held
  <2>3. AddOK(x)' /\ LinkOK(x)' /\ LastOK(x)'
    BY <1>9, <2>2 DEF AddOK, LinkOK, LastOK
  <2>4. x \in WakeWaiters => pc'[x] \in {"wait", "cancel"}
    BY <1>7, <1>9, <2>1, Names
  <2>5. HeldOK(x)'
    BY <1>5, <1>9, <2>2, <2>4 DEF HeldOK
  <2>6. RefOK(x)'
    <3>1. ListRefs(x)' = 1
      BY <2>2 DEF ListRefs, Held
    <3> QED BY <1>9, <2>1, <3>1 DEF RefOK
  <2> QED BY <2>3, <2>5, <2>6 DEF WaiterOK
<1>11. ASSUME NEW x \in Range(d), x \in D PROVE WaiterOK(x)'
  <2>1. /\ waiter'[x].refcount = waiter[x].refcount - 1
        /\ waiter[x].refcount # 1 => waiter'[x].state = HANDLED
    BY <1>3, <1>11, TakenIs DEF D
  <2>2. ~Held(x)' /\ \A q \in Procs : ~InCompleted(q, x)'
    BY <1>9, <1>11 DEF Held
  <2>3. AddOK(x)' /\ LinkOK(x)' /\ HeldOK(x)'
    BY <1>9, <2>2 DEF AddOK, LinkOK, HeldOK
  <2>4. OwnerRefs(x) \in {0, 1} /\ (x \in WakeWaiters /\ pc'[x] # "idle" => OwnerRefs(x) = 1)
    BY <1>7, <1>9 DEF OwnerRefs
  <2>5. LastOK(x)'
    BY <1>9, <2>1, <2>4 DEF LastOK, State
  <2>6. RefOK(x)'
    <3>1. ListRefs(x)' = 0
      BY <1>9, <2>2 DEF ListRefs
    <3> QED BY <1>9, <2>1, <2>4, <3>1 DEF RefOK
  <2> QED BY <2>3, <2>5, <2>6 DEF WaiterOK
<1>12. \A x \in Waiters : WaiterOK(x)'
  BY <1>8, <1>10, <1>11
<1>13. BusyInv'
  <2> DEFINE A == Range(d) \cap SubmitWaiters
  <2>1. PICK h \in [A -> A] : \A i \in 1 .. Len(d) : d[i] \in SubmitWaiters =>
            /\ Followers(d, i) \in Nat
            /\ Cardinality({x \in A : h[x] = d[i]}) = IF Merged(d, i) THEN 0 ELSE 1 + Followers(d, i)
    BY <1>4, MergeIs
  <2>2. /\ Cardinality(Sleepers) \in Nat /\ leaks \in Nat /\ Total(Weights) \in Nat
        /\ Weights \in [SubmitWaiters -> Nat] /\ \A x \in SubmitWaiters : Weights[x] = Weight(x)
    BY <1>0, WeightsType
  <2>3. PICK g \in [SubmitWaiters -> Nat] : g = Weights' /\ \A x \in SubmitWaiters : g[x] = Weight(x)'
    <3>1. \A x \in SubmitWaiters : Weight(x)' \in Nat
      <4>1. \A x \in SubmitWaiters : waiter'[x].count \in Nat
        BY Names DEF Types, WaitRec
      <4> QED BY <4>1 DEF Weight
    <3>2. Weights' \in [SubmitWaiters -> Nat] /\ \A x \in SubmitWaiters : Weights'[x] = Weight(x)'
      BY <3>1 DEF Weights
    <3> QED BY <3>2
  <2>4. \A x \in A : Weights[x] = 1
    BY <1>9, <2>2 DEF Weight
  <2>5. ASSUME NEW x \in A PROVE g[x] = Cardinality({y \in A : h[y] = x})
    <3>1. DOMAIN d = 1 .. Len(d) /\ \E i \in 1 .. Len(d) : d[i] = x
      BY RangeIs
    <3>2. PICK i \in 1 .. Len(d) : d[i] = x /\ i = CHOOSE j \in DOMAIN d : d[j] = x
      BY <3>1
    <3>3. x \in SubmitWaiters /\ x \in Range(d) /\ x \in Waiters
      BY Names
    <3>4. Cardinality({y \in A : h[y] = x}) = IF Merged(d, i) THEN 0 ELSE 1 + Followers(d, i)
      BY <2>1, <3>2, <3>3
    <3>5. x \in D <=> Merged(d, i)
      <4>1. x \in D <=> x \in MergedOf(d)
        BY <1>2, <1>4, <3>3, ListedIs DEF D
      <4>2. \A j \in 1 .. Len(d) : d[j] = x => j = i
        BY <1>4, <3>1, <3>2 DEF IsInjective
      <4>3. x \in MergedOf(d) <=> \E j \in 1 .. Len(d) : Merged(d, j) /\ d[j] = x
        BY <3>1 DEF MergedOf
      <4> QED BY <3>2, <4>1, <4>2, <4>3
    <3>6. CASE x \in D
      <4>1. Weight(x)' = 0
        BY <1>9, <3>3, <3>6 DEF Weight
      <4> QED BY <2>3, <3>3, <3>4, <3>5, <3>6, <4>1
    <3>7. CASE x \notin D
      <4>1. InCompleted(p, x)' /\ ~Handling(p)' /\ ~Adding(x)' /\ ~Linked(x)'
        BY <1>5, <1>9, <3>3, <3>7 DEF Handling
      <4>2. Weight(x)' = waiter'[x].count
        BY <4>1 DEF Weight
      <4>3. waiter'[x].count = 1 + JobsOf(d, x)
        BY <1>3, <3>3, <3>7, TakenIs DEF D
      <4>4. JobsOf(d, x) = Followers(d, i)
        BY <3>2, <3>3 DEF JobsOf
      <4> QED BY <2>3, <3>3, <3>4, <3>5, <3>7, <4>2, <4>3, <4>4
    <3> QED BY <3>6, <3>7
  <2>6. \A x \in SubmitWaiters \ A : g[x] = Weights[x]
    BY <1>8, <2>2, <2>3, Names
  <2>7. A \in SUBSET SubmitWaiters
    OBVIOUS
  <2> HIDE DEF A
  <2>8. Total(g) = Total(Weights)
    <3>1. PICK f \in [SubmitWaiters -> Nat] : f = Weights
      BY <2>2
    <3>2. Regroups(f, g, A, h)
      BY <2>4, <2>5, <2>6, <3>1 DEF Regroups
    <3>3. Total(g) = Total(f)
      BY <2>7, <3>2, TotalRegroup
    <3> QED BY <3>1, <3>3
  <2>9. Total(Weights)' = Total(g)
    BY <2>3 DEF Total, Pairs
  <2>10. Sleepers' = Sleepers
    BY <1>7, Names DEF Sleepers
  <2> QED BY <1>0, <1>1, <2>8, <2>9, <2>10 DEF BusyInv
<1> QED BY <1>6, <1>12, <1>13 DEF Holders

-----------------------------------------------------------------------------
(* Types *)

LEMMA WordIs ==
    /\ Off \notin Word /\ 0 \in Word
    /\ \A a, b \in Word : Sub(a, b) \in Word
    /\ \A a \in Word : \A n \in Nat : n < Half => Add(a, n) \in Word
BY HalfAssumption DEF Word, M, Off, Sub, Add

(* an open window admits less than half the range *)
LEMMA WindowIs ==
    ASSUME Types, NEW n \in Nat, WindowOpen(n)
    PROVE  n < Half
<1>1. hw \in HeldWords
  BY DEF HeldWords
<1>2. Sub(Top, hw) + n < Half
  BY <1>1 DEF WindowOpen
<1>3. CASE ClientManaged
  <2>1. Top = Add(hw, MaxAhead)
    BY <1>3 DEF Top
  <2>2. hw \in Int /\ MaxAhead \in Nat /\ hw >= 0 /\ hw < M /\ M = Half + Half /\ Half \in Nat
    BY HalfAssumption, IntrAssumption DEF Types, Word, M
  <2>3. Sub(Top, hw) >= 0 /\ Sub(Top, hw) \in Int
    BY <2>1, <2>2 DEF Sub, Add
  <2> QED BY <1>2, <2>2, <2>3
<1>4. CASE ~ClientManaged
  <2>1. Sub(Top, hw) \in Word
    BY <1>4, WordIs DEF Top, Types
  <2>2. Sub(Top, hw) >= 0 /\ Sub(Top, hw) \in Int /\ Half \in Nat
    BY <2>1, HalfAssumption DEF Word
  <2> QED BY <1>2, <2>2
<1> QED BY <1>3, <1>4

LEMMA NewTypes ==
    ASSUME IntrInv, NEW w \in Waiters, NEW th \in Word, NEW n \in 1 .. 2,
           NewWaiter(w, th, n), ModuleBusy(1), Goto(w, "add"), max_val' \in Word,
           UNCHANGED <<hw, wait_head, irq_requested, isr, thread_woken, sync, completed, leaks, doomed>>
    PROVE  Types'
<1>0. Types
  BY DEF IntrInv
<1> DEFINE r == [refcount |-> n, state |-> PENDING, thresh |-> th, count |-> 1]
<1>1. r \in WaitRec
  BY DEF WaitRec, PENDING, HANDLED
<1>2. waiter' = [waiter EXCEPT ![w] = r]
  BY DEF NewWaiter
<1> HIDE DEF r
<1>3. waiter' \in [Waiters -> WaitRec]
  BY <1>0, <1>1, <1>2 DEF Types
<1>4. pc' \in [Procs -> AllPcs]
  BY <1>0, Names DEF Types, Goto, AllPcs, AddPcs
<1>5. armed' \in Word \cup {Off} /\ busy' \in Int /\ stop' = "on"
  BY <1>0 DEF Types, ModuleBusy
<1> QED BY <1>0, <1>3, <1>4, <1>5 DEF Types

LEMMA NextTypes ==
    ASSUME IntrInv, Next
    PROVE  Types'
<1>0. Types /\ \A q \in Procs : ProcOK(q)
  BY DEF IntrInv
<1>a. \A l \in AllPcs : \A p \in Procs : pc' = [pc EXCEPT ![p] = l] => pc' \in [Procs -> AllPcs]
  BY <1>0 DEF Types
<1>b. {"idle", "add", "request", "relock", "wait", "cancel", "read", "lock", "run", "xchg", "put", "drop"} \subseteq AllPcs
  BY DEF AllPcs, AddPcs, ProcessPcs
<1>1. ASSUME NEW w \in Waiters, NEW th \in Word, WaitTimeout(w, th) PROVE Types'
  <2>1. max_val' \in Word
    BY <1>0, <1>1 DEF WaitTimeout, Types
  <2> QED BY <1>1, <2>1, NewTypes DEF WaitTimeout
<1>2. ASSUME NEW w \in Waiters, NEW n \in 1 .. MaxIncrs, ChannelSubmit(w, n) PROVE Types'
  <2>1. n \in Nat /\ WindowOpen(n) /\ max_val' = Add(max_val, n)
    BY <1>2, IntrAssumption DEF ChannelSubmit
  <2>2. max_val' \in Word
    BY <1>0, <2>1, WindowIs, WordIs DEF Types
  <2>3. PICK th \in Word : th = max_val'
    BY <2>2
  <2> QED BY <1>2, <2>2, <2>3, NewTypes DEF ChannelSubmit
<1>3. ASSUME NEW w \in Waiters, Enqueue(w), Adding(w) PROVE Types'
  <2>1. wait_head' = InsertAt(wait_head, InsertPos(w), w) /\ wait_head \in Seq(Waiters) /\ IsInjective(wait_head)
    BY <1>0, <1>3 DEF Enqueue, Types
  <2>2. PICK k \in 1 .. Len(wait_head) + 1 : k = InsertPos(w)
    BY <1>0, InsertPosIs
  <2>3. w \notin Range(wait_head)
    BY <1>3 DEF IntrInv, WaiterOK, AddOK, Linked
  <2>4. InsertAt(wait_head, k, w) \in Seq(Waiters) /\ IsInjective(InsertAt(wait_head, k, w))
    BY <2>1, <2>3, InsertIs
  <2>5. armed' \in Word \cup {Off}
    BY <1>0, <1>3 DEF Enqueue, Types, WaitRec, Thresh
  <2>6. pc' \in [Procs -> AllPcs]
    BY <1>3, <1>a, <1>b, Names DEF Enqueue, Goto
  <2> QED BY <1>0, <1>3, <2>1, <2>2, <2>4, <2>5, <2>6 DEF Enqueue, Types
<1>4. ASSUME NEW w \in Waiters, AddActionNoIrq(w) \/ RequestIrq(w) \/ WaitOver(w) PROVE Types'
  <2>1. pc' \in [Procs -> AllPcs]
    BY <1>4, <1>a, <1>b, Names DEF AddActionNoIrq, RequestIrq, WaitOver, Goto
  <2> QED BY <1>0, <1>4, <2>1 DEF Types, AddActionNoIrq, RequestIrq, WaitOver, hvars
<1>5. ASSUME NEW w \in Waiters, RequestIrqFails(w) PROVE Types'
  <2>1. pc' \in [Procs -> AllPcs]
    BY <1>5, <1>a, <1>b, Names DEF RequestIrqFails, Goto
  <2>2. Freed \in WaitRec
    BY HalfAssumption DEF Freed, WaitRec, PENDING, HANDLED, Word, M
  <2>3. waiter' \in [Waiters -> WaitRec]
    BY <1>0, <1>5, <2>2 DEF Types, RequestIrqFails
  <2>4. busy' \in Int /\ leaks' \in 0 .. MaxLeaks
    BY <1>0, <1>5, IntrAssumption DEF Types, RequestIrqFails
  <2> QED BY <1>0, <1>5, <2>1, <2>3, <2>4 DEF Types, RequestIrqFails, hvars
<1>6. ASSUME NEW w \in Waiters, Cancel(w) PROVE Types'
  <2>1. pc' \in [Procs -> AllPcs]
    BY <1>6, <1>a, <1>b, Names DEF Cancel, Goto
  <2>2. PICK n \in PENDING .. HANDLED : waiter' = [waiter EXCEPT ![w] = [waiter[w] EXCEPT !.state = n]]
    <3> DEFINE m == IF waiter[w].state = PENDING THEN CANCELLED ELSE waiter[w].state
    <3>1. m \in PENDING .. HANDLED
      BY <1>0 DEF Types, WaitRec, PENDING, HANDLED, CANCELLED
    <3>2. waiter' = [waiter EXCEPT ![w] = [waiter[w] EXCEPT !.state = m]]
      BY <1>0, <1>6 DEF Types, Cancel
    <3> HIDE DEF m
    <3> QED BY <3>1, <3>2
  <2>3. waiter[w] \in WaitRec
    BY <1>0 DEF Types
  <2>4. [waiter[w] EXCEPT !.state = n] \in WaitRec
    BY <2>3, RecState
  <2>5. waiter' \in [Waiters -> WaitRec]
    BY <1>0, <2>2, <2>4 DEF Types
  <2> QED BY <1>0, <1>6, <2>1, <2>5 DEF Types, Cancel, hvars
<1>7. ASSUME NEW w \in Waiters, DropRef(w) PROVE Types'
  <2>1. pc' \in [Procs -> AllPcs]
    BY <1>7, <1>a, <1>b, Names DEF DropRef, Goto
  <2>2. pc[w] = "drop" /\ waiter[w] \in WaitRec /\ RefOK(w)
    BY <1>0, <1>7 DEF DropRef, Types, IntrInv, WaiterOK
  <2>3. waiter[w].refcount # 0
    BY <2>2, PutRefIsWake DEF RefOK, ListRefs, OwnerRefs
  <2>4. KrefPut(waiter[w]) \in WaitRec
    BY <2>2, <2>3, RecPut
  <2>5. waiter' \in [Waiters -> WaitRec] /\ busy' \in Int
    BY <1>0, <1>7, <2>4 DEF Types, DropRef
  <2> QED BY <1>0, <1>7, <2>1, <2>5 DEF Types, DropRef, hvars
<1>8. ASSUME NEW p \in Procs, ReadSync(p) \/ HandlersDone(p) PROVE Types'
  <2>1. pc' \in [Procs -> AllPcs]
    BY <1>8, <1>a, <1>b DEF ReadSync, HandlersDone, Goto
  <2>2. sync' \in [Procs -> Word]
    BY <1>0, <1>8 DEF ReadSync, HandlersDone, Types
  <2> QED BY <1>0, <1>8, <2>1, <2>2 DEF Types, ReadSync, HandlersDone, hvars
<1>9. ASSUME NEW p \in Procs, ProcessWaitList(p) PROVE Types'
  <2>1. pc' \in [Procs -> AllPcs]
    BY <1>9, <1>a, <1>b DEF ProcessWaitList, Goto
  <2>2. sync' \in [Procs -> Word]
    BY <1>0, <1>9, WordIs DEF ProcessWaitList, Types
  <2>3. PICK d \in Seq(Waiters) : d = DonePrefix(p)
    BY <1>0, <1>9, ProcessUnfold
  <2>4. /\ wait_head' \in Seq(Waiters) /\ IsInjective(wait_head')
        /\ armed' = IF wait_head' = << >> THEN Off ELSE waiter[Head(wait_head')].thresh
        /\ completed' \in [Procs -> Seq(Waiters)] /\ waiter' = [w \in Waiters |-> waiter'[w]]
    BY <1>0, <1>9, ProcessUnfold
  <2>5. \A w \in Waiters : waiter'[w] =
            IF w \in DroppedOf(d) THEN KrefPut([waiter[w] EXCEPT !.state = @ + 1])
            ELSE IF w \in Range(d)
            THEN [waiter[w] EXCEPT !.state = @ + 1, !.count = @ + JobsOf(d, w)]
            ELSE waiter[w]
    BY <1>0, <1>9, <2>3, ProcessUnfold
  <2>6. DroppedOf(d) \subseteq Range(d)
    <3>1. DOMAIN d = 1 .. Len(d) /\ \A x : x \in Range(d) <=> \E i \in 1 .. Len(d) : d[i] = x
      BY RangeIs
    <3> QED BY <3>1 DEF DroppedOf, MergedOf
  <2>7. ASSUME NEW w \in Waiters PROVE waiter'[w] \in WaitRec
    <3>1. CASE w \in Range(d) BY <1>9, <2>3, <3>1, TakenIs
    <3>2. CASE w \notin Range(d)
      <4>1. waiter'[w] = waiter[w]
        BY <2>5, <2>6, <3>2
      <4> QED BY <1>0, <4>1 DEF Types
    <3> QED BY <3>1, <3>2
  <2>8. waiter' \in [Waiters -> WaitRec]
    BY <2>4, <2>7
  <2>9. armed' \in Word \cup {Off}
    <3>1. ASSUME wait_head' # << >> PROVE waiter[Head(wait_head')].thresh \in Word
      <4>1. PICK s \in Seq(Waiters) : s = wait_head'
        BY <2>4
      <4>2. Head(s) \in Waiters
        BY <3>1, <4>1
      <4> QED BY <1>0, <4>1, <4>2 DEF Types, WaitRec
    <3> QED BY <2>4, <3>1
  <2>10. UNCHANGED <<hw, max_val, irq_requested, isr, thread_woken, busy, leaks, stop, doomed>>
    BY <1>9 DEF ProcessWaitList
  <2> QED BY <1>0, <2>1, <2>2, <2>4, <2>8, <2>9, <2>10 DEF Types
<1>10. ASSUME NEW p \in Procs, RunHandler(p) PROVE Types'
  <2>1. pc' \in [Procs -> AllPcs]
    BY <1>10, <1>a, <1>b DEF RunHandler, Goto
  <2>2. busy' \in Int
    <3>1. Head(completed[p]) \in Waiters
      BY <1>10, HeadIs DEF RunHandler
    <3>2. waiter[Head(completed[p])].count \in Int
      BY <1>0, <3>1 DEF Types, WaitRec
    <3> QED BY <1>0, <1>10, <3>2 DEF RunHandler, Types
  <2> QED BY <1>0, <1>10, <2>1, <2>2 DEF Types, RunHandler, hvars
<1>11. ASSUME NEW p \in Procs, MarkHandled(p) PROVE Types'
  <2>1. pc' \in [Procs -> AllPcs]
    BY <1>11, <1>a, <1>b DEF MarkHandled, Goto
  <2>2. completed[p] # << >>
    BY <1>0, <1>11 DEF MarkHandled, ProcOK, Handling
  <2>3. PICK w \in Waiters : w = Head(completed[p])
    BY <2>2, HeadIs
  <2>4. waiter' = [waiter EXCEPT ![w] = [waiter[w] EXCEPT !.state = HANDLED]] /\ waiter[w] \in WaitRec
    BY <1>0, <1>11, <2>3 DEF MarkHandled, Types
  <2>5. HANDLED \in PENDING .. HANDLED
    BY DEF PENDING, HANDLED
  <2>6. [waiter[w] EXCEPT !.state = HANDLED] \in WaitRec
    BY <2>4, <2>5, RecState
  <2>7. waiter' \in [Waiters -> WaitRec]
    BY <1>0, <2>4, <2>6 DEF Types
  <2> QED BY <1>0, <1>11, <2>1, <2>7 DEF Types, MarkHandled, hvars
<1>12. ASSUME NEW p \in Procs, PutHandled(p) PROVE Types'
  <2>1. pc' \in [Procs -> AllPcs]
    BY <1>12, <1>a, <1>b DEF PutHandled, Goto
  <2>2. completed[p] # << >>
    BY <1>0, <1>12 DEF PutHandled, ProcOK, Handling
  <2>3. PICK w \in Waiters : w = Head(completed[p])
    BY <2>2, HeadIs
  <2>4. Held(w) /\ waiter[w] \in WaitRec /\ RefOK(w)
    BY <1>0, <2>2, <2>3, HeadIs DEF Types, IntrInv, WaiterOK
  <2>5. waiter[w].refcount # 0
    BY <2>4 DEF RefOK, ListRefs, OwnerRefs, Held
  <2>6. KrefPut(waiter[w]) \in WaitRec
    BY <2>4, <2>5, RecPut
  <2>7. waiter' \in [Waiters -> WaitRec]
    BY <1>0, <1>12, <2>3, <2>6 DEF Types, PutHandled
  <2>8. completed' \in [Procs -> Seq(Waiters)]
    <3>1. completed[p] \in Seq(Waiters)
      BY <1>0 DEF Types
    <3>2. Tail(completed[p]) \in Seq(Waiters)
      BY <2>2, <3>1
    <3>3. completed' = [completed EXCEPT ![p] = Tail(completed[p])]
      BY <1>12 DEF PutHandled
    <3> QED BY <1>0, <3>2, <3>3 DEF Types
  <2> QED BY <1>0, <1>12, <2>1, <2>7, <2>8 DEF Types, PutHandled, hvars
<1>13. ASSUME InterruptRaised \/ ThreshIsr PROVE Types'
  BY <1>0, <1>13 DEF Types, InterruptRaised, ThreshIsr, pvars
<1>14. ASSUME ThreshFn PROVE Types'
  <2>1. pc' \in [Procs -> AllPcs]
    BY <1>14, <1>a, <1>b, Names DEF ThreshFn, Goto
  <2> QED BY <1>0, <1>14, <2>1 DEF Types, ThreshFn
<1>15. ASSUME EngineIncr \/ SyncptIncr \/ SyncptRead PROVE Types'
  <2>1. Add(hw, 1) \in Word /\ Add(max_val, 1) \in Word
    BY <1>0, WordIs, HalfAssumption DEF Types
  <2>2. hw' \in Word /\ max_val' \in Word
    BY <1>0, <1>15, <2>1 DEF Types, EngineIncr, SyncptIncr, SyncptRead
  <2>3. armed' \in Word \cup {Off} /\ busy' \in Int /\ stop' \in {"on", "walk", "free", "off"}
    BY <1>0, <1>15 DEF Types, EngineIncr, SyncptIncr, SyncptRead, ModuleBusy, hvars
  <2>4. UNCHANGED <<waiter, wait_head, irq_requested, isr, thread_woken, pc, sync, completed, leaks, doomed>>
    BY <1>15 DEF EngineIncr, SyncptIncr, SyncptRead, hvars, pvars
  <2> QED BY <1>0, <2>2, <2>3, <2>4 DEF Types
<1>16. ASSUME StopDisable \/ StopListEmpty \/ StopFreeIrq PROVE Types'
  BY <1>0, <1>16 DEF Types, StopDisable, StopListEmpty, StopFreeIrq, pvars, hvars
<1>17. ASSUME NEW w \in Waiters, StopMark(w) PROVE Types'
  <2>1. waiter' = [waiter EXCEPT ![w] = [waiter[w] EXCEPT !.state = HANDLED]] /\ waiter[w] \in WaitRec
    BY <1>0, <1>17 DEF StopMark, Types
  <2>2. HANDLED \in PENDING .. HANDLED
    BY DEF PENDING, HANDLED
  <2>3. [waiter[w] EXCEPT !.state = HANDLED] \in WaitRec
    BY <2>1, <2>2, RecState
  <2>4. waiter' \in [Waiters -> WaitRec]
    BY <1>0, <2>1, <2>3 DEF Types
  <2> QED BY <1>0, <1>17, <2>4 DEF Types, StopMark, pvars, hvars
<1>18. ASSUME NEW w \in Waiters, StopUnlink(w) PROVE Types'
  <2>1. /\ completed' = completed /\ waiter' = [waiter EXCEPT ![w] = Freed]
        /\ wait_head' \in Seq(Waiters) /\ IsInjective(wait_head')
    BY <1>18, UnlinkIs
  <2>2. Freed \in WaitRec
    BY HalfAssumption DEF Freed, WaitRec, PENDING, HANDLED, Word, M
  <2>3. waiter' \in [Waiters -> WaitRec]
    BY <1>0, <2>1, <2>2 DEF Types
  <2>4. UNCHANGED <<hw, max_val, irq_requested, armed, isr, thread_woken, pc, sync, busy, leaks, stop>> /\ doomed' = {}
    BY <1>18 DEF StopUnlink, hvars
  <2> QED BY <1>0, <2>1, <2>3, <2>4 DEF Types
<1>19. ASSUME NEW w \in Waiters, AddAction(w) \/ AddActionRelock(w) PROVE Types'
  BY <1>3, <1>19 DEF AddAction, AddActionRelock, Adding
<1> QED BY <1>1, <1>2, <1>4, <1>5, <1>6, <1>7, <1>8, <1>9, <1>10, <1>11, <1>12, <1>13, <1>14, <1>15,
           <1>16, <1>17, <1>18, <1>19 DEF Next, AddStep, PutRefStep, ProcessStep, StopStep

-----------------------------------------------------------------------------
(* The invariant is inductive. *)

LEMMA NextStop ==
    ASSUME PromptIrq, IntrInv, Next
    PROVE  StopOK'
<1>0. Types /\ StopOK
  BY DEF IntrInv
<1>a. ASSUME stop' = "on", doomed' = {} PROVE StopOK'
  BY <1>a DEF StopOK
<1>b. ASSUME NEW p \in Procs, pc[p] # "idle", stop' = stop, doomed' = doomed PROVE StopOK'
  BY <1>a, <1>b, ActiveHost
<1>c. ASSUME NEW n, ModuleBusy(n), doomed' = doomed PROVE StopOK'
  BY <1>0, <1>a, <1>c DEF ModuleBusy, StopOK
<1>1. ASSUME NEW w \in Waiters, NEW th \in Word, WaitTimeout(w, th) PROVE StopOK'
  BY <1>1, <1>c DEF WaitTimeout
<1>2. ASSUME NEW w \in Waiters, NEW n \in 1 .. MaxIncrs, ChannelSubmit(w, n) PROVE StopOK'
  BY <1>2, <1>c DEF ChannelSubmit
<1>3. ASSUME NEW w \in Waiters, AddStep(w) \/ WaitOver(w) \/ PutRefStep(w) PROVE StopOK'
  <2>1. pc[w] # "idle" /\ stop' = stop /\ doomed' = doomed /\ w \in Procs
    BY <1>3, Names DEF AddStep, AddAction, AddActionNoIrq, AddActionRelock, Enqueue, RequestIrq,
                       RequestIrqFails, WaitOver, PutRefStep, Cancel, DropRef
  <2> QED BY <1>b, <2>1
<1>4. ASSUME NEW p \in Procs, ProcessStep(p) PROVE StopOK'
  <2>1. pc[p] # "idle" /\ stop' = stop /\ doomed' = doomed
    BY <1>4 DEF ProcessStep, ReadSync, ProcessWaitList, RunHandler, MarkHandled, PutHandled, HandlersDone
  <2> QED BY <1>b, <2>1
<1>5. ASSUME InterruptRaised \/ ThreshIsr \/ ThreshFn PROVE StopOK'
  <2>1. stop = "on" /\ stop' = stop /\ doomed' = doomed
    BY <1>0, <1>5 DEF InterruptRaised, ThreshIsr, ThreshFn, StopOK
  <2> QED BY <1>0, <1>a, <2>1 DEF StopOK
<1>6. ASSUME EngineIncr PROVE StopOK'
  <2>1. stop = "on" /\ stop' = stop /\ doomed' = doomed
    BY <1>6 DEF EngineIncr
  <2> QED BY <1>0, <1>a, <2>1 DEF StopOK
<1>7. ASSUME SyncptIncr \/ SyncptRead PROVE StopOK'
  BY <1>7, <1>c DEF SyncptIncr, SyncptRead
<1>8. ASSUME StopDisable PROVE StopOK'
  <2>1. /\ stop = "on" /\ busy = 0 /\ stop' = "walk" /\ armed' = Off /\ busy' = busy /\ isr' = isr
        /\ thread_woken' = thread_woken /\ pc' = pc /\ doomed' = doomed
        /\ ~isr /\ ~thread_woken /\ pc[Irq] = "idle"
    BY <1>8 DEF StopDisable, IrqQuiet, pvars
  <2>2. doomed = {}
    BY <1>0, <2>1 DEF StopOK
  <2> QED BY <2>1, <2>2 DEF StopOK
<1>9. ASSUME NEW w \in Waiters, StopMark(w) PROVE StopOK'
  <2>1. /\ stop = "walk" /\ Linked(w) /\ doomed' = {w}
        /\ UNCHANGED <<wait_head, armed, isr, thread_woken, pc, busy, stop>>
    BY <1>9 DEF StopMark, hvars, pvars
  <2>2. Linked(w)'
    BY <2>1 DEF Linked
  <2> QED BY <1>0, <2>1, <2>2 DEF StopOK
<1>10. ASSUME NEW w \in Waiters, StopUnlink(w) PROVE StopOK'
  <2>1. w \in doomed /\ doomed' = {} /\ UNCHANGED <<armed, isr, thread_woken, pc, busy, stop>>
    BY <1>10 DEF StopUnlink, hvars
  <2> QED BY <1>0, <2>1 DEF StopOK
<1>11. ASSUME StopListEmpty PROVE StopOK'
  BY <1>0, <1>11 DEF StopOK, StopListEmpty, StopWalked, hvars, pvars
<1>12. ASSUME StopFreeIrq PROVE StopOK'
  <2>1. /\ stop = "free" /\ stop' = "off"
        /\ UNCHANGED <<wait_head, armed, isr, thread_woken, pc, busy, doomed>>
    BY <1>12 DEF StopFreeIrq, hvars, pvars
  <2> QED BY <1>0, <2>1 DEF StopOK
<1> QED BY <1>1, <1>2, <1>3, <1>4, <1>5, <1>6, <1>7, <1>8, <1>9, <1>10, <1>11, <1>12 DEF Next, StopStep

LEMMA NextHolders ==
    ASSUME IntrInv, Types', Next
    PROVE  Holders'
<1>0. Types /\ StopOK /\ \A q \in Procs : ProcOK(q)
  BY DEF IntrInv
<1>a. {"idle", "add", "request", "relock", "wait", "cancel", "read", "lock", "run", "xchg", "put", "drop"} \subseteq AllPcs
  BY DEF AllPcs, AddPcs, ProcessPcs
<1>1. ASSUME NEW w \in Waiters, NEW th \in Word, WaitTimeout(w, th) PROVE Holders'
  <2> DEFINE r == [refcount |-> 2, state |-> PENDING, thresh |-> th, count |-> 1]
  <2>1. waiter' = [waiter EXCEPT ![w] = r] /\ w \in WakeWaiters /\ pc[w] = "idle" /\ ~Used(w)
        /\ busy' = busy + 1 /\ pc' = [pc EXCEPT ![w] = "add"]
        /\ UNCHANGED <<wait_head, completed, leaks, doomed>>
    BY <1>1 DEF WaitTimeout, NewWaiter, ModuleBusy, Goto
  <2>2. r.state = PENDING /\ r.count = 1 /\ r.refcount = IF w \in WakeWaiters THEN 2 ELSE 1
    BY <2>1
  <2> HIDE DEF r
  <2>3. waiter[w].refcount = 0
    <3>1. waiter[w].refcount \in 0 .. 2
      BY <1>0 DEF Types, WaitRec
    <3>2. ~(waiter[w].refcount > 0)
      BY <2>1 DEF Used
    <3> QED BY <3>1, <3>2
  <2> QED BY <2>1, <2>2, <2>3, HoldersNew
<1>2. ASSUME NEW w \in Waiters, NEW n \in 1 .. MaxIncrs, ChannelSubmit(w, n) PROVE Holders'
  <2> DEFINE r == [refcount |-> 1, state |-> PENDING, thresh |-> max_val', count |-> 1]
  <2>1. waiter' = [waiter EXCEPT ![w] = r] /\ w \in SubmitWaiters /\ pc[w] = "idle" /\ ~Used(w)
        /\ busy' = busy + 1 /\ pc' = [pc EXCEPT ![w] = "add"]
        /\ UNCHANGED <<wait_head, completed, leaks, doomed>>
    BY <1>2 DEF ChannelSubmit, NewWaiter, ModuleBusy, Goto
  <2>2. r.state = PENDING /\ r.count = 1 /\ r.refcount = IF w \in WakeWaiters THEN 2 ELSE 1
    BY <2>1, Names
  <2> HIDE DEF r
  <2>3. waiter[w].refcount = 0
    <3>1. waiter[w].refcount \in 0 .. 2
      BY <1>0 DEF Types, WaitRec
    <3>2. ~(waiter[w].refcount > 0)
      BY <2>1 DEF Used
    <3> QED BY <3>1, <3>2
  <2> QED BY <2>1, <2>2, <2>3, HoldersNew
<1>3. ASSUME NEW w \in Waiters, AddAction(w) \/ AddActionRelock(w) PROVE Holders'
  BY <1>3, EnqueueHolders DEF AddAction, AddActionRelock, Adding
<1>4. ASSUME NEW w \in Waiters, AddActionNoIrq(w) PROVE Holders'
  <2>1. pc[w] = "add" /\ pc' = [pc EXCEPT ![w] = "request"] /\ w \in Procs /\ w # Irq
        /\ UNCHANGED <<waiter, wait_head, completed, busy, leaks, doomed>>
    BY <1>4, Names DEF AddActionNoIrq, Goto
  <2>2. completed[w] = << >>
    BY <1>0, <2>1 DEF ProcOK
  <2>3. /\ "request" \in AllPcs /\ "request" \notin {"xchg", "put"} /\ ~Handling(w)
        /\ w # Irq => pc[w] # "idle" /\ "request" # "idle"
        /\ pc[w] \in AddPcs <=> "request" \in AddPcs
        /\ pc[w] \in {"wait", "cancel"} <=> "request" \in {"wait", "cancel"}
        /\ w \in SubmitWaiters => "request" \in AddPcs
        /\ w = Irq => "request" \in {"idle"} \cup ProcessPcs
    BY <1>a, <2>1, <2>2 DEF AddPcs, Handling, ProcessPcs
  <2> QED BY <2>1, <2>2, <2>3, PcMove
<1>5. ASSUME NEW w \in Waiters, RequestIrq(w) PROVE Holders'
  <2>1. pc[w] = "request" /\ pc' = [pc EXCEPT ![w] = "relock"] /\ w \in Procs /\ w # Irq
        /\ UNCHANGED <<waiter, wait_head, completed, busy, leaks, doomed>>
    BY <1>5, Names DEF RequestIrq, Goto
  <2>2. completed[w] = << >>
    BY <1>0, <2>1 DEF ProcOK
  <2>3. /\ "relock" \in AllPcs /\ "relock" \notin {"xchg", "put"} /\ ~Handling(w)
        /\ w # Irq => pc[w] # "idle" /\ "relock" # "idle"
        /\ pc[w] \in AddPcs <=> "relock" \in AddPcs
        /\ pc[w] \in {"wait", "cancel"} <=> "relock" \in {"wait", "cancel"}
        /\ w \in SubmitWaiters => "relock" \in AddPcs
        /\ w = Irq => "relock" \in {"idle"} \cup ProcessPcs
    BY <1>a, <2>1, <2>2 DEF AddPcs, Handling, ProcessPcs
  <2> QED BY <2>1, <2>2, <2>3, PcMove
<1>6. ASSUME NEW w \in Waiters, WaitOver(w) PROVE Holders'
  <2>1. pc[w] = "wait" /\ pc' = [pc EXCEPT ![w] = "cancel"] /\ w \in Procs /\ w # Irq
        /\ UNCHANGED <<waiter, wait_head, completed, busy, leaks, doomed>>
    BY <1>6, Names DEF WaitOver, Goto
  <2>2. completed[w] = << >> /\ w \notin SubmitWaiters
    BY <1>0, <2>1 DEF ProcOK, AddPcs
  <2>3. /\ "cancel" \in AllPcs /\ "cancel" \notin {"xchg", "put"} /\ ~Handling(w)
        /\ w # Irq => pc[w] # "idle" /\ "cancel" # "idle"
        /\ pc[w] \in AddPcs <=> "cancel" \in AddPcs
        /\ pc[w] \in {"wait", "cancel"} <=> "cancel" \in {"wait", "cancel"}
        /\ w \in SubmitWaiters => "cancel" \in AddPcs
        /\ w = Irq => "cancel" \in {"idle"} \cup ProcessPcs
    BY <1>a, <2>1, <2>2 DEF AddPcs, Handling, ProcessPcs
  <2> QED BY <2>1, <2>2, <2>3, PcMove
<1>7. ASSUME NEW p \in Procs, ReadSync(p) PROVE Holders'
  <2>1. pc[p] = "read" /\ pc' = [pc EXCEPT ![p] = "lock"]
        /\ UNCHANGED <<waiter, wait_head, completed, busy, leaks, doomed>>
    BY <1>7 DEF ReadSync, Goto
  <2>2. completed[p] = << >> /\ p \notin SubmitWaiters
    BY <1>0, <2>1 DEF ProcOK, AddPcs
  <2>3. /\ "lock" \in AllPcs /\ "lock" \notin {"xchg", "put"} /\ ~Handling(p)
        /\ p # Irq => pc[p] # "idle" /\ "lock" # "idle"
        /\ pc[p] \in AddPcs <=> "lock" \in AddPcs
        /\ pc[p] \in {"wait", "cancel"} <=> "lock" \in {"wait", "cancel"}
        /\ p \in SubmitWaiters => "lock" \in AddPcs
        /\ p = Irq => "lock" \in {"idle"} \cup ProcessPcs
    BY <1>a, <2>1, <2>2 DEF AddPcs, Handling, ProcessPcs
  <2> QED BY <2>1, <2>2, <2>3, PcMove
<1>8. ASSUME NEW p \in Procs, HandlersDone(p) PROVE Holders'
  <2> DEFINE l == IF p = Irq THEN "idle" ELSE "drop"
  <2>1. pc[p] = "run" /\ pc' = [pc EXCEPT ![p] = l] /\ completed[p] = << >>
        /\ UNCHANGED <<waiter, wait_head, completed, busy, leaks, doomed>>
    BY <1>8 DEF HandlersDone, Goto
  <2>2. p \notin SubmitWaiters
    BY <1>0, <2>1 DEF ProcOK, AddPcs
  <2>3. /\ l \in {"idle", "drop"} /\ (p = Irq => l = "idle") /\ (p # Irq => l = "drop")
    OBVIOUS
  <2> HIDE DEF l
  <2>4. /\ l \in AllPcs /\ l \notin {"xchg", "put"} /\ ~Handling(p)
        /\ p # Irq => pc[p] # "idle" /\ l # "idle"
        /\ pc[p] \in AddPcs <=> l \in AddPcs
        /\ pc[p] \in {"wait", "cancel"} <=> l \in {"wait", "cancel"}
    BY <1>a, <2>1, <2>3 DEF AddPcs, Handling
  <2> QED BY <2>1, <2>2, <2>3, <2>4, PcMove
<1>9. ASSUME ThreshFn PROVE Holders'
  <2>1. pc[Irq] = "idle" /\ pc' = [pc EXCEPT ![Irq] = "read"] /\ Irq \notin SubmitWaiters /\ Irq \in Procs
        /\ UNCHANGED <<waiter, wait_head, completed, busy, leaks, doomed>>
    BY <1>9, Names DEF ThreshFn, Goto
  <2>2. completed[Irq] = << >>
    BY <1>0, <2>1 DEF ProcOK
  <2> QED BY <1>a, <2>1, <2>2, PcMove DEF AddPcs, Handling, ProcessPcs
<1>10. ASSUME InterruptRaised \/ ThreshIsr \/ EngineIncr \/ SyncptIncr \/ SyncptRead \/ StopDisable
              \/ StopListEmpty \/ StopFreeIrq
       PROVE  Holders'
  <2>1. UNCHANGED <<waiter, wait_head, pc, completed, leaks, doomed>>
    BY <1>10 DEF InterruptRaised, ThreshIsr, EngineIncr, SyncptIncr, SyncptRead, StopDisable,
                 StopListEmpty, StopFreeIrq, pvars
  <2>2. busy' = busy
    BY <1>0, <1>10 DEF InterruptRaised, ThreshIsr, EngineIncr, SyncptIncr, SyncptRead, StopDisable,
                 StopListEmpty, StopFreeIrq, ModuleBusy, Types
  <2> QED BY <2>1, <2>2, HoldersSame
<1>11. ASSUME NEW w \in Waiters, AddStep(w) \/ WaitOver(w) \/ PutRefStep(w) PROVE Holders'
  BY <1>3, <1>4, <1>5, <1>6, <1>11, RequestIrqFailsHolders, CancelHolders, DropRefHolders DEF AddStep, PutRefStep
<1>12. ASSUME NEW p \in Procs, ProcessStep(p) PROVE Holders'
  BY <1>7, <1>8, <1>12, ProcessHolders, RunHandlerHolders, MarkHandledHolders, PutHandledHolders DEF ProcessStep
<1>13. ASSUME NEW w \in Waiters, StopMark(w) \/ StopUnlink(w) PROVE Holders'
  BY <1>13, StopMarkHolders, StopUnlinkHolders
<1> QED BY <1>1, <1>2, <1>9, <1>10, <1>11, <1>12, <1>13 DEF Next, StopStep

LEMMA InitInv ==
    ASSUME Init
    PROVE  IntrInv
<1>1. /\ hw \in Word /\ max_val \in Word /\ waiter = [w \in Waiters |-> Freed] /\ wait_head = << >>
      /\ irq_requested = FALSE /\ armed = Off /\ isr = FALSE /\ thread_woken = FALSE
      /\ pc = [p \in Procs |-> "idle"] /\ sync = [p \in Procs |-> 0]
      /\ completed = [p \in Procs |-> << >>] /\ busy = 0 /\ leaks = 0 /\ stop = "on" /\ doomed = {}
  BY DEF Init
<1>2. Freed \in WaitRec /\ Freed.refcount = 0 /\ Freed.state = PENDING
  BY HalfAssumption DEF Freed, WaitRec, PENDING, HANDLED, Word, M
<1>3. /\ \A w \in Waiters : waiter[w] = Freed /\ pc[w] = "idle"
      /\ \A p \in Procs : pc[p] = "idle" /\ completed[p] = << >>
  BY <1>1, Names
<1>4. \A w \in Waiters : ~Adding(w) /\ ~Linked(w) /\ ~Held(w) /\ \A p \in Procs : ~InCompleted(p, w)
  BY <1>1, <1>3 DEF Adding, Linked, Held, InCompleted, Range
<1>5. Types
  <2>1. waiter \in [Waiters -> WaitRec]
    BY <1>1, <1>2
  <2>2. wait_head \in Seq(Waiters) /\ IsInjective(wait_head)
    BY <1>1 DEF IsInjective
  <2>3. pc \in [Procs -> AllPcs] /\ sync \in [Procs -> Word]
    BY <1>1, WordIs DEF AllPcs
  <2>4. completed \in [Procs -> Seq(Waiters)]
    BY <1>1
  <2>5. leaks \in 0 .. MaxLeaks /\ busy \in Int
    BY <1>1, IntrAssumption
  <2>6. armed \in Word \cup {Off} /\ stop \in {"on", "walk", "free", "off"} /\ doomed \subseteq Waiters
    BY <1>1
  <2>7. irq_requested \in BOOLEAN /\ isr \in BOOLEAN /\ thread_woken \in BOOLEAN
    BY <1>1, Zenon
  <2> QED BY <1>1, <2>1, <2>2, <2>3, <2>4, <2>5, <2>6, <2>7 DEF Types
<1>6. StopOK
  BY <1>1 DEF StopOK
<1>7. \A p \in Procs : ProcOK(p)
  BY <1>3 DEF ProcOK, IsInjective, Handling
<1>8. ASSUME NEW w \in Waiters PROVE WaiterOK(w)
  <2>1. AddOK(w) /\ LinkOK(w) /\ HeldOK(w) /\ LastOK(w)
    BY <1>3, <1>4 DEF AddOK, LinkOK, HeldOK, LastOK
  <2>2. waiter[w].refcount = 0
    BY <1>2, <1>3
  <2>3. RefOK(w)
    BY <1>3, <1>4, <2>2 DEF RefOK, ListRefs, OwnerRefs
  <2> QED BY <2>1, <2>3 DEF WaiterOK
<1>9. BusyInv
  <2>1. \A w \in SubmitWaiters : Weight(w) = 0
    BY <1>4, Names DEF Weight
  <2>2. Pairs(Weights) = {}
    <3>1. \A w \in SubmitWaiters : Weights[w] = 0
      BY <2>1 DEF Weights
    <3> QED BY <3>1 DEF Pairs
  <2>3. Sleepers = {}
    BY <1>3, Names DEF Sleepers
  <2> QED BY <1>1, <2>2, <2>3, FS_EmptySet DEF BusyInv, Total
<1> QED BY <1>5, <1>6, <1>7, <1>8, <1>9 DEF IntrInv

LEMMA NextInv ==
    ASSUME PromptIrq, IntrInv, [Next]_vars
    PROVE  IntrInv'
<1>1. CASE Next
  <2>1. Types' /\ StopOK'
    BY <1>1, NextTypes, NextStop
  <2>2. Holders'
    BY <1>1, <2>1, NextHolders
  <2> QED BY <2>1, <2>2 DEF IntrInv, Holders
<1>2. CASE UNCHANGED vars
  <2>1. UNCHANGED <<hw, max_val, waiter, wait_head, irq_requested, armed, isr, thread_woken, pc, sync,
                    completed, busy, leaks, stop, doomed>>
    BY <1>2 DEF vars, hvars, pvars
  <2>2. Holders'
    BY <2>1, HoldersSame
  <2>3. Types' /\ StopOK'
    BY <2>1 DEF IntrInv, Types, StopOK, Linked
  <2> QED BY <2>2, <2>3 DEF IntrInv, Holders
<1> QED BY <1>1, <1>2

LEMMA InvAlways ==
    ASSUME PromptIrq
    PROVE  Spec => []IntrInv
<1>1. Init => IntrInv
  BY InitInv
<1>2. IntrInv /\ [Next]_vars => IntrInv'
  BY NextInv
<1> QED BY <1>1, <1>2, PTL DEF Spec

-----------------------------------------------------------------------------
(* The theorems.  As long as the interrupt thread is through before the    *)
(* clock is gated (PromptIrq):                                             *)

(* A waiter's reference count is the number of its holders, and it is on   *)
(* one list at a time: nvhost_intr_add_action, the completion of a wait,   *)
(* put_ref and nvhost_intr_stop never free a waiter somebody holds, and    *)
(* never lose one, however many waiters and sleeping threads there are.    *)
THEOREM RefsAreHolders ==
    ASSUME PromptIrq
    PROVE  Spec => []RefsMatchHolders
<1>1. ASSUME IntrInv PROVE RefsMatchHolders
  <2> SUFFICES ASSUME NEW w \in Waiters
               PROVE  /\ waiter[w].refcount = ListRefs(w) + OwnerRefs(w)
                      /\ Cardinality({p \in Procs : InCompleted(p, w)})
                            + (IF Linked(w) THEN 1 ELSE 0) <= 1
    BY DEF RefsMatchHolders
  <2>1. LinkOK(w) /\ HeldOK(w) /\ RefOK(w)
    BY <1>1 DEF IntrInv, WaiterOK
  <2> DEFINE H == {p \in Procs : InCompleted(p, w)}
  <2>2. CASE H = {}
    <3>1. Cardinality(H) = 0
      BY <2>2, FS_EmptySet
    <3> HIDE DEF H
    <3>2. Cardinality(H) + (IF Linked(w) THEN 1 ELSE 0) <= 1
      BY <3>1
    <3> QED BY <2>1, <3>2 DEF RefOK, H
  <2>3. CASE H # {}
    <3>1. PICK p \in Procs : InCompleted(p, w)
      BY <2>3
    <3>2. H = {p}
      BY <2>1, <3>1 DEF HeldOK
    <3>3. ~Linked(w)
      BY <2>1, <3>1 DEF LinkOK, Held
    <3> HIDE DEF H
    <3>4. Cardinality(H) = 1
      BY <3>2, FS_Singleton
    <3>5. Cardinality(H) + (IF Linked(w) THEN 1 ELSE 0) <= 1
      BY <3>3, <3>4
    <3> QED BY <2>1, <3>5 DEF RefOK, H
  <2> QED BY <2>2, <2>3
<1> QED BY <1>1, InvAlways, PTL

(* run_handlers wakes a thread only while it is in nvhost_syncpt_wait_     *)
(* timeout before its cmpxchg: put_ref's loop on WLS_REMOVED keeps the     *)
(* wait queue on its stack alive until the handler is through.             *)
THEOREM WakeupStack ==
    ASSUME PromptIrq
    PROVE  Spec => []WakeupFindsItsStack
<1>1. ASSUME IntrInv PROVE WakeupFindsItsStack
  <2> SUFFICES ASSUME NEW p \in Procs, NEW w \in WakeWaiters, pc[p] = "run", InCompleted(p, w)
               PROVE  pc[w] \in {"wait", "cancel"}
    BY DEF WakeupFindsItsStack
  <2>1. HeldOK(w)
    BY <1>1, Names DEF IntrInv, WaiterOK
  <2> QED BY <2>1 DEF HeldOK
<1> QED BY <1>1, InvAlways, PTL

(* When nvhost_intr_stop has walked the list of a point nothing is left:   *)
(* whoever is on it with another state than WLS_CANCELLED holds a module   *)
(* reference, and the host would not have been idle.                       *)
THEOREM StopNobody ==
    ASSUME PromptIrq
    PROVE  Spec => []StopFindsNobody
<1>1. ASSUME IntrInv PROVE StopFindsNobody
  <2> SUFFICES ASSUME StopWalked, wait_head # << >> PROVE FALSE
    BY DEF StopFindsNobody
  <2>1. stop = "walk" /\ doomed = {} /\ \A x \in Range(wait_head) : State(x) # CANCELLED
    BY DEF StopWalked
  <2>2. Types /\ StopOK /\ BusyInv /\ (\A x \in Waiters : WaiterOK(x))
    BY <1>1 DEF IntrInv
  <2>3. PICK w \in Waiters : w \in Range(wait_head)
    <3>1. wait_head \in Seq(Waiters)
      BY <2>2 DEF Types
    <3>2. 1 \in 1 .. Len(wait_head) /\ wait_head[1] \in Waiters
      BY <3>1
    <3>3. wait_head[1] \in Range(wait_head)
      BY <3>1, <3>2, RangeIs
    <3> QED BY <3>2, <3>3
  <2>4. Linked(w) /\ LinkOK(w) /\ waiter[w] \in WaitRec
    BY <2>2, <2>3 DEF Linked, WaiterOK, Types
  <2>5. State(w) = PENDING
    <3>1. State(w) # CANCELLED /\ State(w) # HANDLED /\ State(w) # REMOVED
      BY <2>1, <2>3, <2>4 DEF LinkOK
    <3> QED BY <2>4, <3>1 DEF WaitRec, State, PENDING, REMOVED, CANCELLED, HANDLED
  <2>6. CASE w \in SubmitWaiters
    <3>1. Weights[w] = 1
      BY <2>2, <2>4, <2>6, WeightsType DEF Weight
    <3>2. 1 <= Total(Weights)
      BY <2>2, <2>6, <3>1, WeightsType, TotalBound
    <3>3. busy >= 1
      BY <2>2, <3>2, WeightsType DEF BusyInv
    <3> QED BY <2>1, <2>2, <3>3 DEF StopOK
  <2>7. CASE pc[w] \in {"wait", "cancel"}
    <3>1. w \in Procs /\ pc[w] # "idle"
      BY <2>7, Names
    <3> QED BY <1>1, <2>1, <3>1, ActiveHost
  <2> QED BY <2>4, <2>5, <2>6, <2>7 DEF LinkOK
<1> QED BY <1>1, InvAlways, PTL

(* remove_completed_waiters increments only PENDING and CANCELLED: the     *)
(* atomic state never leaves enum waitlist_state.                          *)
THEOREM StatesInRange ==
    ASSUME PromptIrq
    PROVE  Spec => []StateStaysInRange
<1>1. ASSUME IntrInv PROVE StateStaysInRange
  <2> SUFFICES ASSUME NEW w \in Waiters PROVE State(w) # OVERRUN
    BY DEF StateStaysInRange
  <2>1. waiter[w] \in WaitRec
    BY <1>1 DEF IntrInv, Types
  <2> QED BY <2>1 DEF WaitRec, State, OVERRUN, PENDING, HANDLED
<1> QED BY <1>1, InvAlways, PTL

-----------------------------------------------------------------------------
(* The threshold *)

Waiting == isr \/ thread_woken \/ pc[Irq] \in {"read", "lock"}

(* The list, the threshold and the handlers stay, or a handler comes. *)
LEMMA ArmedSame ==
    ASSUME IntrInv, InterruptArmed, wait_head' = wait_head, stop = "on", armed' = armed \/ Waiting',
           Waiting => Waiting', \A w \in Waiters : Linked(w) => waiter'[w].thresh = waiter[w].thresh
    PROVE  InterruptArmed'
<1> SUFFICES ASSUME wait_head # << >>, ~Waiting' PROVE armed' = Thresh(Head(wait_head))'
  BY DEF InterruptArmed, Waiting
<1>1. armed = Thresh(Head(wait_head))
  BY DEF InterruptArmed, Waiting
<1>2. Head(wait_head) \in Waiters /\ Linked(Head(wait_head))
  <2>1. wait_head \in Seq(Waiters)
    BY DEF IntrInv, Types
  <2>2. 1 \in 1 .. Len(wait_head) /\ wait_head[1] \in Waiters /\ Head(wait_head) = wait_head[1]
    BY <2>1
  <2>3. wait_head[1] \in Range(wait_head)
    BY <2>1, <2>2, RangeIs
  <2> QED BY <2>2, <2>3 DEF Linked
<1> QED BY <1>1, <1>2 DEF Thresh

LEMMA ArmedNew ==
    ASSUME IntrInv, InterruptArmed, NEW w \in Waiters, NEW th, NEW n, NEW k, NewWaiter(w, th, n),
           ModuleBusy(k), Goto(w, "add"), UNCHANGED <<wait_head, isr, thread_woken>>
    PROVE  InterruptArmed'
<1>1. Types /\ StopOK /\ WaiterOK(w)
  BY DEF IntrInv
<1>2. CASE stop = "on"
  <2>1. armed' = armed
    BY <1>2 DEF ModuleBusy
  <2>2. pc'[Irq] = pc[Irq]
    BY <1>1, Names DEF Goto, Types
  <2>3. ~Linked(w)
    <3>1. waiter[w].refcount = 0
      <4>1. waiter[w].refcount \in 0 .. 2
        BY <1>1 DEF Types, WaitRec
      <4>2. ~(waiter[w].refcount > 0)
        BY DEF NewWaiter, Used
      <4> QED BY <4>1, <4>2
    <3> QED BY <1>1, <3>1, UnusedIs
  <2>4. \A x \in Waiters : x # w => waiter'[x] = waiter[x]
    BY <1>1 DEF NewWaiter, Types
  <2>5. Waiting => Waiting'
    BY <2>2 DEF Waiting
  <2>6. \A x \in Waiters : Linked(x) => waiter'[x].thresh = waiter[x].thresh
    BY <2>3, <2>4
  <2> QED BY <1>2, <2>1, <2>5, <2>6, ArmedSame
<1>3. CASE stop # "on"
  <2>1. wait_head = << >>
    BY <1>1, <1>3 DEF ModuleBusy, StopOK
  <2> QED BY <2>1 DEF InterruptArmed
<1> QED BY <1>2, <1>3

LEMMA ArmedEnqueue ==
    ASSUME IntrInv, InterruptArmed, NEW w \in Waiters, Adding(w), Enqueue(w)
    PROVE  InterruptArmed'
<1>0. Types /\ WaiterOK(w)
  BY DEF IntrInv
<1>1. PICK k \in 1 .. Len(wait_head) + 1 : k = InsertPos(w)
  BY <1>0, InsertPosIs
<1>2. wait_head \in Seq(Waiters)
  BY <1>0 DEF Types
<1>3. Head(InsertAt(wait_head, k, w)) = IF k = 1 THEN w ELSE Head(wait_head)
  BY <1>2, InsertIs
<1>4. /\ wait_head' = InsertAt(wait_head, k, w) /\ waiter' = waiter /\ isr' = isr
      /\ thread_woken' = thread_woken /\ stop' = stop
      /\ armed' = IF wait_head = << >> \/ (k = 1 /\ armed # Off) THEN Thresh(w) ELSE armed
  BY <1>1 DEF Enqueue
<1>5. pc'[Irq] = pc[Irq]
  BY <1>0, Names DEF Enqueue, Goto, Types
<1>6. wait_head = << >> => k = 1
  BY <1>1, <1>2
<1>7. \A x : Thresh(x)' = Thresh(x)
  BY <1>4 DEF Thresh
<1>8. stop = "on"
  BY ActiveHost, Names DEF Adding
<1>9. CASE k = 1
  <2>1. Thresh(Head(wait_head))' = Thresh(w)
    BY <1>3, <1>4, <1>7, <1>9
  <2>2. CASE wait_head = << >> \/ armed # Off
    BY <1>4, <1>9, <2>1, <2>2 DEF InterruptArmed
  <2>3. CASE wait_head # << >> /\ armed = Off
    <3>1. Head(wait_head) \in Waiters
      BY <1>2, <2>3
    <3>2. Thresh(Head(wait_head)) \in Word
      BY <1>0, <3>1 DEF Thresh, Types, WaitRec
    <3>3. isr \/ thread_woken \/ pc[Irq] \in {"read", "lock"}
      BY <1>8, <2>3, <3>2, WordIs DEF InterruptArmed
    <3> QED BY <1>4, <1>5, <3>3 DEF InterruptArmed
  <2> QED BY <2>2, <2>3
<1>10. CASE k # 1
  <2>1. Thresh(Head(wait_head))' = Thresh(Head(wait_head)) /\ wait_head # << >> /\ armed' = armed
    BY <1>3, <1>4, <1>6, <1>7, <1>10
  <2> QED BY <1>4, <1>5, <2>1 DEF InterruptArmed
<1> QED BY <1>9, <1>10

LEMMA ArmedProcess ==
    ASSUME IntrInv, NEW p \in Procs, ProcessWaitList(p)
    PROVE  InterruptArmed'
<1>0. Types
  BY DEF IntrInv
<1> SUFFICES ASSUME wait_head' # << >> PROVE armed' = Thresh(Head(wait_head))'
  BY DEF InterruptArmed
<1>1. PICK d \in Seq(Waiters) : d = DonePrefix(p)
  BY <1>0, ProcessUnfold
<1>2. /\ wait_head' \in Seq(Waiters) /\ Range(wait_head') = Range(wait_head) \ Range(d)
      /\ armed' = waiter[Head(wait_head')].thresh
  BY <1>0, <1>1, ProcessUnfold
<1>3. PICK s \in Seq(Waiters) : s = wait_head'
  BY <1>2
<1>4. Head(s) \in Waiters /\ Head(s) \in Range(s)
  <2>1. 1 \in 1 .. Len(s) /\ s[1] \in Waiters /\ Head(s) = s[1]
    BY <1>3
  <2> QED BY <2>1, RangeIs
<1>5. PICK w \in Waiters : w = Head(wait_head')
  BY <1>3, <1>4
<1>6. w \notin Range(d)
  BY <1>2, <1>3, <1>4, <1>5
<1>7. w \notin DroppedOf(d)
  <2>1. DOMAIN d = 1 .. Len(d) /\ \A x : x \in Range(d) <=> \E i \in 1 .. Len(d) : d[i] = x
    BY RangeIs
  <2> QED BY <1>6, <2>1 DEF DroppedOf, MergedOf
<1>8. \A x \in Waiters : waiter'[x] =
          IF x \in DroppedOf(d) THEN KrefPut([waiter[x] EXCEPT !.state = @ + 1])
          ELSE IF x \in Range(d)
          THEN [waiter[x] EXCEPT !.state = @ + 1, !.count = @ + JobsOf(d, x)]
          ELSE waiter[x]
  BY <1>0, <1>1, ProcessUnfold
<1>9. waiter'[w] = waiter[w]
  BY <1>6, <1>7, <1>8
<1> QED BY <1>2, <1>5, <1>9 DEF Thresh

LEMMA NextArmed ==
    ASSUME PromptIrq, IntrInv, InterruptArmed, Next
    PROVE  InterruptArmed'
<1>0. Types /\ StopOK /\ (\A q \in Procs : ProcOK(q)) /\ (\A x \in Waiters : WaiterOK(x))
  BY DEF IntrInv
<1>a. ASSUME NEW p \in Procs, NEW l, pc' = [pc EXCEPT ![p] = l], pc[p] # "idle",
             pc[p] \in {"read", "lock"} => l \in {"read", "lock"},
             UNCHANGED <<wait_head, armed, isr, thread_woken>>,
             \A w \in Waiters : Linked(w) => waiter'[w].thresh = waiter[w].thresh
      PROVE  InterruptArmed'
  <2>1. stop = "on"
    BY <1>a, ActiveHost
  <2>2. pc'[p] = l /\ \A q \in Procs : q # p => pc'[q] = pc[q]
    BY <1>0, <1>a DEF Types
  <2>3. pc[Irq] \in {"read", "lock"} => pc'[Irq] \in {"read", "lock"}
    <3>1. CASE p = Irq BY <1>a, <2>2, <3>1
    <3>2. CASE p # Irq BY <2>2, <3>2, Names
    <3> QED BY <3>1, <3>2
  <2>4. Waiting => Waiting'
    BY <1>a, <2>3 DEF Waiting
  <2> QED BY <1>a, <2>1, <2>4, ArmedSame
<1>1. ASSUME NEW w \in Waiters, NEW th \in Word, WaitTimeout(w, th) PROVE InterruptArmed'
  BY <1>1, ArmedNew DEF WaitTimeout
<1>2. ASSUME NEW w \in Waiters, NEW n \in 1 .. MaxIncrs, ChannelSubmit(w, n) PROVE InterruptArmed'
  BY <1>2, ArmedNew DEF ChannelSubmit
<1>3. ASSUME NEW w \in Waiters, AddAction(w) \/ AddActionRelock(w) PROVE InterruptArmed'
  BY <1>3, ArmedEnqueue DEF AddAction, AddActionRelock, Adding
<1>4. ASSUME NEW w \in Waiters, AddActionNoIrq(w) \/ RequestIrq(w) \/ WaitOver(w) PROVE InterruptArmed'
  <2>1. PICK l : pc' = [pc EXCEPT ![w] = l]
    BY <1>4 DEF AddActionNoIrq, RequestIrq, WaitOver, Goto
  <2>2. w \in Procs /\ pc[w] # "idle" /\ pc[w] \notin {"read", "lock"} /\ waiter' = waiter
        /\ UNCHANGED <<wait_head, armed, isr, thread_woken>>
    BY <1>4, Names DEF AddActionNoIrq, RequestIrq, WaitOver, hvars
  <2> QED BY <1>a, <2>1, <2>2
<1>5. ASSUME NEW w \in Waiters, RequestIrqFails(w) PROVE InterruptArmed'
  <2>1. pc' = [pc EXCEPT ![w] = "idle"] /\ w \in Procs /\ pc[w] = "request"
        /\ UNCHANGED <<wait_head, armed, isr, thread_woken>> /\ waiter' = [waiter EXCEPT ![w] = Freed]
    BY <1>5, Names DEF RequestIrqFails, Goto, hvars
  <2>2. ~Linked(w)
    BY <1>0, <2>1 DEF WaiterOK, AddOK, Adding
  <2>3. \A x \in Waiters : Linked(x) => waiter'[x].thresh = waiter[x].thresh
    BY <1>0, <2>1, <2>2 DEF Types
  <2> QED BY <1>a, <2>1, <2>3
<1>6. ASSUME NEW w \in Waiters, Cancel(w) PROVE InterruptArmed'
  <2>1. pc' = [pc EXCEPT ![w] = "read"] /\ w \in Procs /\ pc[w] = "cancel"
        /\ UNCHANGED <<wait_head, armed, isr, thread_woken>>
    BY <1>6, Names DEF Cancel, Goto, hvars
  <2>2. PICK n : waiter' = [waiter EXCEPT ![w] = [waiter[w] EXCEPT !.state = n]]
    BY <1>6 DEF Cancel
  <2>3. [waiter[w] EXCEPT !.state = n].thresh = waiter[w].thresh
    BY <1>0 DEF Types, WaitRec
  <2>4. \A x \in Waiters : waiter'[x].thresh = waiter[x].thresh
    BY <1>0, <2>2, <2>3 DEF Types
  <2> QED BY <1>a, <2>1, <2>4
<1>7. ASSUME NEW w \in Waiters, DropRef(w) PROVE InterruptArmed'
  <2>1. pc' = [pc EXCEPT ![w] = "idle"] /\ w \in Procs /\ pc[w] = "drop"
        /\ UNCHANGED <<wait_head, armed, isr, thread_woken>>
        /\ waiter' = [waiter EXCEPT ![w] = KrefPut(waiter[w])]
    BY <1>7, Names DEF DropRef, Goto, hvars
  <2>2. ASSUME Linked(w) PROVE KrefPut(waiter[w]).thresh = waiter[w].thresh
    <3>1. w \in WakeWaiters
      BY <2>1, PutRefIsWake
    <3>2. waiter[w].refcount = 2
      BY <1>0, <2>1, <2>2, <3>1 DEF WaiterOK, RefOK, ListRefs, OwnerRefs
    <3>3. waiter[w] \in WaitRec
      BY <1>0 DEF Types
    <3> QED BY <3>2, <3>3, RecPut
  <2>3. /\ waiter'[w] = KrefPut(waiter[w])
        /\ \A x \in Waiters : x # w => waiter'[x] = waiter[x]
    BY <1>0, <2>1 DEF Types
  <2>4. \A x \in Waiters : Linked(x) => waiter'[x].thresh = waiter[x].thresh
    BY <2>2, <2>3
  <2> QED BY <1>a, <2>1, <2>4
<1>8. ASSUME NEW p \in Procs, ReadSync(p) \/ RunHandler(p) \/ HandlersDone(p) PROVE InterruptArmed'
  <2>1. PICK l : pc' = [pc EXCEPT ![p] = l] /\ (pc[p] \in {"read", "lock"} => l \in {"read", "lock"})
    BY <1>8 DEF ReadSync, RunHandler, HandlersDone, Goto
  <2>2. pc[p] # "idle" /\ waiter' = waiter /\ UNCHANGED <<wait_head, armed, isr, thread_woken>>
    BY <1>8 DEF ReadSync, RunHandler, HandlersDone, hvars
  <2> QED BY <1>a, <2>1, <2>2
<1>9. ASSUME NEW p \in Procs, MarkHandled(p) \/ PutHandled(p) PROVE InterruptArmed'
  <2>1. PICK l : pc' = [pc EXCEPT ![p] = l]
    BY <1>9 DEF MarkHandled, PutHandled, Goto
  <2>2. pc[p] \in {"xchg", "put"} /\ UNCHANGED <<wait_head, armed, isr, thread_woken>>
    BY <1>9 DEF MarkHandled, PutHandled, hvars
  <2>3. completed[p] # << >>
    BY <1>0, <2>2 DEF ProcOK, Handling
  <2>4. PICK w \in Waiters : w = Head(completed[p]) /\ ~Linked(w)
    BY <2>3, HeadIs
  <2>5. \A x \in Waiters : x # w => waiter'[x] = waiter[x]
    BY <1>0, <1>9, <2>4 DEF MarkHandled, PutHandled, Types
  <2>6. \A x \in Waiters : Linked(x) => waiter'[x].thresh = waiter[x].thresh
    BY <2>4, <2>5
  <2> QED BY <1>a, <2>1, <2>2, <2>6
<1>10. ASSUME InterruptRaised \/ ThreshIsr \/ ThreshFn PROVE InterruptArmed'
  <2>1. stop = "on"
    BY <1>0, <1>10 DEF InterruptRaised, ThreshIsr, ThreshFn, StopOK
  <2>2. wait_head' = wait_head /\ waiter' = waiter
    BY <1>10 DEF InterruptRaised, ThreshIsr, ThreshFn
  <2>3. Waiting'
    <3>1. ThreshFn => pc'[Irq] = "read"
      BY <1>0, Names DEF ThreshFn, Goto, Types
    <3> QED BY <1>10, <3>1 DEF InterruptRaised, ThreshIsr, Waiting
  <2> QED BY <2>1, <2>2, <2>3, ArmedSame
<1>11. ASSUME EngineIncr \/ SyncptIncr \/ SyncptRead PROVE InterruptArmed'
  <2>1. waiter' = waiter /\ wait_head' = wait_head /\ pc' = pc /\ isr' = isr /\ thread_woken' = thread_woken
    BY <1>11 DEF EngineIncr, SyncptIncr, SyncptRead, hvars, pvars
  <2>2. CASE stop = "on"
    <3>1. armed' = armed
      BY <1>11, <2>2 DEF EngineIncr, SyncptIncr, SyncptRead, ModuleBusy, hvars
    <3>2. Waiting => Waiting'
      BY <2>1 DEF Waiting
    <3> QED BY <2>1, <2>2, <3>1, <3>2, ArmedSame
  <2>3. CASE stop # "on"
    <3>1. wait_head = << >>
      BY <1>0, <1>11, <2>3 DEF EngineIncr, SyncptIncr, SyncptRead, ModuleBusy, StopOK
    <3> QED BY <2>1, <3>1 DEF InterruptArmed
  <2> QED BY <2>2, <2>3
<1>12. ASSUME StopDisable \/ StopStep PROVE InterruptArmed'
  <2>1. stop' # "on"
    BY <1>0, <1>12 DEF StopDisable, StopStep, StopMark, StopUnlink, StopListEmpty, StopFreeIrq, StopOK
  <2> QED BY <2>1 DEF InterruptArmed
<1>13. ASSUME NEW w \in Waiters, AddStep(w) \/ WaitOver(w) \/ PutRefStep(w) PROVE InterruptArmed'
  BY <1>3, <1>4, <1>5, <1>6, <1>7, <1>13 DEF AddStep, PutRefStep
<1>14. ASSUME NEW p \in Procs, ProcessStep(p) PROVE InterruptArmed'
  BY <1>8, <1>9, <1>14, ArmedProcess DEF ProcessStep
<1> QED BY <1>1, <1>2, <1>10, <1>11, <1>12, <1>13, <1>14 DEF Next

(* While the host runs, either the threshold register holds the earliest   *)
(* threshold on the list or a handler that will set it is under way: no    *)
(* interleaving of add_action, the hard handler's unlocked disable and     *)
(* process_wait_list leaves a waiter without an interrupt.                 *)
THEOREM ThresholdSet ==
    ASSUME PromptIrq
    PROVE  Spec => []InterruptArmed
<1>1. Init => InterruptArmed
  BY DEF Init, InterruptArmed
<1>2. IntrInv /\ InterruptArmed /\ [Next]_vars => InterruptArmed'
  <2> SUFFICES ASSUME IntrInv, InterruptArmed, [Next]_vars PROVE InterruptArmed'
    OBVIOUS
  <2>1. CASE Next BY <2>1, NextArmed
  <2>2. CASE UNCHANGED vars BY <2>2 DEF vars, hvars, pvars, InterruptArmed, Thresh
  <2> QED BY <2>1, <2>2
<1> QED BY <1>1, <1>2, InvAlways, PTL DEF Spec

-----------------------------------------------------------------------------
(* Types as the runs check them *)

CountOK == \A w \in Waiters : waiter[w].count <= Cardinality(SubmitWaiters) + 1

LEMMA NextCount ==
    ASSUME IntrInv, CountOK, Next
    PROVE  CountOK'
<1>0. Types /\ Types' /\ (\A q \in Procs : ProcOK(q)) /\ (\A x \in Waiters : WaiterOK(x))
  BY NextTypes DEF IntrInv
<1>1. Cardinality(SubmitWaiters) \in Nat /\ IsFiniteSet(SubmitWaiters)
  BY IntrAssumption, FS_CardinalityType
<1>2. ASSUME \A w \in Waiters : waiter'[w].count = waiter[w].count \/ waiter'[w].count = 1 PROVE CountOK'
  BY <1>1, <1>2 DEF CountOK
<1>3. ASSUME UNCHANGED waiter PROVE CountOK'
  BY <1>2, <1>3
<1>4. ASSUME NEW w \in Waiters, NEW r, waiter' = [waiter EXCEPT ![w] = r], r.count = waiter[w].count \/ r.count = 1
      PROVE  CountOK'
  BY <1>0, <1>2, <1>4 DEF Types
<1>5. ASSUME NEW w \in Waiters PROVE KrefPut(waiter[w]).count = waiter[w].count \/ KrefPut(waiter[w]).count = 1
  <2>1. CASE waiter[w].refcount = 1 BY <2>1 DEF KrefPut, Freed
  <2>2. CASE waiter[w].refcount # 1
    BY <1>0, <2>2 DEF KrefPut, Types, WaitRec
  <2> QED BY <2>1, <2>2
<1>6. ASSUME NEW w \in Waiters, NEW n PROVE [waiter[w] EXCEPT !.state = n].count = waiter[w].count
  BY <1>0 DEF Types, WaitRec
<1>7. ASSUME NEW w \in Waiters, NEW th, NEW n, NewWaiter(w, th, n) PROVE CountOK'
  <2> DEFINE r == [refcount |-> n, state |-> PENDING, thresh |-> th, count |-> 1]
  <2>1. r.count = 1 /\ waiter' = [waiter EXCEPT ![w] = r]
    BY <1>7 DEF NewWaiter
  <2> HIDE DEF r
  <2> QED BY <1>4, <2>1
<1>8. ASSUME NEW w \in Waiters, AddStep(w) \/ WaitOver(w) PROVE CountOK'
  <2>1. CASE RequestIrqFails(w)
    <3>1. waiter' = [waiter EXCEPT ![w] = Freed] /\ Freed.count = 1
      BY <2>1 DEF RequestIrqFails, Freed
    <3> QED BY <1>4, <3>1
  <2>2. CASE ~RequestIrqFails(w)
    <3>1. waiter' = waiter
      BY <1>8, <2>2 DEF AddStep, WaitOver, AddAction, AddActionNoIrq, AddActionRelock, RequestIrq, Enqueue
    <3> QED BY <1>3, <3>1
  <2> QED BY <2>1, <2>2
<1>9. ASSUME NEW w \in Waiters, Cancel(w) PROVE CountOK'
  <2>1. PICK n : waiter' = [waiter EXCEPT ![w] = [waiter[w] EXCEPT !.state = n]]
    BY <1>9 DEF Cancel
  <2> QED BY <1>4, <1>6, <2>1
<1>10. ASSUME NEW w \in Waiters, DropRef(w) PROVE CountOK'
  <2>1. waiter' = [waiter EXCEPT ![w] = KrefPut(waiter[w])]
    BY <1>10 DEF DropRef
  <2> QED BY <1>4, <1>5, <2>1
<1>11. ASSUME NEW p \in Procs, ReadSync(p) \/ RunHandler(p) \/ HandlersDone(p) PROVE CountOK'
  BY <1>3, <1>11 DEF ReadSync, RunHandler, HandlersDone
<1>12. ASSUME NEW p \in Procs, MarkHandled(p) \/ PutHandled(p) PROVE CountOK'
  <2>1. completed[p] # << >>
    BY <1>0, <1>12 DEF MarkHandled, PutHandled, ProcOK, Handling
  <2>2. PICK w \in Waiters : w = Head(completed[p])
    BY <2>1, HeadIs
  <2>3. CASE MarkHandled(p)
    <3>1. waiter' = [waiter EXCEPT ![w] = [waiter[w] EXCEPT !.state = HANDLED]]
      BY <1>0, <2>2, <2>3 DEF MarkHandled, Types
    <3> QED BY <1>4, <1>6, <3>1
  <2>4. CASE PutHandled(p)
    <3>1. waiter' = [waiter EXCEPT ![w] = KrefPut(waiter[w])]
      BY <2>2, <2>4 DEF PutHandled
    <3> QED BY <1>4, <1>5, <3>1
  <2> QED BY <1>12, <2>3, <2>4
<1>13. ASSUME NEW p \in Procs, ProcessWaitList(p) PROVE CountOK'
  <2>1. PICK d \in Seq(Waiters) : d = DonePrefix(p)
    BY <1>0, <1>13, ProcessUnfold
  <2>2. /\ IsInjective(d) /\ Range(d) \subseteq Range(wait_head)
        /\ \A x \in Waiters : waiter'[x] =
              IF x \in DroppedOf(d) THEN KrefPut([waiter[x] EXCEPT !.state = @ + 1])
              ELSE IF x \in Range(d)
              THEN [waiter[x] EXCEPT !.state = @ + 1, !.count = @ + JobsOf(d, x)]
              ELSE waiter[x]
    BY <1>0, <1>13, <2>1, ProcessUnfold
  <2>3. doomed = {}
    BY <1>13, ActiveHost DEF ProcessWaitList
  <2>4. ASSUME NEW w \in Waiters PROVE waiter'[w].count <= Cardinality(SubmitWaiters) + 1
    <3>1. CASE w \in DroppedOf(d)
      <4>1. PICK y : y = [waiter[w] EXCEPT !.state = waiter[w].state + 1]
        OBVIOUS
      <4>2. y.count = waiter[w].count /\ y.refcount = waiter[w].refcount
        BY <1>0, <4>1 DEF Types, WaitRec
      <4>3. waiter'[w] = KrefPut(y)
        BY <2>2, <3>1, <4>1
      <4>4. waiter'[w].count = waiter[w].count \/ waiter'[w].count = 1
        <5>1. CASE y.refcount = 1 BY <4>3, <5>1 DEF KrefPut, Freed
        <5>2. CASE y.refcount # 1
          <6>1. waiter'[w] = [y EXCEPT !.refcount = y.refcount - 1]
            BY <4>3, <5>2 DEF KrefPut
          <6>2. waiter'[w].count = y.count
            BY <1>0, <4>1, <6>1 DEF Types, WaitRec
          <6> QED BY <4>2, <6>2
        <5> QED BY <5>1, <5>2
      <4> QED BY <1>1, <4>4 DEF CountOK
    <3>2. CASE w \notin DroppedOf(d) /\ w \notin Range(d)
      <4>1. waiter'[w] = waiter[w]
        BY <2>2, <3>2
      <4> QED BY <4>1 DEF CountOK
    <3>3. CASE w \notin DroppedOf(d) /\ w \in Range(d)
      <4>1. waiter'[w].count = 1 + JobsOf(d, w)
        BY <1>13, <2>1, <3>3, TakenIs
      <4>2. CASE w \notin SubmitWaiters
        <5>1. JobsOf(d, w) = 0
          BY <4>2 DEF JobsOf
        <5> QED BY <1>1, <4>1, <5>1
      <4>3. CASE w \in SubmitWaiters
        <5> DEFINE A == Range(d) \cap SubmitWaiters
        <5>1. PICK h \in [A -> A] : \A i \in 1 .. Len(d) : d[i] \in SubmitWaiters =>
                  /\ Followers(d, i) \in Nat
                  /\ Cardinality({x \in A : h[x] = d[i]}) = IF Merged(d, i) THEN 0 ELSE 1 + Followers(d, i)
          BY <2>2, MergeIs
        <5>2. DOMAIN d = 1 .. Len(d) /\ \E i \in 1 .. Len(d) : d[i] = w
          BY <3>3, RangeIs
        <5>3. PICK i \in 1 .. Len(d) : d[i] = w /\ i = CHOOSE j \in DOMAIN d : d[j] = w
          BY <5>2
        <5>4. ~Merged(d, i)
          <6>1. w \notin MergedOf(d)
            BY <3>3 DEF DroppedOf
          <6> QED BY <5>2, <5>3, <6>1 DEF MergedOf
        <5>5. Cardinality({x \in A : h[x] = d[i]}) = 1 + JobsOf(d, w)
          BY <4>3, <5>1, <5>3, <5>4 DEF JobsOf
        <5>6. {x \in A : h[x] = d[i]} \subseteq SubmitWaiters
          OBVIOUS
        <5>7. Cardinality({x \in A : h[x] = d[i]}) <= Cardinality(SubmitWaiters)
          BY <1>1, <5>6, FS_Subset
        <5>8. JobsOf(d, w) \in Nat
          BY <2>2, <2>3, <3>3, ListedIs
        <5> QED BY <1>1, <4>1, <5>5, <5>7, <5>8
      <4> QED BY <4>2, <4>3
    <3> QED BY <3>1, <3>2, <3>3
  <2> QED BY <2>4 DEF CountOK
<1>14. ASSUME InterruptRaised \/ ThreshIsr \/ ThreshFn \/ EngineIncr \/ SyncptIncr \/ SyncptRead
              \/ StopDisable \/ StopListEmpty \/ StopFreeIrq
       PROVE  CountOK'
  BY <1>3, <1>14 DEF InterruptRaised, ThreshIsr, ThreshFn, EngineIncr, SyncptIncr, SyncptRead,
                     StopDisable, StopListEmpty, StopFreeIrq
<1>15. ASSUME NEW w \in Waiters, StopMark(w) PROVE CountOK'
  <2>1. waiter' = [waiter EXCEPT ![w] = [waiter[w] EXCEPT !.state = HANDLED]]
    BY <1>0, <1>15 DEF StopMark, Types
  <2> QED BY <1>4, <1>6, <2>1
<1>16. ASSUME NEW w \in Waiters, StopUnlink(w) PROVE CountOK'
  <2>1. waiter' = [waiter EXCEPT ![w] = KrefPut(waiter[w])]
    BY <1>16 DEF StopUnlink
  <2> QED BY <1>4, <1>5, <2>1
<1> QED BY <1>7, <1>8, <1>9, <1>10, <1>11, <1>12, <1>13, <1>14, <1>15, <1>16
        DEF Next, WaitTimeout, ChannelSubmit, PutRefStep, ProcessStep, StopStep

(* No execution takes the module's variables out of their types; the       *)
(* host's reference count does not fall below zero, and the clean-ups      *)
(* merged into one waiter are never more than the submit waiters.          *)
THEOREM IntrTypes ==
    ASSUME PromptIrq
    PROVE  Spec => []TypeOK
<1>1. Init => CountOK
  <2> SUFFICES ASSUME Init PROVE CountOK
    OBVIOUS
  <2>1. \A w \in Waiters : waiter[w].count = 1
    BY DEF Init, Freed
  <2> QED BY <2>1, IntrAssumption, FS_CardinalityType DEF CountOK
<1>2. IntrInv /\ CountOK /\ [Next]_vars => CountOK'
  <2> SUFFICES ASSUME IntrInv, CountOK, [Next]_vars PROVE CountOK'
    OBVIOUS
  <2>1. CASE Next BY <2>1, NextCount
  <2>2. CASE UNCHANGED vars BY <2>2 DEF vars, CountOK
  <2> QED BY <2>1, <2>2
<1>3. IntrInv /\ CountOK => TypeOK
  <2> SUFFICES ASSUME IntrInv, CountOK PROVE TypeOK
    OBVIOUS
  <2>0. Types /\ BusyInv
    BY DEF IntrInv
  <2>1. busy \in Nat
    BY <2>0, WeightsType DEF BusyInv
  <2>2. ASSUME NEW w \in Waiters PROVE waiter[w] \in WaitlistStruct
    <3>1. PICK x \in WaitRec : x = waiter[w]
      BY <2>0 DEF Types
    <3>2. x.count <= Cardinality(SubmitWaiters) + 1
      BY <3>1 DEF CountOK
    <3>3. Cardinality(SubmitWaiters) \in Nat
      BY IntrAssumption, FS_CardinalityType
    <3>4. x.count \in 1 .. Cardinality(SubmitWaiters) + 1 /\ x.state \in PENDING .. OVERRUN
      BY <3>2, <3>3 DEF WaitRec, PENDING, HANDLED, OVERRUN
    <3>5. x \in [refcount : 0 .. 2, state : PENDING .. OVERRUN, thresh : Word,
                 count : 1 .. Cardinality(SubmitWaiters) + 1]
      BY <3>4 DEF WaitRec
    <3> QED BY <3>1, <3>5 DEF WaitlistStruct
  <2>3. waiter \in [Waiters -> WaitlistStruct]
    BY <2>0, <2>2 DEF Types
  <2>4. pc \in [Procs -> {"idle", "add", "request", "relock", "wait", "cancel",
                          "read", "lock", "run", "xchg", "put", "drop"}]
    BY <2>0 DEF Types, AllPcs, AddPcs, ProcessPcs
  <2> QED BY <2>0, <2>1, <2>3, <2>4 DEF Types, TypeOK
<1> QED BY <1>1, <1>2, <1>3, InvAlways, PTL DEF Spec

-----------------------------------------------------------------------------
(* Sums over a set are numbers of elements *)

(* it computes the sum of F over every subset of S, as MapThenSumSet does *)
SumStep(F, S, it) ==
    [s \in SUBSET S |-> IF s = {} THEN 0
                        ELSE F[CHOOSE x \in s : TRUE] + it[s \ {CHOOSE x \in s : TRUE}]]

(* F[x] is the number of elements of D[x], and the D[x] are disjoint *)
Parts(F, S, D) ==
    /\ IsFiniteSet(S) /\ F \in [S -> Nat]
    /\ \A x \in S : IsFiniteSet(D[x]) /\ Cardinality(D[x]) = F[x]
    /\ \A x, y \in S : x # y => D[x] \cap D[y] = {}

SumCounts(F, S, D) ==
    /\ \E it : it = SumStep(F, S, it)
    /\ \A it : it = SumStep(F, S, it) => it[S] = Cardinality(UNION {D[x] : x \in S})

LEMMA SumIs ==
    ASSUME NEW S, NEW F, NEW D, Parts(F, S, D)
    PROVE  SumCounts(F, S, D)
<1>0. /\ IsFiniteSet(S) /\ F \in [S -> Nat]
      /\ \A x \in S : IsFiniteSet(D[x]) /\ Cardinality(D[x]) = F[x]
      /\ \A x, y \in S : x # y => D[x] \cap D[y] = {}
  BY DEF Parts
<1> USE <1>0
<1> DEFINE U(s) == UNION {D[x] : x \in s}
           cl == [s \in SUBSET S |-> Cardinality(U(s))]
<1>1. ASSUME NEW s \in SUBSET S PROVE IsFiniteSet(s) /\ IsFiniteSet(U(s)) /\ Cardinality(U(s)) \in Nat
  <2>1. IsFiniteSet(s)
    BY FS_Subset
  <2> DEFINE c == [x \in s |-> D[x]]
             C == {D[x] : x \in s}
  <2>2. c \in Surjection(s, C)
    BY DEF Surjection
  <2>3. \A t \in C : IsFiniteSet(t)
    OBVIOUS
  <2> HIDE DEF c, C
  <2>4. IsFiniteSet(C)
    BY <2>1, <2>2, FS_Surjection
  <2>5. IsFiniteSet(UNION C)
    BY <2>3, <2>4, FS_UNION
  <2>6. IsFiniteSet(U(s))
    BY <2>5 DEF C
  <2> HIDE DEF U
  <2> QED BY <2>1, <2>6, FS_CardinalityType
<1>2. ASSUME NEW s \in SUBSET S, NEW x \in s PROVE Cardinality(U(s)) = F[x] + Cardinality(U(s \ {x}))
  <2>1. s \ {x} \in SUBSET S /\ x \in S
    OBVIOUS
  <2>2. U(s) = D[x] \cup U(s \ {x})
    OBVIOUS
  <2>3. D[x] \cap U(s \ {x}) = {}
    OBVIOUS
  <2>4. IsFiniteSet(U(s \ {x})) /\ Cardinality(U(s \ {x})) \in Nat
    <3> HIDE DEF U
    <3> QED BY <1>1, <2>1
  <2>5. IsFiniteSet(D[x]) /\ Cardinality(D[x]) = F[x] /\ F[x] \in Nat
    BY <2>1
  <2> HIDE DEF U
  <2>6. Cardinality(D[x] \cup U(s \ {x}))
           = Cardinality(D[x]) + Cardinality(U(s \ {x})) - Cardinality(D[x] \cap U(s \ {x}))
    BY <2>4, <2>5, FS_Union
  <2>7. Cardinality(D[x] \cap U(s \ {x})) = 0
    BY <2>3, FS_EmptySet
  <2> QED BY <2>2, <2>4, <2>5, <2>6, <2>7
<1>3. Cardinality(U({})) = 0
  <2>1. U({}) = {}
    OBVIOUS
  <2> HIDE DEF U
  <2> QED BY <2>1, FS_EmptySet
<1> HIDE DEF U
<1>4. cl = SumStep(F, S, cl)
  <2>1. ASSUME NEW s \in SUBSET S
        PROVE  cl[s] = IF s = {} THEN 0 ELSE F[CHOOSE x \in s : TRUE] + cl[s \ {CHOOSE x \in s : TRUE}]
    <3>1. CASE s = {} BY <1>3, <3>1
    <3>2. CASE s # {}
      <4>1. PICK x \in s : x = CHOOSE y \in s : TRUE
        BY <3>2
      <4>2. cl[s \ {x}] = Cardinality(U(s \ {x})) /\ cl[s] = Cardinality(U(s))
        OBVIOUS
      <4>3. cl[s] = F[x] + cl[s \ {x}]
        BY <1>2, <4>2
      <4> HIDE DEF cl
      <4> QED BY <3>2, <4>1, <4>3
    <3> QED BY <3>1, <3>2
  <2>2. cl = [s \in SUBSET S |-> cl[s]]
    OBVIOUS
  <2> HIDE DEF cl
  <2> QED BY <2>1, <2>2, Zenon DEF SumStep
<1>5. ASSUME NEW it, it = SumStep(F, S, it) PROVE it[S] = Cardinality(U(S))
  <2>1. ASSUME NEW s \in SUBSET S
        PROVE  it[s] = IF s = {} THEN 0 ELSE F[CHOOSE x \in s : TRUE] + it[s \ {CHOOSE x \in s : TRUE}]
    <3>1. it = [t \in SUBSET S |-> IF t = {} THEN 0
                        ELSE F[CHOOSE x \in t : TRUE] + it[t \ {CHOOSE x \in t : TRUE}]]
      BY <1>5 DEF SumStep
    <3> QED BY <3>1, Zenon
  <2> DEFINE P == {n \in 0 .. Cardinality(S) : \A s \in SUBSET S : Cardinality(s) = n => it[s] = Cardinality(U(s))}
  <2>2. Cardinality(S) \in Nat
    BY FS_CardinalityType
  <2>3. 0 \in P
    <3>1. ASSUME NEW s \in SUBSET S, Cardinality(s) = 0 PROVE it[s] = Cardinality(U(s))
      <4>1. s = {}
        BY <1>1, <3>1, FS_EmptySet
      <4> QED BY <1>3, <2>1, <4>1
    <3> QED BY <2>2, <3>1
  <2>4. ASSUME NEW n \in 0 .. Cardinality(S) - 1, n \in P PROVE n + 1 \in P
    <3>1. ASSUME NEW s \in SUBSET S, Cardinality(s) = n + 1 PROVE it[s] = Cardinality(U(s))
      <4>1. s # {}
        <5>1. n + 1 # 0
          BY <2>2
        <5>2. s = {} => Cardinality(s) = 0
          BY FS_EmptySet
        <5> QED BY <3>1, <5>1, <5>2
      <4>2. PICK x \in s : x = CHOOSE y \in s : TRUE
        BY <4>1
      <4>3. Cardinality(s \ {x}) = n
        <5>1. Cardinality(s \ {x}) = Cardinality(s) - 1
          BY <1>1, FS_RemoveElement
        <5> QED BY <2>2, <3>1, <5>1
      <4>4. s \ {x} \in SUBSET S
        OBVIOUS
      <4>5. it[s \ {x}] = Cardinality(U(s \ {x}))
        BY <2>4, <4>3, <4>4
      <4>6. it[s] = F[x] + it[s \ {x}]
        BY <2>1, <4>1, <4>2
      <4> QED BY <1>2, <4>5, <4>6
    <3>2. n + 1 \in 0 .. Cardinality(S)
      BY <2>2
    <3> QED BY <3>1, <3>2
  <2>5. \A k \in 0 .. Cardinality(S) : k \in P
    <3> HIDE DEF P
    <3> QED BY <2>2, <2>3, <2>4, UpTo
  <2>6. Cardinality(S) \in P
    <3> HIDE DEF P
    <3> QED BY <2>2, <2>5
  <2> QED BY <2>6
<1> HIDE DEF cl
<1> QED BY <1>4, <1>5 DEF U, SumCounts

(* What the clean-ups on one process's list add up to, as a set of pairs. *)
Todo(p) == {i \in DOMAIN completed[p] :
                completed[p][i] \in SubmitWaiters /\ ~(i = 1 /\ pc[p] # "run")}
Jobs(p) == UNION {Col(completed[p][i], waiter[completed[p][i]].count) : i \in Todo(p)}

LEMMA CleanupsIs ==
    ASSUME IntrInv, NEW p \in Procs
    PROVE  PendingCleanups(p) = Cardinality(Jobs(p)) /\ IsFiniteSet(Jobs(p))
<1> DEFINE S == Todo(p)
           F == [i \in S |-> waiter[completed[p][i]].count]
           D == [i \in S |-> Col(completed[p][i], waiter[completed[p][i]].count)]
           Step(it) == [s \in SUBSET S |->
                           IF s = {} THEN 0
                           ELSE waiter[completed[p][CHOOSE x \in s : TRUE]].count
                                   + it[s \ {CHOOSE x \in s : TRUE}]]
<1>0. Types /\ ProcOK(p)
  BY DEF IntrInv
<1>1. PICK c \in Seq(Waiters) : c = completed[p] /\ IsInjective(c)
  BY <1>0 DEF Types, ProcOK
<1>2. S \subseteq 1 .. Len(c) /\ IsFiniteSet(S)
  <2>1. S \subseteq 1 .. Len(c) /\ Len(c) \in Nat
    BY <1>1 DEF Todo
  <2>2. IsFiniteSet(1 .. Len(c))
    BY <2>1, FS_Interval
  <2> HIDE DEF S
  <2> QED BY <2>1, <2>2, FS_Subset
<1>3. \A i \in S : c[i] \in Waiters /\ waiter[c[i]].count \in Nat
  <2>1. \A w \in Waiters : waiter[w].count \in Nat
    BY <1>0 DEF Types, WaitRec
  <2> HIDE DEF S
  <2> QED BY <1>1, <1>2, <2>1
<1>4. F \in [S -> Nat]
  BY <1>1, <1>3
<1>5. \A i \in S : IsFiniteSet(D[i]) /\ Cardinality(D[i]) = F[i]
  BY <1>1, <1>3, ColIs
<1>6. ASSUME NEW i \in S, NEW j \in S, i # j PROVE D[i] \cap D[j] = {}
  <2>1. c[i] # c[j]
    BY <1>1, <1>2, <1>6 DEF IsInjective
  <2> QED BY <1>1, <2>1 DEF Col
<1>7. PendingCleanups(p) = (CHOOSE it : it = Step(it))[S]
  BY DEF PendingCleanups, Todo, MapThenSumSet, MapThenFoldSet
<1>8. ASSUME NEW it PROVE Step(it) = SumStep(F, S, it)
  <2>1. ASSUME NEW s \in SUBSET S, s # {}
        PROVE  waiter[completed[p][CHOOSE x \in s : TRUE]].count = F[CHOOSE x \in s : TRUE]
    <3>1. (CHOOSE x \in s : TRUE) \in S
      BY <2>1
    <3> QED BY <3>1
  <2> HIDE DEF F, S
  <2> QED BY <2>1 DEF SumStep
<1>9. SumCounts(F, S, D)
  <2> HIDE DEF F, D, S
  <2>1. Parts(F, S, D)
    BY <1>2, <1>4, <1>5, <1>6 DEF Parts
  <2> QED BY <2>1, SumIs
<1>10. (CHOOSE it : it = Step(it))[S] = Cardinality(UNION {D[i] : i \in S})
  <2> HIDE DEF F, D, S, Step
  <2> QED BY <1>8, <1>9 DEF SumCounts
<1>11. UNION {D[i] : i \in S} = Jobs(p)
  BY DEF Jobs
<1>12. IsFiniteSet(Jobs(p))
  <2> DEFINE C == {D[i] : i \in S}
  <2>1. D \in Surjection(S, C)
    BY DEF Surjection
  <2>2. \A t \in C : IsFiniteSet(t)
    BY <1>5
  <2> HIDE DEF C
  <2>3. IsFiniteSet(C)
    <3> HIDE DEF S, D
    <3> QED BY <1>2, <2>1, FS_Surjection
  <2>4. IsFiniteSet(UNION C)
    BY <2>2, <2>3, FS_UNION
  <2> QED BY <1>11, <2>4 DEF C
<1> HIDE DEF F, D, S, Step
<1> QED BY <1>7, <1>10, <1>11, <1>12

(* the waiters whose clean-up is still a single one *)
Queued == {w \in SubmitWaiters : Adding(w) \/ Linked(w)}
AllJobs == UNION {Jobs(p) : p \in Procs}

LEMMA JobIs ==
    ASSUME IntrInv, NEW p \in Procs, NEW z \in Jobs(p)
    PROVE  \E w \in SubmitWaiters, k \in Nat \ {0} :
              z = <<w, k>> /\ InCompleted(p, w) /\ w \notin Queued /\ k <= Weight(w)
<1>0. Types /\ ProcOK(p) /\ \A w \in Waiters : WaiterOK(w)
  BY DEF IntrInv
<1>1. PICK i \in Todo(p) : z \in Col(completed[p][i], waiter[completed[p][i]].count)
  BY DEF Jobs
<1>2. PICK w \in SubmitWaiters : w = completed[p][i]
  BY <1>1 DEF Todo
<1>3. i \in DOMAIN completed[p] /\ ~(i = 1 /\ pc[p] # "run")
  BY <1>1 DEF Todo
<1>4. PICK n \in Nat : n = waiter[w].count
  BY <1>0, <1>2, Names DEF Types, WaitRec
<1>5. PICK k \in 1 .. n : z = <<w, k>>
  BY <1>1, <1>2, <1>4 DEF Col
<1>6. InCompleted(p, w) /\ w \in Waiters
  BY <1>2, <1>3, Names DEF InCompleted, Range
<1>7. Held(w) /\ ~Adding(w) /\ ~Linked(w)
  BY <1>0, <1>6 DEF Held, WaiterOK, AddOK, LinkOK
<1>8. ~(Handling(p) /\ w = Head(completed[p]))
  <2> SUFFICES ASSUME Handling(p), w = Head(completed[p]) PROVE FALSE
    OBVIOUS
  <2>1. PICK c \in Seq(Waiters) : c = completed[p] /\ IsInjective(c)
    BY <1>0 DEF Types, ProcOK
  <2>2. i \in 1 .. Len(c) /\ c[i] = w /\ c[1] = w
    BY <1>2, <1>3, <2>1
  <2>3. i = 1
    BY <2>1, <2>2 DEF IsInjective
  <2> QED BY <1>3, <2>3 DEF Handling
<1>9. Weight(w) = n
  BY <1>4, <1>6, <1>7, <1>8 DEF Weight
<1>10. w \notin Queued
  BY <1>7 DEF Queued
<1> QED BY <1>5, <1>6, <1>9, <1>10

LEMMA PairIs ==
    ASSUME IntrInv, NEW w \in SubmitWaiters, NEW k \in Nat \ {0}, k <= Weight(w), w \notin Queued
    PROVE  <<w, k>> \in AllJobs
<1>0. Types /\ \A p \in Procs : ProcOK(p)
  BY DEF IntrInv
<1>1. ~Adding(w) /\ ~Linked(w)
  BY DEF Queued
<1>2. PICK p \in Procs : InCompleted(p, w) /\ ~(Handling(p) /\ w = Head(completed[p]))
  <2> SUFFICES ASSUME ~\E p \in Procs : InCompleted(p, w) /\ ~(Handling(p) /\ w = Head(completed[p]))
               PROVE  FALSE
    OBVIOUS
  <2>1. Weight(w) = 0
    BY <1>1 DEF Weight
  <2> QED BY <2>1
<1>3. Weight(w) = waiter[w].count
  BY <1>1, <1>2 DEF Weight
<1>4. PICK n \in Nat : n = waiter[w].count
  BY <1>0, Names DEF Types, WaitRec
<1>5. k \in 1 .. n
  BY <1>3, <1>4
<1>6. PICK c \in Seq(Waiters) : c = completed[p]
  BY <1>0 DEF Types
<1>7. PICK i \in DOMAIN c : c[i] = w
  BY <1>2, <1>6 DEF InCompleted, Range
<1>8. ~(i = 1 /\ pc[p] # "run")
  <2> SUFFICES ASSUME i = 1, pc[p] # "run" PROVE FALSE
    OBVIOUS
  <2>1. c # << >> /\ Head(c) = w
    BY <1>6, <1>7
  <2>2. pc[p] \in {"run", "xchg", "put"}
    BY <1>0, <1>6, <2>1 DEF ProcOK
  <2> QED BY <1>2, <1>6, <2>1, <2>2 DEF Handling
<1>9. i \in Todo(p)
  BY <1>6, <1>7, <1>8 DEF Todo
<1>10. <<w, k>> \in Col(completed[p][i], waiter[completed[p][i]].count)
  BY <1>4, <1>5, <1>6, <1>7 DEF Col
<1>11. <<w, k>> \in Jobs(p)
  BY <1>9, <1>10 DEF Jobs
<1> QED BY <1>11 DEF AllJobs

LEMMA AllCleanupsIs ==
    ASSUME IntrInv
    PROVE  MapThenSumSet(PendingCleanups, Procs) = Cardinality(AllJobs) /\ IsFiniteSet(AllJobs)
<1> DEFINE F == [p \in Procs |-> PendingCleanups(p)]
           D == [p \in Procs |-> Jobs(p)]
           Step(it) == [s \in SUBSET Procs |->
                           IF s = {} THEN 0
                           ELSE PendingCleanups(CHOOSE x \in s : TRUE)
                                   + it[s \ {CHOOSE x \in s : TRUE}]]
<1>1. IsFiniteSet(Procs)
  <2>1. IsFiniteSet(SubmitWaiters \cup WakeWaiters)
    BY FS_Union, IntrAssumption
  <2> QED BY <2>1, FS_AddElement DEF Procs, Waiters
<1>2. \A p \in Procs : PendingCleanups(p) = Cardinality(Jobs(p)) /\ IsFiniteSet(Jobs(p))
  BY CleanupsIs
<1>3. \A p \in Procs : PendingCleanups(p) \in Nat
  BY <1>2, FS_CardinalityType
<1>4. ASSUME NEW p \in Procs, NEW q \in Procs, p # q PROVE Jobs(p) \cap Jobs(q) = {}
  <2> SUFFICES ASSUME NEW z \in Jobs(p), z \in Jobs(q) PROVE FALSE
    OBVIOUS
  <2>1. PICK a \in SubmitWaiters, k \in Nat \ {0} : z = <<a, k>> /\ InCompleted(p, a)
    BY JobIs
  <2>2. PICK b \in SubmitWaiters, m \in Nat \ {0} : z = <<b, m>> /\ InCompleted(q, b)
    BY JobIs
  <2>3. a = b
    BY <2>1, <2>2
  <2>4. HeldOK(a)
    BY Names DEF IntrInv, WaiterOK
  <2> QED BY <1>4, <2>1, <2>2, <2>3, <2>4 DEF HeldOK
<1>5. MapThenSumSet(PendingCleanups, Procs) = (CHOOSE it : it = Step(it))[Procs]
  BY DEF MapThenSumSet, MapThenFoldSet
<1>6. ASSUME NEW it PROVE Step(it) = SumStep(F, Procs, it)
  <2>1. ASSUME NEW s \in SUBSET Procs, s # {}
        PROVE  PendingCleanups(CHOOSE x \in s : TRUE) = F[CHOOSE x \in s : TRUE]
    <3>1. (CHOOSE x \in s : TRUE) \in Procs
      BY <2>1
    <3> QED BY <3>1
  <2> HIDE DEF F
  <2> QED BY <2>1 DEF SumStep
<1>7. Parts(F, Procs, D)
  BY <1>1, <1>2, <1>3, <1>4 DEF Parts
<1>8. SumCounts(F, Procs, D)
  <2> HIDE DEF F, D
  <2> QED BY <1>7, SumIs
<1>9. (CHOOSE it : it = Step(it))[Procs] = Cardinality(UNION {D[p] : p \in Procs})
  <2> HIDE DEF F, D, Step
  <2> QED BY <1>6, <1>8 DEF SumCounts
<1>10. UNION {D[p] : p \in Procs} = AllJobs
  BY DEF AllJobs
<1>11. IsFiniteSet(AllJobs)
  <2> DEFINE C == {D[p] : p \in Procs}
  <2>1. D \in Surjection(Procs, C)
    BY DEF Surjection
  <2>2. \A t \in C : IsFiniteSet(t)
    BY <1>2
  <2> HIDE DEF C
  <2>3. IsFiniteSet(C)
    <3> HIDE DEF D
    <3> QED BY <1>1, <2>1, FS_Surjection
  <2>4. IsFiniteSet(UNION C)
    BY <2>2, <2>3, FS_UNION
  <2> QED BY <1>10, <2>4 DEF C
<1> HIDE DEF F, D, Step
<1> QED BY <1>5, <1>9, <1>10, <1>11

LEMMA BusyIs ==
    ASSUME IntrInv
    PROVE  BusyMatchesWork
<1> DEFINE Q == Queued \X {1}
<1>0. Types /\ BusyInv
  BY DEF IntrInv
<1>1. IsFiniteSet(Queued) /\ Cardinality(Queued) \in Nat
  <2>1. Queued \subseteq SubmitWaiters
    BY DEF Queued
  <2> QED BY <2>1, FS_Subset, FS_CardinalityType, IntrAssumption
<1>2. IsFiniteSet(Q) /\ Cardinality(Q) = Cardinality(Queued)
  <2>1. IsFiniteSet({1}) /\ Cardinality({1}) = 1
    BY FS_Singleton
  <2>2. IsFiniteSet(Q) /\ Cardinality(Q) = Cardinality(Queued) * Cardinality({1})
    BY <1>1, <2>1, FS_Product
  <2> HIDE DEF Q
  <2>3. \A n \in Nat : n * 1 = n
    OBVIOUS
  <2> QED BY <1>1, <2>1, <2>2, <2>3
<1>3. IsFiniteSet(AllJobs) /\ MapThenSumSet(PendingCleanups, Procs) = Cardinality(AllJobs)
      /\ Cardinality(AllJobs) \in Nat
  BY AllCleanupsIs, FS_CardinalityType
<1>4. ASSUME NEW z \in AllJobs PROVE z \in Pairs(Weights) /\ z \notin Q
  <2>1. PICK p \in Procs : z \in Jobs(p)
    BY DEF AllJobs
  <2>2. PICK w \in SubmitWaiters, k \in Nat \ {0} : z = <<w, k>> /\ w \notin Queued /\ k <= Weight(w)
    BY <2>1, JobIs
  <2>3. Weights[w] = Weight(w)
    BY <1>0, WeightsType
  <2>4. <<w, k>> \in Pairs(Weights)
    <3> HIDE DEF Weights
    <3> QED BY <2>2, <2>3 DEF Pairs
  <2>5. <<w, k>> \notin Q
    BY <2>2
  <2> QED BY <2>2, <2>4, <2>5
<1>5. ASSUME NEW z \in Q PROVE z \in Pairs(Weights)
  <2>1. PICK w \in Queued : z = <<w, 1>>
    OBVIOUS
  <2>2. w \in SubmitWaiters /\ Weight(w) = 1
    BY DEF Queued, Weight
  <2>3. Weights[w] = 1
    BY <1>0, <2>2, WeightsType
  <2> QED BY <2>1, <2>2, <2>3 DEF Pairs
<1>6. ASSUME NEW z \in Pairs(Weights) PROVE z \in Q \cup AllJobs
  <2>1. z \in SubmitWaiters \X (Nat \ {0}) /\ z[2] <= Weights[z[1]]
    BY DEF Pairs
  <2>2. PICK w \in SubmitWaiters, k \in Nat \ {0} : z = <<w, k>> /\ k <= Weights[w]
    BY <2>1
  <2>3. k <= Weight(w)
    BY <1>0, <2>2, WeightsType
  <2>4. CASE w \in Queued
    <3>1. Weight(w) = 1
      BY <2>4 DEF Queued, Weight
    <3>2. k = 1
      BY <2>3, <3>1
    <3> QED BY <2>2, <2>4, <3>2
  <2>5. CASE w \notin Queued
    BY <2>2, <2>3, <2>5, PairIs
  <2> QED BY <2>4, <2>5
<1>7. Pairs(Weights) = Q \cup AllJobs /\ Q \cap AllJobs = {}
  <2> HIDE DEF Q
  <2> QED BY <1>4, <1>5, <1>6
<1> HIDE DEF Q
<1>8. Cardinality(Q \cup AllJobs) = Cardinality(Q) + Cardinality(AllJobs) - Cardinality(Q \cap AllJobs)
  BY <1>2, <1>3, FS_Union
<1>9. Cardinality(Q \cap AllJobs) = 0
  BY <1>7, FS_EmptySet
<1>10. Total(Weights) = Cardinality(Queued) + Cardinality(AllJobs)
  BY <1>1, <1>2, <1>3, <1>7, <1>8, <1>9 DEF Total
<1>11. Cardinality(Sleepers) \in Nat /\ leaks \in Nat
  BY <1>0, WeightsType
<1>12. busy = leaks + Cardinality(Sleepers) + Cardinality(Queued) + Cardinality(AllJobs)
  BY <1>0, <1>1, <1>3, <1>10, <1>11 DEF BusyInv
<1> QED BY <1>3, <1>12 DEF BusyMatchesWork, Sleepers, Queued

(* Every submit and every sleeping thread accounts for its module          *)
(* references, through any merging of clean-ups: none is dropped twice or  *)
(* kept (nvhost_module_busy and idle in wait_timeout, submit and           *)
(* action_submit_complete).                                                *)
THEOREM ReferencesCounted ==
    ASSUME PromptIrq
    PROVE  Spec => []BusyMatchesWork
<1>1. IntrInv => BusyMatchesWork
  BY BusyIs
<1> QED BY <1>1, InvAlways, PTL

================================================================================
