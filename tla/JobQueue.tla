-------------------------------- MODULE JobQueue --------------------------------
(***************************************************************************)
(* What a channel promises to its clients, without rings, timers, waits or *)
(* DMA: submitted jobs form a queue, each ends at a fence of the channel's *)
(* counter, and they leave the queue in order once the counter has reached *)
(* their fences.  The counter moves by the module's work, one increment at *)
(* a time and never past what was promised, or because one client was      *)
(* killed, and then only over jobs of that client.                         *)
(***************************************************************************)
EXTENDS U32, Sequences

CONSTANTS Clients,
          Start,        \* initial value of the counter
          Marks         \* whether a killed client is remembered

VARIABLES counter, promised,
          jobs,         \* submitted jobs, oldest first: fence and owner
          killed        \* clients that were killed and have not come back

vars == <<counter, promised, jobs, killed>>

Init ==
    /\ counter = Start /\ promised = Start
    /\ jobs = <<>> /\ killed = {}

Reached(j) == Sub(promised, j.fence) >= Sub(promised, counter)

(* a job is being submitted: its increments are promised before it is queued *)
Promise(n) ==
    /\ Sub(promised, counter) + n < Half
    /\ promised' = Add(promised, n)
    /\ UNCHANGED <<counter, jobs, killed>>

Enqueue(c) ==
    /\ jobs' = Append(jobs, [fence |-> promised, owner |-> c])
    /\ UNCHANGED <<counter, promised, killed>>

Work ==
    /\ counter # promised
    /\ counter' = Add(counter, 1)
    /\ UNCHANGED <<promised, jobs, killed>>

Retire(n) ==
    /\ \A i \in 1 .. n : Reached(jobs[i])
    /\ jobs' = SubSeq(jobs, n + 1, Len(jobs))
    /\ UNCHANGED <<counter, promised, killed>>

(* fences up to which everything unfinished is client c's *)
Reach(c) ==
    {jobs[i].fence : i \in {k \in DOMAIN jobs : \A h \in 1 .. k : Reached(jobs[h]) \/ jobs[h].owner = c}}

(* the counter does not go back *)
Kill(c) ==
    /\ counter' \in {counter} \cup Reach(c)
    /\ Sub(promised, counter') <= Sub(promised, counter)
    /\ killed' = IF Marks THEN killed \cup {c} ELSE killed
    /\ UNCHANGED <<promised, jobs>>

(* a killed client comes back with a new context *)
Return(c) ==
    /\ c \in killed /\ \A i \in DOMAIN jobs : jobs[i].owner # c
    /\ killed' = killed \ {c}
    /\ UNCHANGED <<counter, promised, jobs>>

Next ==
    \/ \E n \in 1 .. Half - 1 : Promise(n)
    \/ \E c \in Clients : Enqueue(c) \/ Kill(c) \/ Return(c)
    \/ Work
    \/ \E n \in 1 .. Len(jobs) : Retire(n)

Spec == Init /\ [][Next]_vars

================================================================================
