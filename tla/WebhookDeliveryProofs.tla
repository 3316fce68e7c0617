----------------------- MODULE WebhookDeliveryProofs -----------------------
(***************************************************************************)
(* Proofs about WebhookDelivery, for every set of webhooks, events and     *)
(* workers, every lease, batch, limit of attempts and backoff, every number *)
(* of crashes, and whatever the database accepts.                          *)
(***************************************************************************)
EXTENDS WebhookDelivery, FiniteSetTheorems, WellFoundedInduction, TLAPS

Loop == [pc : {"idle", "claim", "work", "send", "record", "dead", "down"},
         batch : SUBSET Delivery, took : [Delivery -> 0 .. MaxAttempts - 1],
         cur : SUBSET Delivery, ok : BOOLEAN, spent : 0..SendTime]

AtWork == {"work", "send", "record"}

(* The loop of a worker by itself. *)
LoopOK(x) ==
    /\ x.pc \in {"claim"} \cup AtWork =>
          IsFiniteSet(x.batch) /\ x.batch # {} /\ Cardinality(x.batch) <= Batch
    /\ x.pc \notin {"claim"} \cup AtWork => x.batch = {}
    /\ x.pc \in {"send", "record"} => \E d \in x.batch : x.cur = {d}
    /\ x.pc \notin {"send", "record"} => x.cur = {}
    /\ x.pc = "claim" => x.spent = 0

(* A row that waits has attempts left, all of which were answered; it does not *)
(* exist before its event is written, and goes with its webhook only.      *)
RowOK(d) ==
    /\ delivery[d].status \in {"pending", "processing"} =>
          delivery[d].attempts < MaxAttempts /\ delivery[d].attempts <= answered[d]
    /\ delivery[d].status = "absent" => answered[d] = 0
    /\ delivery[d].status = "gone" => webhook[HookOf(d)] = "deleted"
    /\ event[d[2]].state \in {"new", "insert"} => delivery[d].status \in {"absent", "gone"}

(* What the worker took from the claim was answered, whatever other workers *)
(* do to the row.                                                          *)
TookOK(w) ==
    \A d \in worker[w].batch :
        /\ delivery[d].status # "absent"
        /\ worker[w].took[d] <= answered[d]

(* The locks of a claim: its rows stay as it has selected them. *)
ClaimOK(w) ==
    worker[w].pc = "claim" =>
        \A d \in worker[w].batch : Due(d) /\ worker[w].took[d] = delivery[d].attempts

ClaimsDisjoint ==
    \A v, w \in Worker :
        v # w /\ worker[v].pc = "claim" /\ worker[w].pc = "claim" =>
            worker[v].batch \cap worker[w].batch = {}

Base ==
    /\ TypeOK
    /\ \A w \in Worker : LoopOK(worker[w]) /\ TookOK(w) /\ ClaimOK(w)
    /\ \A d \in Delivery : RowOK(d)
    /\ ClaimsDisjoint

USE DEF producers, histories

-----------------------------------------------------------------------------
(* Numbers and sets. *)

LEMMA LeastNatural ==
    ASSUME NEW T \in SUBSET Nat, T # {}
    PROVE  \E n \in T : \A m \in T : n <= m
<1> DEFINE R == OpToRel(<, Nat)
<1>1. \E n \in T : \A m \in T : <<m, n>> \notin R
  <2>1. IsWellFoundedOn(R, Nat)
    BY NatLessThanWellFounded
  <2> HIDE DEF R
  <2> QED BY <2>1, WFMin
<1>2. PICK n \in T : \A m \in T : <<m, n>> \notin R
  BY <1>1
<1>3. R = {ss \in Nat \X Nat : ss[1] < ss[2]}
  BY DEF OpToRel
<1>4. ASSUME NEW m \in T, m < n PROVE FALSE
  <2>1. m \in Nat /\ n \in Nat
    OBVIOUS
  <2>2. <<m, n>> \in {ss \in Nat \X Nat : ss[1] < ss[2]}
    BY <1>4, <2>1
  <2>3. <<m, n>> \in R
    BY <1>3, <2>2
  <2> QED BY <1>2, <2>3
<1>5. \A m \in T : m \in Nat /\ n \in Nat /\ ~(m < n)
  BY <1>4
<1> HIDE DEF R
<1> QED BY <1>5

(* The longest wait exists. *)
LEMMA BackoffMax ==
    LET S == {0} \cup {Backoff[a] : a \in 1 .. MaxAttempts - 1}
    IN  Max(S) \in S /\ \A x \in S : Max(S) >= x
<1> DEFINE Upto(n) == {0} \cup {Backoff[a] : a \in 1 .. n}
           Bounded(n) == \E x \in Upto(n) : \A y \in Upto(n) : x >= y
           M == MaxAttempts - 1
           T == {n \in 0 .. M : ~ Bounded(n)}
<1>1. M \in Nat /\ \A a \in 1 .. M : Backoff[a] \in Nat
  BY SizeAssumption
<1>2. T = {}
  <2> SUFFICES ASSUME T # {} PROVE FALSE
    OBVIOUS
  <2>1. T \subseteq Nat
    BY <1>1
  <2>2. PICK n \in T : \A m \in T : n <= m
    BY <2>1, LeastNatural
  <2>3. Bounded(0)
    <3>1. Upto(0) = {0}
      OBVIOUS
    <3> QED BY <3>1
  <2>4. n \in 1 .. M
    BY <2>1, <2>2, <2>3
  <2>5. Bounded(n - 1)
    <3>1. n - 1 \in 0 .. M /\ ~(n <= n - 1)
      BY <1>1, <2>4
    <3>2. n - 1 \notin T
      BY <2>2, <3>1
    <3> HIDE DEF Bounded
    <3> QED BY <3>1, <3>2
  <2>6. PICK x \in Upto(n - 1) : \A y \in Upto(n - 1) : x >= y
    BY <2>5
  <2>7. Upto(n) = Upto(n - 1) \cup {Backoff[n]}
    <3>1. 1 .. n = 1 .. (n - 1) \cup {n}
      BY <1>1, <2>4
    <3> QED BY <3>1
  <2>8. Upto(n) \subseteq Nat
    BY <1>1, <2>4
  <2>9. Bounded(n)
    <3> HIDE DEF Upto
    <3>1. x \in Nat /\ Backoff[n] \in Nat /\ Upto(n - 1) \subseteq Nat
      BY <1>1, <2>4, <2>6, <2>7, <2>8
    <3>2. CASE x >= Backoff[n]
      BY <2>6, <2>7, <3>2
    <3>3. CASE Backoff[n] >= x
      BY <2>6, <2>7, <3>1, <3>3
    <3> QED BY <3>1, <3>2, <3>3
  <2> QED BY <2>2, <2>9
<1>3. Bounded(M)
  BY <1>1, <1>2
<1> QED BY <1>3 DEF Max

LEMMA WaitType ==
    /\ Wait \subseteq Nat /\ 0 \in Wait
    /\ \A a \in 1 .. MaxAttempts - 1 : Backoff[a] \in Wait
    /\ \A n \in Wait : n > 0 => n - 1 \in Wait
<1> DEFINE S == {0} \cup {Backoff[a] : a \in 1 .. MaxAttempts - 1}
           m == Max(S)
<1>1. m \in S /\ \A x \in S : m >= x
  BY BackoffMax
<1>2. S \subseteq Nat /\ 0 \in S /\ \A a \in 1 .. MaxAttempts - 1 : Backoff[a] \in S
  BY SizeAssumption
<1>3. Wait = 0 .. m
  BY DEF Wait
<1> HIDE DEF S, m
<1>4. m \in Nat
  BY <1>1, <1>2
<1>5. \A a \in 1 .. MaxAttempts - 1 : Backoff[a] \in Nat /\ Backoff[a] <= m
  BY <1>1, <1>2, <1>4
<1> QED BY <1>3, <1>4, <1>5

LEMMA MinIsOne ==
    ASSUME NEW a \in Int, NEW b \in Int
    PROVE  Min({a, b}) \in {a, b} /\ Min({a, b}) <= a /\ Min({a, b}) <= b
<1>1. \E x \in {a, b} : \A y \in {a, b} : x <= y
  OBVIOUS
<1> QED BY <1>1 DEF Min

(* One answer more. *)
LEMMA Counting ==
    ASSUME NEW n \in 0..MaxCount
    PROVE  /\ Min({n + 1, MaxCount}) \in 0..MaxCount
           /\ Min({n + 1, MaxCount}) >= n /\ Min({n + 1, MaxCount}) <= n + 1
           /\ \A k \in 1..MaxAttempts : k - 1 <= n => k <= Min({n + 1, MaxCount})
<1> DEFINE m == Min({n + 1, MaxCount})
<1>1. n + 1 \in Int /\ MaxCount \in Int
  BY SizeAssumption
<1>2. m \in {n + 1, MaxCount} /\ m <= n + 1 /\ m <= MaxCount
  BY <1>1, MinIsOne
<1> HIDE DEF m
<1>3. /\ m \in 0..MaxCount /\ m >= n /\ m <= n + 1
      /\ \A k \in 1..MaxAttempts : k - 1 <= n => k <= m
  BY <1>2, SizeAssumption
<1> QED BY <1>3 DEF m

LEMMA DeliveryFinite == IsFiniteSet(Delivery)
BY FiniteAssumption, FS_Product DEF Delivery

LEMMA DeliveryParts == \A d \in Delivery : HookOf(d) \in Webhook /\ d[2] \in Event
BY DEF Delivery, HookOf

-----------------------------------------------------------------------------
(* Steps in general. *)

LEMMA TypeParts ==
    TypeOK <=> /\ lease \in Leases /\ accepts \subseteq {"event", "status"}
               /\ webhook \in [Webhook -> {"unborn", "active", "deleted"}]
               /\ event \in [Event -> [state : {"new", "insert", "done", "lost"},
                                       hooks : SUBSET Webhook]]
               /\ delivery \in [Delivery -> Row]
               /\ worker \in [Worker -> Loop]
               /\ \A w \in Worker : Cardinality(worker[w].cur) <= 1
               /\ answered \in [Delivery -> 0..MaxCount]
               /\ crashes \in 0..MaxCrashes
BY DEF TypeOK, Loop

LEMMA RowKinds ==
    ASSUME TypeOK
    PROVE  /\ Absent \in Row /\ Gone \in Row
           /\ [Absent EXCEPT !.status = "pending"] \in Row
           /\ \A n \in 0 .. MaxAttempts :
                 [Absent EXCEPT !.status = "failed", !.attempts = n] \in Row
<1>1. lease \in Nat /\ MaxAttempts \in Nat /\ 0 \in Wait
  BY TypeParts, SizeAssumption, WaitType
<1>2. 0 \in 0 .. lease + 1 /\ 0 \in 0 .. MaxAttempts
  BY <1>1
<1> QED BY <1>1, <1>2 DEF Absent, Gone, Row

LEMMA CurOne ==
    ASSUME NEW x, LoopOK(x)
    PROVE  Cardinality(x.cur) <= 1
<1>1. x.cur = {} \/ \E d : x.cur = {d}
  BY DEF LoopOK
<1>2. CASE x.cur = {}
  BY <1>2, FS_EmptySet
<1>3. ASSUME NEW d, x.cur = {d} PROVE Cardinality(x.cur) <= 1
  BY <1>3, FS_Singleton
<1> QED BY <1>1, <1>2, <1>3

LEMMA IdleOK ==
    ASSUME NEW p \in {"idle", "dead", "down"}
    PROVE  /\ [Idle EXCEPT !.pc = p] \in Loop /\ LoopOK([Idle EXCEPT !.pc = p])
           /\ Idle \in Loop /\ LoopOK(Idle)
<1>1. 0 \in 0 .. SendTime /\ 0 \in 0 .. MaxAttempts - 1
  BY SizeAssumption
<1>2. [d \in Delivery |-> 0] \in [Delivery -> 0 .. MaxAttempts - 1]
  BY <1>1
<1>3. [Idle EXCEPT !.pc = p] \in Loop
  BY <1>1, <1>2 DEF Idle, Loop
<1>4. LoopOK([Idle EXCEPT !.pc = p])
  BY DEF Idle, LoopOK, AtWork
<1>5. Idle \in Loop
  BY <1>1, <1>2 DEF Idle, Loop
<1>6. LoopOK(Idle)
  BY DEF Idle, LoopOK, AtWork
<1> QED BY <1>3, <1>4, <1>5, <1>6

LEMMA BecomeOK ==
    ASSUME Base, NEW w \in Worker, NEW x \in Loop, LoopOK(x), Become(w, x)
    PROVE  /\ worker' \in [Worker -> Loop] /\ worker'[w] = x
           /\ \A v \in Worker \ {w} : worker'[v] = worker[v]
           /\ \A v \in Worker : LoopOK(worker'[v]) /\ Cardinality(worker'[v].cur) <= 1
<1>1. worker' = [worker EXCEPT ![w] = x] /\ worker \in [Worker -> Loop]
  BY TypeParts DEF Become, Base
<1>2. /\ worker' \in [Worker -> Loop] /\ worker'[w] = x
      /\ \A v \in Worker \ {w} : worker'[v] = worker[v]
  BY <1>1
<1>3. \A v \in Worker : LoopOK(worker'[v])
  BY <1>2 DEF Base
<1> QED BY <1>2, <1>3, CurOne

(* What a step leaves of the rows that other workers hold. *)
RowsKept ==
    /\ UNCHANGED <<lease, accepts>>
    /\ \A d \in Delivery :
          /\ delivery[d].status # "absent" => delivery'[d].status # "absent"
          /\ answered'[d] >= answered[d]

LEMMA TookKept ==
    ASSUME TypeOK, TypeOK', RowsKept, NEW v \in Worker, TookOK(v), worker'[v] = worker[v]
    PROVE  TookOK(v)'
<1>1. worker[v].batch \subseteq Delivery /\ worker[v].took \in [Delivery -> Nat]
  BY TypeParts, SizeAssumption DEF Loop
<1>2. \A d \in worker[v].batch :
          worker[v].took[d] \in Nat /\ answered[d] \in Nat /\ answered'[d] \in Nat
  BY <1>1 DEF TypeOK
<1> QED BY <1>1, <1>2 DEF TookOK, RowsKept

LEMMA ClaimKept ==
    ASSUME UNCHANGED <<lease, accepts>>, NEW v \in Worker, ClaimOK(v), worker'[v] = worker[v],
           worker[v].pc = "claim" => \A d \in worker[v].batch : delivery'[d] = delivery[d]
    PROVE  ClaimOK(v)'
BY DEF ClaimOK, Due

LEMMA LockedByClaim ==
    ASSUME NEW v \in Worker, worker[v].pc = "claim", NEW d \in worker[v].batch
    PROVE  d \in Locked /\ HookOf(d) \in LockedHooks
BY DEF Locked, LockedHooks

(* A step of worker w that may change rows no claim of another one holds. *)
LEMMA WorkerStep ==
    ASSUME Base, NEW w \in Worker, NEW x \in Loop, LoopOK(x), Become(w, x), RowsKept,
           UNCHANGED producers, crashes' \in 0..MaxCrashes,
           delivery' \in [Delivery -> Row], answered' \in [Delivery -> 0..MaxCount],
           \A d \in Delivery : RowOK(d)', TookOK(w)', ClaimOK(w)',
           \A v \in Worker \ {w} : worker[v].pc = "claim" =>
               /\ \A d \in worker[v].batch : delivery'[d] = delivery[d]
               /\ x.pc = "claim" => worker[v].batch \cap x.batch = {}
    PROVE  Base'
<1>1. /\ worker' \in [Worker -> Loop] /\ worker'[w] = x
      /\ \A v \in Worker \ {w} : worker'[v] = worker[v]
      /\ \A v \in Worker : LoopOK(worker'[v]) /\ Cardinality(worker'[v].cur) <= 1
  BY BecomeOK
<1>2. UNCHANGED <<lease, accepts>>
  BY DEF RowsKept
<1>3. TypeOK'
  BY <1>1, <1>2, TypeParts DEF Base, TypeOK, Loop, Row
<1>4. \A v \in Worker \ {w} : TookOK(v)'
  BY <1>1, <1>3, TookKept DEF Base
<1>5. \A v \in Worker \ {w} : ClaimOK(v)'
  BY <1>1, <1>2, ClaimKept DEF Base
<1>6. ClaimsDisjoint'
  BY <1>1 DEF Base, ClaimsDisjoint
<1>7. \A v \in Worker : LoopOK(worker[v])'
  BY <1>1 DEF LoopOK
<1>8. \A v \in Worker : TookOK(v)' /\ ClaimOK(v)'
  BY <1>4, <1>5
<1> QED BY <1>3, <1>6, <1>7, <1>8 DEF Base

(* A step of a producer. *)
LEMMA ProducerStep ==
    ASSUME Base, RowsKept, UNCHANGED <<worker, histories>>,
           webhook' \in [Webhook -> {"unborn", "active", "deleted"}],
           event' \in [Event -> [state : {"new", "insert", "done", "lost"},
                                 hooks : SUBSET Webhook]],
           delivery' \in [Delivery -> Row],
           \A d \in Delivery : RowOK(d)',
           \A d \in Locked : delivery'[d] = delivery[d]
    PROVE  Base'
<1>1. UNCHANGED <<lease, accepts>>
  BY DEF RowsKept
<1>2. TypeOK'
  BY <1>1, TypeParts DEF Base, TypeOK, Loop, Row
<1>3. \A v \in Worker : TookOK(v)'
  BY <1>2, TookKept DEF Base
<1>4. \A v \in Worker : ClaimOK(v)'
  BY <1>1, ClaimKept, LockedByClaim DEF Base
<1>5. ClaimsDisjoint' /\ \A v \in Worker : LoopOK(worker[v])'
  BY DEF Base, ClaimsDisjoint, LoopOK
<1> QED BY <1>2, <1>3, <1>4, <1>5 DEF Base

-----------------------------------------------------------------------------
(* Producers. *)

LEMMA EnqueueOK ==
    ASSUME Base, UNCHANGED <<lease, accepts>>, NEW e \in Event,
           EnqueueRefused(e) \/ EnqueueRead(e) \/ EnqueueInsert(e) \/ EnqueueAbandon(e)
    PROVE  Base'
<1> USE DEF Base
<1>1. /\ webhook \in [Webhook -> {"unborn", "active", "deleted"}]
      /\ event \in [Event -> [state : {"new", "insert", "done", "lost"},
                              hooks : SUBSET Webhook]]
      /\ delivery \in [Delivery -> Row] /\ answered \in [Delivery -> 0..MaxCount]
  BY TypeParts
<1>2. UNCHANGED <<webhook, worker, histories>>
  BY DEF EnqueueRefused, EnqueueRead, EnqueueInsert, EnqueueAbandon
<1>3. event' \in [Event -> [state : {"new", "insert", "done", "lost"},
                            hooks : SUBSET Webhook]]
  BY <1>1 DEF EnqueueRefused, EnqueueRead, EnqueueInsert, EnqueueAbandon
<1>4. \A f \in Event \ {e} : event'[f] = event[f]
  BY <1>1 DEF EnqueueRefused, EnqueueRead, EnqueueInsert, EnqueueAbandon
<1>5. /\ event[e].state \in {"new", "insert"}
      /\ event[e].state = "new" \/ event'[e].state \in {"done", "lost"}
  BY <1>1 DEF EnqueueRefused, EnqueueRead, EnqueueInsert, EnqueueAbandon
<1>6. \A d \in Delivery :
          \/ delivery'[d] = delivery[d]
          \/ /\ d[2] = e /\ event'[e].state = "done"
             /\ webhook[HookOf(d)] # "deleted" /\ HookOf(d) \notin LockedHooks
             /\ delivery'[d] = [Absent EXCEPT !.status = "pending"]
  BY <1>1, DeliveryParts DEF EnqueueRefused, EnqueueRead, EnqueueInsert, EnqueueAbandon
<1>7. /\ delivery' \in [Delivery -> Row]
      /\ \A d \in Delivery : delivery'[d] # delivery[d] => delivery[d].status = "absent"
  <2>1. delivery' \in [Delivery -> Row]
    BY <1>1, RowKinds DEF EnqueueRefused, EnqueueRead, EnqueueInsert, EnqueueAbandon
  <2>2. \A d \in Delivery : delivery'[d] # delivery[d] => delivery[d].status = "absent"
    BY <1>5, <1>6 DEF RowOK
  <2> QED BY <2>1, <2>2
<1>8. ASSUME NEW d \in Delivery PROVE RowOK(d)'
  <2>1. CASE delivery'[d] = delivery[d]
    BY <1>1, <1>2, <1>4, <1>5, <2>1, DeliveryParts DEF RowOK
  <2>2. CASE delivery'[d] # delivery[d]
    <3>1. answered[d] = 0 /\ delivery'[d] = [Absent EXCEPT !.status = "pending"]
      BY <1>6, <1>7, <2>2 DEF RowOK
    <3> QED BY <1>2, <1>6, <2>2, <3>1, SizeAssumption DEF RowOK, Absent
  <2> QED BY <2>1, <2>2
<1>9. RowsKept
  BY <1>1, <1>2, <1>6, SizeAssumption DEF RowsKept, Absent
<1>10. \A d \in Locked : delivery'[d] = delivery[d]
  <2>1. Locked \subseteq Delivery
    BY TypeParts DEF Locked, Loop
  <2> QED BY <1>6, <2>1 DEF LockedHooks
<1> QED BY <1>1, <1>2, <1>3, <1>7, <1>8, <1>9, <1>10, ProducerStep, TypeParts

LEMMA HookOK ==
    ASSUME Base, UNCHANGED <<lease, accepts>>, NEW h \in Webhook,
           CreateWebhook(h) \/ DeleteWebhook(h)
    PROVE  Base'
<1> USE DEF Base
<1>1. /\ webhook \in [Webhook -> {"unborn", "active", "deleted"}]
      /\ delivery \in [Delivery -> Row]
  BY TypeParts, SizeAssumption
<1>2. UNCHANGED <<event, worker, histories>>
  BY DEF CreateWebhook, DeleteWebhook
<1>3. /\ webhook' \in [Webhook -> {"unborn", "active", "deleted"}]
      /\ \A k \in Webhook : webhook[k] = "deleted" => webhook'[k] = "deleted"
  BY <1>1 DEF CreateWebhook, DeleteWebhook
<1>5. \A d \in Delivery :
          \/ delivery'[d] = delivery[d]
          \/ /\ delivery'[d] = Gone /\ HookOf(d) \notin LockedHooks
             /\ webhook'[HookOf(d)] = "deleted"
  BY <1>1, DeliveryParts DEF CreateWebhook, DeleteWebhook
<1>6. delivery' \in [Delivery -> Row]
  BY <1>1, RowKinds DEF CreateWebhook, DeleteWebhook
<1>7. \A d \in Delivery : RowOK(d)'
  BY <1>2, <1>3, <1>5, DeliveryParts DEF RowOK, Gone, Absent
<1>8. RowsKept
  BY <1>1, <1>2, <1>5, TypeParts, SizeAssumption DEF RowsKept, Gone, Absent
<1>9. \A d \in Locked : delivery'[d] = delivery[d]
  <2>1. Locked \subseteq Delivery
    BY TypeParts DEF Locked, Loop
  <2> QED BY <1>5, <2>1 DEF LockedHooks
<1> QED BY <1>2, <1>3, <1>6, <1>7, <1>8, <1>9, ProducerStep, TypeParts

-----------------------------------------------------------------------------
(* Claims. *)

(* A claim takes at most a batch of the rows that no other claim has. *)
LEMMA ClaimedBatch ==
    ASSUME NEW S \in kSubset(Min({Batch, Cardinality(Claimable)}), Claimable),
           Claimable # {}
    PROVE  S \subseteq Claimable /\ IsFiniteSet(S) /\ S # {} /\ Cardinality(S) <= Batch
<1>1. Claimable \subseteq Delivery
  BY DEF Claimable
<1>2. IsFiniteSet(Claimable) /\ Cardinality(Claimable) \in Nat \ {0}
  BY <1>1, DeliveryFinite, FS_Subset, FS_CardinalityType, FS_EmptySet
<1>3. S \subseteq Claimable /\ Cardinality(S) = Min({Batch, Cardinality(Claimable)})
  BY DEF kSubset
<1>4. Cardinality(S) <= Batch /\ Cardinality(S) # 0
  <2> DEFINE c == Cardinality(Claimable)
  <2>1. c \in Int /\ Batch \in Int /\ c # 0 /\ Batch # 0
    BY <1>2, SizeAssumption
  <2> HIDE DEF c
  <2>2. Min({Batch, c}) \in {Batch, c} /\ Min({Batch, c}) <= Batch
    BY <2>1, MinIsOne
  <2> QED BY <1>3, <2>1, <2>2 DEF c
<1>5. IsFiniteSet(S) /\ S # {}
  BY <1>2, <1>3, <1>4, FS_Subset, FS_EmptySet
<1> QED BY <1>3, <1>4, <1>5

LEMMA ClaimSelectOK ==
    ASSUME Base, UNCHANGED <<lease, accepts>>, NEW w \in Worker, ClaimSelect(w)
    PROVE  Base'
<1> USE DEF Base
<1>1. PICK S \in kSubset(Min({Batch, Cardinality(Claimable)}), Claimable) :
          Become(w, [Idle EXCEPT !.pc = "claim", !.batch = S,
                         !.took = [d \in Delivery |->
                             IF d \in S THEN delivery[d].attempts ELSE 0]])
  BY DEF ClaimSelect
<1> DEFINE took == [d \in Delivery |-> IF d \in S THEN delivery[d].attempts ELSE 0]
           x == [Idle EXCEPT !.pc = "claim", !.batch = S, !.took = took]
<1>2. /\ S \subseteq Claimable /\ IsFiniteSet(S) /\ S # {} /\ Cardinality(S) <= Batch
      /\ S \subseteq Delivery
  BY ClaimedBatch DEF ClaimSelect, Claimable
<1>3. UNCHANGED <<producers, delivery, histories>>
  BY DEF ClaimSelect
<1>4. \A d \in S : Due(d) /\ HookOf(d) \notin LockedHooks
  BY <1>2 DEF Claimable
<1>5. \A d \in S : /\ delivery[d].attempts \in 0 .. MaxAttempts - 1
                   /\ delivery[d].attempts <= answered[d]
                   /\ delivery[d].status # "absent"
  BY <1>2, <1>4, TypeParts, SizeAssumption DEF Due, RowOK, Row
<1>6. took \in [Delivery -> 0 .. MaxAttempts - 1]
  BY <1>2, <1>5, SizeAssumption
<1>7. /\ x.pc = "claim" /\ x.batch = S /\ x.cur = {} /\ x.spent = 0 /\ x.took = took
      /\ x \in Loop
  <2> HIDE DEF took
  <2>1. 0 \in 0 .. SendTime
    BY SizeAssumption
  <2> QED BY <1>2, <1>6, <2>1 DEF Idle, Loop
<1>8. LoopOK(x)
  BY <1>2, <1>7 DEF LoopOK, AtWork
<1>9. worker'[w] = x
  BY <1>1, <1>7, <1>8, BecomeOK
<1>10. TookOK(w)'
  BY <1>2, <1>3, <1>5, <1>7, <1>9 DEF TookOK
<1>11. ClaimOK(w)'
  BY <1>2, <1>3, <1>4, <1>7, <1>9 DEF ClaimOK, Due
<1>12. \A v \in Worker \ {w} : worker[v].pc = "claim" => worker[v].batch \cap x.batch = {}
  BY <1>4, <1>7, LockedByClaim
<1>13. \A d \in Delivery : RowOK(d)'
  BY <1>3 DEF RowOK
<1>14. RowsKept
  BY <1>3, TypeParts, SizeAssumption DEF RowsKept
<1>15. delivery' \in [Delivery -> Row] /\ answered' \in [Delivery -> 0..MaxCount] /\ crashes' \in 0..MaxCrashes
  BY <1>3, TypeParts
<1>16. Become(w, x)
  BY <1>1
<1> HIDE DEF x
<1> QED
  BY <1>3, <1>7, <1>8, <1>10, <1>11, <1>12, <1>13, <1>14, <1>15, <1>16, WorkerStep

LEMMA ClaimCommitOK ==
    ASSUME Base, UNCHANGED <<lease, accepts>>, NEW w \in Worker, ClaimCommit(w)
    PROVE  Base'
<1> USE DEF Base
<1> DEFINE x == [worker[w] EXCEPT !.pc = "work"]
<1>1. /\ worker[w] \in Loop /\ LoopOK(worker[w]) /\ TookOK(w) /\ ClaimOK(w)
      /\ worker[w].pc = "claim" /\ delivery \in [Delivery -> Row]
  BY TypeParts DEF ClaimCommit
<1>2. /\ Become(w, x) /\ UNCHANGED <<producers, histories>>
      /\ delivery' = [d \in Delivery |->
           IF d \in worker[w].batch
           THEN [delivery[d] EXCEPT !.status = "processing", !.age = 0, !.wait = 0]
           ELSE delivery[d]]
  BY DEF ClaimCommit
<1>3. /\ x \in Loop /\ LoopOK(x) /\ x.pc = "work"
      /\ x.batch = worker[w].batch /\ x.took = worker[w].took /\ x.cur = worker[w].cur
  BY <1>1 DEF Loop, LoopOK, AtWork
<1>4. delivery' \in [Delivery -> Row]
  <2>1. 0 \in 0 .. lease + 1 /\ 0 \in Wait
    <3>1. lease \in Nat
      BY TypeParts, SizeAssumption
    <3> QED BY <3>1, WaitType
  <2>2. \A d \in Delivery :
            [delivery[d] EXCEPT !.status = "processing", !.age = 0, !.wait = 0] \in Row
    BY <1>1, <2>1 DEF Row
  <2> QED BY <1>1, <1>2, <2>2
<1>5. \A d \in Delivery :
          IF d \in worker[w].batch
          THEN /\ delivery[d].status \in {"pending", "processing"}
               /\ delivery'[d].status = "processing"
               /\ delivery'[d].attempts = delivery[d].attempts
          ELSE delivery'[d] = delivery[d]
  BY <1>1, <1>2 DEF ClaimOK, Due, Row
<1>6. \A d \in Delivery : RowOK(d)'
  BY <1>2, <1>5 DEF RowOK
<1>7. RowsKept
  <2>1. \A d \in Delivery : delivery[d].status # "absent" => delivery'[d].status # "absent"
    BY <1>5
  <2>2. answered \in [Delivery -> 0..MaxCount] /\ answered' = answered
    BY <1>2, TypeParts
  <2>3. \A d \in Delivery : answered'[d] >= answered[d]
    <3>1. \A d \in Delivery : answered[d] \in Nat
      BY <2>2
    <3> QED BY <2>2, <3>1
  <2> QED BY <2>1, <2>3 DEF RowsKept
<1>8. worker'[w] = x
  BY <1>2, <1>3, BecomeOK
<1>9. TookOK(w)' /\ ClaimOK(w)'
  BY <1>1, <1>2, <1>3, <1>5, <1>8 DEF TookOK, ClaimOK, Loop
<1>10. \A v \in Worker \ {w} : worker[v].pc = "claim" =>
           \A d \in worker[v].batch : delivery'[d] = delivery[d]
  BY <1>1, <1>5, TypeParts DEF ClaimsDisjoint, Loop
<1>11. answered' \in [Delivery -> 0..MaxCount] /\ crashes' \in 0..MaxCrashes
  BY <1>2, TypeParts
<1> HIDE DEF x
<1> QED
  BY <1>2, <1>3, <1>4, <1>6, <1>7, <1>9, <1>10, <1>11, WorkerStep

-----------------------------------------------------------------------------
(* The rows of a batch. *)

LEMMA RestOK ==
    ASSUME Base, NEW w \in Worker, NEW d \in worker[w].batch, worker[w].pc \in AtWork
    PROVE  /\ Rest(w, d) \in Loop /\ LoopOK(Rest(w, d))
           /\ Rest(w, d).batch = worker[w].batch \ {d}
           /\ Rest(w, d).cur = {} /\ Rest(w, d).spent = 0 /\ Rest(w, d).pc # "claim"
           /\ \A c \in Rest(w, d).batch : Rest(w, d).took[c] = worker[w].took[c]
           /\ Cardinality(Rest(w, d).batch) = Cardinality(worker[w].batch) - 1
<1> DEFINE x == Rest(w, d)
           left == worker[w].batch \ {d}
           took == [worker[w].took EXCEPT ![d] = 0]
<1>1. /\ worker[w] \in Loop /\ IsFiniteSet(worker[w].batch)
      /\ Cardinality(worker[w].batch) <= Batch /\ d \in Delivery
  BY TypeParts DEF Base, LoopOK, Loop
<1>2. /\ IsFiniteSet(left)
      /\ Cardinality(left) = Cardinality(worker[w].batch) - 1
      /\ Cardinality(worker[w].batch) \in Nat
  BY <1>1, FS_RemoveElement, FS_CardinalityType
<1>3. took \in [Delivery -> 0 .. MaxAttempts - 1] /\ \A c \in left : took[c] = worker[w].took[c]
  BY <1>1, SizeAssumption DEF Loop
<1>4. x = [Idle EXCEPT !.pc = IF left = {} THEN "idle" ELSE "work",
                       !.batch = left, !.took = took]
  BY DEF Rest
<1>5. left \in SUBSET Delivery /\ 0 \in 0 .. SendTime /\ Cardinality(left) <= Batch
  BY <1>1, <1>2, SizeAssumption DEF Loop
<1> HIDE DEF left, took, x
<1>6. /\ x.pc \in {"idle", "work"} /\ (x.pc = "idle" <=> left = {})
      /\ x.batch = left /\ x.took = took /\ x.cur = {} /\ x.spent = 0
      /\ x \in Loop
  BY <1>3, <1>4, <1>5 DEF Idle, Loop
<1>7. LoopOK(x)
  BY <1>2, <1>5, <1>6 DEF LoopOK, AtWork
<1> QED BY <1>2, <1>3, <1>6, <1>7 DEF x, left

(* A statement that leaves the rows alone. *)
LEMMA QuietOK ==
    ASSUME Base, UNCHANGED <<lease, accepts>>, NEW w \in Worker, NEW x \in Loop, LoopOK(x), Become(w, x),
           UNCHANGED <<producers, delivery, answered>>, crashes' \in 0..MaxCrashes,
           x.pc # "claim", x.batch \subseteq worker[w].batch,
           \A d \in x.batch : x.took[d] = worker[w].took[d]
    PROVE  Base'
<1> USE DEF Base
<1>1. worker'[w] = x
  BY BecomeOK
<1>2. TookOK(w)' /\ ClaimOK(w)'
  BY <1>1 DEF TookOK, ClaimOK
<1>3. \A d \in Delivery : RowOK(d)'
  BY DEF RowOK
<1>4. RowsKept /\ delivery' \in [Delivery -> Row] /\ answered' \in [Delivery -> 0..MaxCount]
  BY TypeParts DEF RowsKept
<1> QED BY <1>2, <1>3, <1>4, WorkerStep

LEMMA AnswerOK ==
    ASSUME Base, UNCHANGED <<lease, accepts>>, NEW w \in Worker, NEW ok \in BOOLEAN, Answer(w, ok)
    PROVE  Base'
<1> DEFINE x == [worker[w] EXCEPT !.pc = "record", !.ok = ok]
<1>1. worker[w] \in Loop /\ LoopOK(worker[w]) /\ worker[w].pc = "send"
  BY TypeParts DEF Base, Answer
<1>2. /\ x \in Loop /\ LoopOK(x) /\ x.pc # "claim" /\ x.batch = worker[w].batch
      /\ x.took = worker[w].took /\ x.cur = worker[w].cur
  BY <1>1 DEF Loop, LoopOK, AtWork
<1>3. Become(w, x) /\ UNCHANGED <<producers, delivery, histories>>
  BY DEF Answer
<1>4. crashes' \in 0..MaxCrashes
  BY <1>3, TypeParts DEF Base
<1> HIDE DEF x
<1> QED BY <1>2, <1>3, <1>4, QuietOK

LEMMA DisturbOK ==
    ASSUME Base, UNCHANGED <<lease, accepts>>, NEW w \in Worker, Disturb(w) \/ Restart(w)
    PROVE  Base'
<1>1. PICK p \in {"idle", "dead", "down"} : \E x \in {[Idle EXCEPT !.pc = p], Idle} :
          Become(w, x)
  BY DEF Disturb, StatementFails, Crash, Panic, LoseBatch, Restart
<1>2. PICK x \in {[Idle EXCEPT !.pc = p], Idle} : Become(w, x)
  BY <1>1
<1>3. x \in Loop /\ LoopOK(x) /\ x.pc # "claim" /\ x.batch = {} /\ x.cur = {}
  <2>1. x \in Loop /\ LoopOK(x)
    BY <1>2, IdleOK
  <2>2. x.pc # "claim" /\ x.batch = {} /\ x.cur = {}
    BY <1>2 DEF Idle
  <2> QED BY <2>1, <2>2
<1>4. UNCHANGED <<producers, delivery, answered>> /\ crashes' \in 0..MaxCrashes
  BY TypeParts, SizeAssumption
     DEF Disturb, StatementFails, Crash, Panic, LoseBatch, Restart, Base
<1> QED BY <1>2, <1>3, <1>4, QuietOK

LEMMA PostOK ==
    ASSUME Base, UNCHANGED <<lease, accepts>>, NEW w \in Worker, NEW d \in Delivery, Post(w, d)
    PROVE  Base'
<1> DEFINE x == [worker[w] EXCEPT !.pc = "send", !.cur = {d}]
<1>1. worker[w] \in Loop /\ LoopOK(worker[w]) /\ worker[w].pc = "work" /\ d \in worker[w].batch
  BY TypeParts DEF Base, Post
<1>2. /\ x \in Loop /\ LoopOK(x) /\ x.pc # "claim" /\ x.batch = worker[w].batch
      /\ x.took = worker[w].took
  BY <1>1 DEF Loop, LoopOK, AtWork
<1>3. Become(w, x) /\ UNCHANGED <<producers, delivery, histories>>
  BY DEF Post
<1>4. crashes' \in 0..MaxCrashes /\ answered' = answered
  BY <1>3, TypeParts DEF Base
<1> HIDE DEF x
<1> QED BY <1>2, <1>3, <1>4, QuietOK

(* An answer or a refusal is written to row d of the worker's batch. *)
LEMMA WriteOK ==
    ASSUME Base, UNCHANGED <<lease, accepts>>, NEW w \in Worker, NEW d \in worker[w].batch,
           worker[w].pc \in AtWork, d \notin Locked,
           NEW row \in Row, row.status \in {"pending", "success", "failed"},
           row.status = "pending" => row.attempts < MaxAttempts /\ row.attempts <= answered'[d],
           answered' \in [Delivery -> 0..MaxCount], answered'[d] >= answered[d],
           \A c \in Delivery \ {d} : answered'[c] = answered[c],
           Write(d, row), Become(w, Rest(w, d)), UNCHANGED <<producers, crashes>>
    PROVE  Base'
<1> USE DEF Base
<1> DEFINE x == Rest(w, d)
<1>1. /\ x \in Loop /\ LoopOK(x) /\ x.pc # "claim" /\ x.cur = {}
      /\ x.batch \subseteq worker[w].batch
      /\ \A c \in x.batch : x.took[c] = worker[w].took[c]
  BY RestOK
<1>2. /\ delivery \in [Delivery -> Row] /\ answered \in [Delivery -> 0..MaxCount]
      /\ d \in Delivery /\ UNCHANGED producers
  BY TypeParts DEF Loop
<1>3. /\ delivery' \in [Delivery -> Row]
      /\ \A c \in Delivery \ {d} : delivery'[c] = delivery[c]
      /\ delivery'[d] = IF delivery[d].status = "gone" THEN delivery[d] ELSE row
  BY <1>2 DEF Write
<1>4. worker'[w] = x
  BY <1>1, BecomeOK
<1>5. delivery[d].status # "absent"
  BY DEF TookOK
<1>6. TookOK(w)'
  <2>1. \A c \in x.batch : /\ c \in Delivery /\ worker[w].took[c] <= answered[c]
                           /\ delivery[c].status # "absent"
    BY <1>1, TypeParts DEF TookOK, Loop
  <2>2. \A c \in x.batch : delivery'[c].status # "absent"
    BY <1>3, <1>5, <2>1
  <2>3. \A c \in x.batch : worker[w].took[c] <= answered'[c]
    <3>1. \A c \in x.batch : worker[w].took[c] \in Nat
      BY <1>1, TypeParts, SizeAssumption DEF Loop
    <3>2. \A c \in Delivery : answered[c] \in Nat /\ answered'[c] \in Nat
      BY <1>2, SizeAssumption
    <3>3. \A c \in Delivery : answered'[c] >= answered[c]
      BY <1>2, <3>2
    <3> HIDE DEF x
    <3> QED BY <2>1, <3>1, <3>2, <3>3
  <2> HIDE DEF x
  <2> QED BY <1>1, <1>4, <2>2, <2>3 DEF TookOK
<1>7. ClaimOK(w)'
  BY <1>1, <1>4 DEF ClaimOK
<1>8. \A c \in Delivery : RowOK(c)'
  <2>1. event[d[2]].state \notin {"new", "insert"} \/ delivery[d].status = "gone"
    BY <1>2, <1>5 DEF RowOK
  <2>2. ASSUME NEW c \in Delivery \ {d} PROVE RowOK(c)'
    <3>1. delivery'[c] = delivery[c] /\ answered'[c] = answered[c] /\ RowOK(c)
      BY <1>3
    <3> QED BY <3>1 DEF RowOK
  <2>3. RowOK(d)'
    <3>1. delivery'[d].status = "pending" =>
              delivery'[d].attempts < MaxAttempts /\ delivery'[d].attempts <= answered'[d]
      BY <1>3
    <3>2. RowOK(d) /\ delivery'[d].status \notin {"absent", "processing"}
      BY <1>2, <1>3, <1>5, <2>1 DEF RowOK
    <3> QED BY <1>3, <2>1, <3>1, <3>2 DEF RowOK
  <2> QED BY <2>2, <2>3
<1>9. RowsKept
  <2>1. \A c \in Delivery : answered[c] \in Nat
    BY <1>2, SizeAssumption
  <2>2. \A c \in Delivery : answered'[c] >= answered[c]
    BY <2>1
  <2>3. ASSUME NEW c \in Delivery, delivery[c].status # "absent"
        PROVE  delivery'[c].status # "absent"
    BY <1>3, <1>5, <2>3
  <2> QED BY <2>2, <2>3 DEF RowsKept
<1>10. \A v \in Worker \ {w} : worker[v].pc = "claim" =>
           \A c \in worker[v].batch : delivery'[c] = delivery[c]
  BY <1>3, LockedByClaim, TypeParts DEF Loop
<1>11. crashes' \in 0..MaxCrashes /\ answered' \in [Delivery -> 0..MaxCount]
  BY <1>2, TypeParts
<1> HIDE DEF x
<1>12. Become(w, x)
  BY DEF x
<1> QED BY <1>1, <1>2, <1>3, <1>6, <1>7, <1>8, <1>9, <1>10, <1>11, <1>12, WorkerStep

LEMMA BlockOK ==
    ASSUME Base, UNCHANGED <<lease, accepts>>, NEW w \in Worker, NEW d \in Delivery, Block(w, d)
    PROVE  Base'
<1> DEFINE n == worker[w].took[d] + 1
           row == [Absent EXCEPT !.status = "failed", !.attempts = n]
<1>1. worker[w].took[d] \in 0 .. MaxAttempts - 1
  BY TypeParts DEF Base, Loop
<1>2. n \in 0 .. MaxAttempts
  BY <1>1, SizeAssumption
<1>3. row \in Row
  BY <1>2, RowKinds DEF Base
<1>4. row.status = "failed"
  BY DEF Absent
<1>5. /\ worker[w].pc \in AtWork /\ d \in worker[w].batch /\ d \notin Locked
      /\ Write(d, row) /\ Become(w, Rest(w, d)) /\ UNCHANGED <<producers, histories>>
  BY DEF Block, AtWork
<1>6. /\ answered' \in [Delivery -> 0..MaxCount] /\ answered'[d] >= answered[d]
      /\ answered' = answered /\ crashes' = crashes
  BY <1>5, TypeParts, SizeAssumption DEF Base
<1> HIDE DEF row
<1> QED BY <1>3, <1>4, <1>5, <1>6, WriteOK

(* The row after an attempt: pending only if there are attempts left. *)
LEMMA AfterAttemptOK ==
    ASSUME TypeOK, NEW n \in 1 .. MaxAttempts, NEW ok \in BOOLEAN
    PROVE  LET row == AfterAttempt(n, ok)
           IN  /\ row \in Row /\ row.attempts = n
               /\ row.status \in {"pending", "success", "failed"}
               /\ row.status = "pending" => n < MaxAttempts
               /\ row.status = "failed" => n >= MaxAttempts
<1> DEFINE base == [Absent EXCEPT !.attempts = n]
<1>1. lease \in Nat /\ MaxAttempts \in Nat /\ 0 \in Wait
  BY TypeParts, SizeAssumption, WaitType
<1>2. 0 \in 0 .. lease + 1 /\ n \in 0 .. MaxAttempts /\ (n < MaxAttempts \/ n >= MaxAttempts)
  BY <1>1
<1>3. \A st \in {"pending", "success", "failed"} : \A x \in Wait :
          [base EXCEPT !.status = st, !.wait = x] \in Row
  BY <1>1, <1>2 DEF Absent, Row
<1>4. CASE ok
  <2>1. AfterAttempt(n, ok) = [base EXCEPT !.status = "success"]
    BY <1>4 DEF AfterAttempt
  <2> QED BY <1>1, <1>2, <2>1 DEF Absent, Row
<1>5. CASE ~ok /\ n < MaxAttempts
  <2>1. AfterAttempt(n, ok) = [base EXCEPT !.status = "pending", !.wait = Backoff[n]]
    BY <1>5 DEF AfterAttempt
  <2>2. Backoff[n] \in Wait
    BY <1>1, <1>5, WaitType
  <2> QED BY <1>2, <1>3, <1>5, <2>1, <2>2 DEF Absent
<1>6. CASE ~ok /\ n >= MaxAttempts
  <2>1. AfterAttempt(n, ok) = [base EXCEPT !.status = "failed"]
    BY <1>1, <1>6 DEF AfterAttempt
  <2> QED BY <1>1, <1>2, <1>6, <2>1 DEF Absent, Row
<1> QED BY <1>2, <1>4, <1>5, <1>6

(* The attempt a worker records is one of those the limit allows, and its  *)
(* answer is counted.                                                      *)
LEMMA Recorded ==
    ASSUME Base, NEW w \in Worker, NEW d \in worker[w].cur, worker[w].pc = "record",
           answered' = [answered EXCEPT ![d] = Min({@ + 1, MaxCount})]
    PROVE  /\ d \in worker[w].batch /\ d \in Delivery
           /\ worker[w].took[d] + 1 \in 1 .. MaxAttempts
           /\ worker[w].ok \in BOOLEAN
           /\ answered' \in [Delivery -> 0..MaxCount]
           /\ answered'[d] >= answered[d] /\ answered'[d] <= answered[d] + 1
           /\ worker[w].took[d] + 1 <= answered'[d]
           /\ \A c \in Delivery \ {d} : answered'[c] = answered[c]
<1>1. /\ worker[w] \in Loop /\ LoopOK(worker[w]) /\ TookOK(w)
      /\ answered \in [Delivery -> 0..MaxCount]
  BY TypeParts DEF Base
<1>2. d \in worker[w].batch /\ d \in Delivery
  BY <1>1 DEF LoopOK, Loop
<1> DEFINE n == answered[d]
           k == worker[w].took[d] + 1
           m == Min({n + 1, MaxCount})
<1>3. worker[w].took[d] \in 0 .. MaxAttempts - 1 /\ n \in 0..MaxCount /\ worker[w].ok \in BOOLEAN
  BY <1>1, <1>2 DEF Loop
<1>4. worker[w].took[d] <= n
  BY <1>1, <1>2 DEF TookOK
<1>5. k \in 1..MaxAttempts /\ k - 1 <= n
  BY <1>3, <1>4, SizeAssumption
<1> HIDE DEF n, k
<1>6. m \in 0..MaxCount /\ m >= n /\ m <= n + 1 /\ k <= m
  BY <1>3, <1>5, Counting
<1> HIDE DEF m
<1>7. answered' = [answered EXCEPT ![d] = m]
  BY DEF m, n
<1>8. /\ answered' \in [Delivery -> 0..MaxCount] /\ answered'[d] = m
      /\ \A c \in Delivery \ {d} : answered'[c] = answered[c]
  BY <1>1, <1>2, <1>6, <1>7
<1> QED BY <1>2, <1>3, <1>5, <1>6, <1>8 DEF n, k

LEMMA RecordOK ==
    ASSUME Base, UNCHANGED <<lease, accepts>>, NEW w \in Worker, Record(w)
    PROVE  Base'
<1>1. PICK d \in worker[w].cur :
          /\ worker[w].pc = "record" /\ d \notin Locked
          /\ Write(d, AfterAttempt(worker[w].took[d] + 1, worker[w].ok))
          /\ answered' = [answered EXCEPT ![d] = Min({@ + 1, MaxCount})]
          /\ Become(w, Rest(w, d)) /\ UNCHANGED <<producers, crashes>>
  BY DEF Record
<1> DEFINE n == worker[w].took[d] + 1
           row == AfterAttempt(n, worker[w].ok)
<1>2. /\ d \in worker[w].batch /\ n \in 1 .. MaxAttempts /\ n <= answered'[d]
      /\ worker[w].ok \in BOOLEAN
      /\ answered' \in [Delivery -> 0..MaxCount] /\ answered'[d] >= answered[d]
      /\ \A c \in Delivery \ {d} : answered'[c] = answered[c]
  BY <1>1, Recorded
<1>3. /\ row \in Row /\ row.status \in {"pending", "success", "failed"}
      /\ row.attempts = n /\ (row.status = "pending" => n < MaxAttempts)
  BY <1>2, AfterAttemptOK DEF Base
<1>4. worker[w].pc \in AtWork
  BY <1>1 DEF AtWork
<1> HIDE DEF row
<1>5. Write(d, row)
  BY <1>1 DEF row
<1> QED BY <1>1, <1>2, <1>3, <1>4, <1>5, WriteOK

-----------------------------------------------------------------------------
(* Time. *)
LEMMA TickRow ==
    ASSUME Base, Tick, NEW d \in Delivery
    PROVE  /\ delivery'[d] \in Row
           /\ delivery'[d].status = delivery[d].status
           /\ delivery'[d].attempts = delivery[d].attempts
           /\ delivery'[d].age <= delivery[d].age + 1
<1> DEFINE r == delivery[d]
           age == IF r.status = "processing" /\ r.age <= lease THEN r.age + 1 ELSE r.age
           wait == IF r.wait > 0 THEN r.wait - 1 ELSE 0
<1>1. r \in Row /\ lease \in Nat
  BY TypeParts, SizeAssumption DEF Base
<1>2. delivery'[d] = [r EXCEPT !.age = age, !.wait = wait]
  BY DEF Tick
<1>3. age \in 0 .. lease + 1 /\ age <= r.age + 1
  BY <1>1 DEF Row
<1>4. wait \in Wait
  BY <1>1, WaitType DEF Row
<1> HIDE DEF age, wait
<1>5. delivery'[d] = [status |-> r.status, attempts |-> r.attempts, age |-> age, wait |-> wait]
  BY <1>1, <1>2 DEF Row
<1> QED BY <1>1, <1>3, <1>4, <1>5 DEF Row

LEMMA TickWorker ==
    ASSUME Base, Tick, NEW w \in Worker
    PROVE  /\ worker'[w] \in Loop /\ LoopOK(worker'[w])
           /\ worker'[w].pc = worker[w].pc /\ worker'[w].batch = worker[w].batch
           /\ worker'[w].took = worker[w].took /\ worker'[w].cur = worker[w].cur
           /\ worker[w].pc # "claim"
           /\ worker[w].pc \in AtWork => worker'[w].spent = worker[w].spent + 1
<1>1. worker[w] \in Loop /\ LoopOK(worker[w])
  BY TypeParts DEF Base
<1>2. worker[w].pc # "claim"
  BY DEF Tick
<1>3. CASE worker[w].pc \in AtWork
  <2>1. worker[w].spent + 1 \in 0 .. SendTime
    <3>1. worker[w].spent < SendTime
      BY <1>3 DEF Tick, AtWork
    <3>2. worker[w].spent \in 0 .. SendTime /\ SendTime \in Nat
      BY <1>1, SizeAssumption DEF Loop
    <3> QED BY <3>1, <3>2
  <2>2. worker'[w] = [worker[w] EXCEPT !.spent = worker[w].spent + 1]
    BY <1>3 DEF Tick, AtWork
  <2> QED BY <1>1, <1>2, <2>1, <2>2 DEF Loop, LoopOK
<1>4. CASE worker[w].pc \notin AtWork
  BY <1>1, <1>2, <1>4 DEF Tick, AtWork
<1> QED BY <1>3, <1>4

LEMMA TickOK ==
    ASSUME Base, UNCHANGED <<lease, accepts>>, Tick
    PROVE  Base'
<1>1. UNCHANGED <<producers, histories>>
  BY DEF Tick
<1>2. delivery' \in [Delivery -> Row] /\ worker' \in [Worker -> Loop]
  BY TickRow, TickWorker DEF Tick
<1>3. \A w \in Worker : LoopOK(worker'[w]) /\ Cardinality(worker'[w].cur) <= 1
  BY TickWorker, CurOne
<1>4. TypeOK'
  BY <1>1, <1>2, <1>3, TypeParts DEF Base, TypeOK, Loop, Row
<1>5. \A w \in Worker : TookOK(w)'
  <2> SUFFICES ASSUME NEW w \in Worker PROVE TookOK(w)'
    OBVIOUS
  <2>1. worker[w].batch \subseteq Delivery /\ TookOK(w)
    BY TypeParts DEF Base, Loop
  <2> QED BY <1>1, <2>1, TickRow, TickWorker DEF TookOK
<1>6. \A w \in Worker : ClaimOK(w)' /\ LoopOK(worker[w])'
  BY <1>3, TickWorker DEF ClaimOK, LoopOK
<1>7. \A d \in Delivery : RowOK(d)'
  BY <1>1, TickRow DEF RowOK, Base
<1>8. ClaimsDisjoint'
  BY TickWorker DEF ClaimsDisjoint
<1> QED BY <1>4, <1>5, <1>6, <1>7, <1>8 DEF Base

LEMMA InitBase == Init => Base
<1> SUFFICES ASSUME Init PROVE Base
  OBVIOUS
<1>1. lease \in Leases /\ lease \in Nat /\ accepts \subseteq {"event", "status"}
  BY SizeAssumption DEF Init
<1>2. delivery \in [Delivery -> Row]
  <2>1. 0 \in 0 .. lease + 1 /\ 0 \in 0 .. MaxAttempts /\ 0 \in Wait
    BY <1>1, SizeAssumption, WaitType
  <2> QED BY <2>1 DEF Init, Absent, Row
<1>3. \A w \in Worker : worker[w] = Idle
  BY DEF Init
<1>4. Idle \in Loop /\ LoopOK(Idle) /\ Idle.pc = "idle" /\ Idle.batch = {}
  BY IdleOK DEF Idle
<1>5. /\ webhook \in [Webhook -> {"unborn", "active", "deleted"}]
      /\ event \in [Event -> [state : {"new", "insert", "done", "lost"},
                              hooks : SUBSET Webhook]]
      /\ answered \in [Delivery -> 0..MaxCount]
  BY SizeAssumption DEF Init
<1>6. crashes \in 0..MaxCrashes
  BY SizeAssumption DEF Init
<1>7. TypeOK
  <2>1. worker \in [Worker -> Loop]
    BY <1>4 DEF Init
  <2>2. \A w \in Worker : Cardinality(worker[w].cur) <= 1
    BY <1>3, <1>4, CurOne
  <2> QED BY <1>1, <1>2, <1>5, <1>6, <2>1, <2>2, TypeParts
<1>8. \A w \in Worker : LoopOK(worker[w]) /\ TookOK(w) /\ ClaimOK(w)
  BY <1>3, <1>4 DEF TookOK, ClaimOK
<1>9. \A d \in Delivery : RowOK(d)
  BY DeliveryParts DEF Init, RowOK, Absent
<1>10. ClaimsDisjoint
  BY <1>3, <1>4 DEF ClaimsDisjoint
<1> QED BY <1>7, <1>8, <1>9, <1>10 DEF Base

LEMMA NextBase == Base /\ [Next]_vars => Base'
<1> SUFFICES ASSUME Base, [Next]_vars PROVE Base'
  OBVIOUS
<1>1. CASE Next
  <2>1. UNCHANGED <<lease, accepts>>
    BY <1>1 DEF Next
  <2>2. CASE Produce
    BY <2>1, <2>2, EnqueueOK, HookOK DEF Produce
  <2>3. CASE Tick
    BY <2>1, <2>3, TickOK
  <2>4. ASSUME NEW w \in Worker, Work(w) \/ Restart(w) \/ Disturb(w) PROVE Base'
    <3>1. CASE Work(w)
      BY <2>1, <3>1, ClaimSelectOK, ClaimCommitOK, RecordOK, PostOK, BlockOK, AnswerOK
         DEF Work
    <3> QED BY <2>1, <2>4, <3>1, DisturbOK
  <2> QED BY <1>1, <2>2, <2>3, <2>4 DEF Next
<1>2. CASE UNCHANGED vars
  <2> USE <1>2 DEF vars, system
  <2>1. TypeOK'
    BY TypeParts DEF Base, TypeOK, Row
  <2>2. \A w \in Worker : LoopOK(worker[w])' /\ TookOK(w)' /\ ClaimOK(w)'
    BY DEF Base, LoopOK, TookOK, ClaimOK, Due
  <2>3. ClaimsDisjoint' /\ \A d \in Delivery : RowOK(d)'
    BY DEF Base, ClaimsDisjoint, RowOK
  <2> QED BY <2>1, <2>2, <2>3 DEF Base
<1> QED BY <1>1, <1>2

(* The types, the locks of the claims, and what each loop and each row keep *)
(* of each other, hold throughout: through every crash and failing statement. *)
THEOREM BaseInductive == Spec => []Base
BY InitBase, NextBase, PTL DEF Spec

(* Every variable of the delivery queue has its type. *)
THEOREM TypeCorrect == Spec => []TypeOK
<1>1. Base => TypeOK
  BY DEF Base
<1> QED BY <1>1, BaseInductive, PTL

(* FOR UPDATE SKIP LOCKED: what a claim takes is still due when it commits. *)
THEOREM ClaimsTakeDueRows == Spec => ClaimsAreDue
<1>1. Base => \A w \in Worker : \A d \in worker[w].batch : ClaimCommit(w) => Due(d)
  BY DEF Base, ClaimOK, ClaimCommit
<1> QED BY <1>1, BaseInductive, PTL DEF Spec, ClaimsAreDue

-----------------------------------------------------------------------------
(* What each step does to a row. *)

LEMMA ProducerRow ==
    ASSUME Base, Produce
    PROVE  /\ UNCHANGED <<worker, histories>>
           /\ \A d \in Delivery :
              \/ delivery'[d] = delivery[d]
              \/ delivery'[d] = Gone
              \/ /\ delivery[d].status = "absent"
                 /\ delivery'[d] = [Absent EXCEPT !.status = "pending"]
<1> USE DEF Base
<1>1. ASSUME NEW h \in Webhook, CreateWebhook(h) \/ DeleteWebhook(h)
      PROVE  /\ \A d \in Delivery : delivery'[d] \in {delivery[d], Gone}
             /\ UNCHANGED <<worker, histories>>
  BY <1>1 DEF CreateWebhook, DeleteWebhook
<1>2. ASSUME NEW e \in Event, EnqueueRefused(e) \/ EnqueueRead(e) \/ EnqueueInsert(e) \/ EnqueueAbandon(e)
      PROVE  /\ \A d \in Delivery :
                \/ delivery'[d] = delivery[d]
                \/ /\ delivery[d].status = "absent"
                   /\ delivery'[d] = [Absent EXCEPT !.status = "pending"]
             /\ UNCHANGED <<worker, histories>>
  <2>1. UNCHANGED <<worker, histories>>
    BY <1>2 DEF EnqueueRefused, EnqueueRead, EnqueueInsert, EnqueueAbandon
  <2>2. \A d \in Delivery :
        \/ delivery'[d] = delivery[d]
        \/ /\ d[2] = e /\ event[e].state = "insert" /\ webhook[HookOf(d)] # "deleted"
           /\ delivery'[d] = [Absent EXCEPT !.status = "pending"]
    BY <1>2, DeliveryParts DEF EnqueueRefused, EnqueueRead, EnqueueInsert, EnqueueAbandon
  <2> QED BY <2>1, <2>2 DEF RowOK
<1> QED BY <1>1, <1>2 DEF Produce

LEMMA ClaimCommitRow ==
    ASSUME Base, NEW w \in Worker, ClaimCommit(w), NEW d \in Delivery
    PROVE  /\ UNCHANGED histories
           /\ d \notin worker[w].batch => delivery'[d] = delivery[d]
           /\ d \in worker[w].batch =>
                 /\ Due(d) /\ delivery[d].status \in {"pending", "processing"}
                 /\ delivery'[d].status = "processing" /\ delivery'[d].age = 0
                 /\ delivery'[d].attempts = delivery[d].attempts
<1>1. delivery[d] \in Row /\ ClaimOK(w)
  BY TypeParts DEF Base
<1>2. UNCHANGED histories
  BY DEF ClaimCommit
<1>3. delivery'[d] = IF d \in worker[w].batch
           THEN [delivery[d] EXCEPT !.status = "processing", !.age = 0, !.wait = 0]
           ELSE delivery[d]
  BY DEF ClaimCommit
<1>4. d \in worker[w].batch => Due(d)
  BY <1>1 DEF ClaimOK, ClaimCommit
<1> QED BY <1>1, <1>2, <1>3, <1>4 DEF Due, Row

(* A worker that gets an answer, or whose address is refused, writes row d. *)
LEMMA WriteRow ==
    ASSUME Base, NEW w \in Worker, NEW d \in worker[w].batch, NEW row,
           Write(d, row)
    PROVE  /\ \A c \in Delivery \ {d} : delivery'[c] = delivery[c]
           /\ delivery'[d] = IF delivery[d].status = "gone" THEN delivery[d] ELSE row
BY TypeParts DEF Base, Write, Loop

LEMMA RecordRow ==
    ASSUME Base, NEW w \in Worker, Record(w)
    PROVE  \E d \in worker[w].batch, row \in Row :
              /\ answered' \in [Delivery -> Nat]
              /\ worker[w].pc \in AtWork /\ worker[w].cur = {d}
              /\ Become(w, Rest(w, d)) /\ Write(d, row)
              /\ row.attempts = worker[w].took[d] + 1
              /\ row.status = "failed" => answered'[d] >= MaxAttempts
              /\ row.status # "gone"
              /\ answered'[d] <= answered[d] + 1
              /\ \A c \in Delivery \ {d} : answered'[c] = answered[c]
<1>1. PICK d \in worker[w].cur :
          /\ worker[w].pc = "record"
          /\ Write(d, AfterAttempt(worker[w].took[d] + 1, worker[w].ok))
          /\ answered' = [answered EXCEPT ![d] = Min({@ + 1, MaxCount})]
          /\ Become(w, Rest(w, d))
  BY DEF Record
<1> DEFINE n == worker[w].took[d] + 1
           row == AfterAttempt(n, worker[w].ok)
<1>2. /\ d \in worker[w].batch /\ d \in Delivery /\ n \in 1 .. MaxAttempts
      /\ n <= answered'[d] /\ worker[w].ok \in BOOLEAN
      /\ answered' \in [Delivery -> 0..MaxCount] /\ answered'[d] <= answered[d] + 1
      /\ \A c \in Delivery \ {d} : answered'[c] = answered[c]
  BY <1>1, Recorded
<1>3. /\ row \in Row /\ row.status \in {"pending", "success", "failed"}
      /\ row.attempts = n /\ (row.status = "failed" => n >= MaxAttempts)
  BY <1>2, AfterAttemptOK DEF Base
<1>4. worker[w].cur = {d} /\ worker[w].pc \in AtWork
  BY <1>1 DEF Base, LoopOK, AtWork
<1>5. answered' \in [Delivery -> Nat] /\ answered'[d] \in Nat /\ MaxAttempts \in Nat /\ n \in Nat
  BY <1>2, SizeAssumption
<1>6. row.status = "failed" => answered'[d] >= MaxAttempts
  BY <1>2, <1>3, <1>5
<1> HIDE DEF row
<1>7. Write(d, row)
  BY <1>1 DEF row
<1> QED BY <1>1, <1>2, <1>3, <1>4, <1>5, <1>6, <1>7

(* A delivery is given up when all its attempts were answered or its       *)
(* address was refused: crashes and claims that were lost cost it nothing.         *)
THEOREM GivesUp == Spec => GivesUpAfterMaxAttempts
<1> DEFINE Right(d) ==
        delivery[d].status # "failed" /\ delivery'[d].status = "failed" =>
            answered'[d] >= MaxAttempts \/ \E w \in Worker : Block(w, d)
<1>1. ASSUME Base, Next, NEW d \in Delivery,
             delivery[d].status # "failed", delivery'[d].status = "failed"
      PROVE  answered'[d] >= MaxAttempts \/ \E w \in Worker : Block(w, d)
  <2>1. ~Produce
    BY <1>1, ProducerRow DEF Gone, Absent
  <2>2. ~Tick
    BY <1>1, TickRow
  <2>3. ASSUME NEW w \in Worker, Work(w) \/ Restart(w) \/ Disturb(w)
        PROVE  answered'[d] >= MaxAttempts \/ Block(w, d)
    <3>1. CASE Record(w)
      <4>1. PICK e \in worker[w].batch, row \in Row :
              Write(e, row) /\ (row.status = "failed" => answered'[e] >= MaxAttempts)
        BY <1>1, <3>1, RecordRow
      <4>2. /\ \A c \in Delivery \ {e} : delivery'[c] = delivery[c]
            /\ delivery'[e] = IF delivery[e].status = "gone" THEN delivery[e] ELSE row
        BY <1>1, <4>1, WriteRow
      <4> QED BY <1>1, <4>1, <4>2
    <3>2. ASSUME NEW e \in Delivery, Block(w, e) PROVE Block(w, d)
      <4>1. \A c \in Delivery \ {e} : delivery'[c] = delivery[c]
        BY <3>2 DEF Block, Write
      <4> QED BY <1>1, <3>2, <4>1
    <3>3. ~ClaimCommit(w)
      BY <1>1, ClaimCommitRow
    <3>4. delivery' # delivery
      BY <1>1
    <3> QED BY <2>3, <3>1, <3>2, <3>3, <3>4
            DEF Work, Restart, Disturb, StatementFails, Crash, Panic, LoseBatch, ClaimSelect,
                Post, Answer
  <2> QED BY <1>1, <2>1, <2>2, <2>3 DEF Next
<1>2. Base /\ [Next]_vars => [\A d \in Delivery : Right(d)]_vars
  BY <1>1
<1> QED BY <1>2, BaseInductive, PTL DEF Spec, GivesUpAfterMaxAttempts

-----------------------------------------------------------------------------
(* When a batch is sent within its lease. *)

(* The rows of a batch are the worker's until it has written them: a row   *)
(* is claimed for no longer than what was sent before it, and the current  *)
(* one, can take.                                                          *)
Owned(w) ==
    worker[w].pc \in AtWork =>
        \A d \in worker[w].batch :
            \/ delivery[d].status = "gone"
            \/ /\ delivery[d].status = "processing"
               /\ worker[w].took[d] = delivery[d].attempts
               /\ delivery[d].age + Cardinality(worker[w].batch) * SendTime
                     <= Batch * SendTime + worker[w].spent

Exclusive ==
    \A v, w \in Worker : v # w => worker[v].batch \cap worker[w].batch = {}

CountOK(d) ==
    delivery[d].status \notin {"absent", "gone"} =>
        answered[d] <= delivery[d].attempts

Fit ==
    /\ \A w \in Worker : Owned(w)
    /\ Exclusive
    /\ \A d \in Delivery : CountOK(d)

LEMMA Times ==
    ASSUME NEW n \in Nat, NEW k \in Nat, NEW s \in Nat
    PROVE  /\ n * s \in Nat
           /\ n <= k => n * s <= k * s
           /\ n > 0 => (n - 1) * s = n * s - s /\ n * s >= s
OBVIOUS

(* A row in the batch of a working worker is not due to another one. *)
LEMMA OwnedIsNotDue ==
    ASSUME Base, BatchFits, NEW w \in Worker, worker[w].pc \in AtWork, Owned(w),
           NEW d \in worker[w].batch
    PROVE  delivery[d].status \in {"processing", "gone"} /\ ~Due(d)
<1> DEFINE n == Cardinality(worker[w].batch)
<1>1. /\ worker[w] \in Loop /\ delivery[d] \in Row /\ lease \in Nat
      /\ Batch \in Nat /\ SendTime \in Nat
  BY TypeParts, SizeAssumption DEF Base, Loop
<1>2. n \in Nat \ {0}
  BY FS_CardinalityType, FS_EmptySet DEF Base, LoopOK
<1>3. CASE delivery[d].status = "gone"
  BY <1>3 DEF Due
<1>4. CASE delivery[d].status = "processing"
  <2>1. delivery[d].age + n * SendTime <= Batch * SendTime + worker[w].spent
    BY <1>4 DEF Owned
  <2>2. n * SendTime \in Nat /\ n * SendTime >= SendTime /\ Batch * SendTime \in Nat
    BY <1>1, <1>2, Times
  <2>3. worker[w].spent \in Nat /\ worker[w].spent <= SendTime /\ delivery[d].age \in Nat
    BY <1>1 DEF Loop, Row
  <2>4. Batch * SendTime <= lease
    BY <1>1, <2>2 DEF BatchFits
  <2> DEFINE ns == n * SendTime
             bs == Batch * SendTime
  <2> HIDE DEF ns, bs
  <2>5. delivery[d].age <= lease
    <3>1. /\ delivery[d].age + ns <= bs + worker[w].spent
          /\ ns \in Nat /\ ns >= SendTime /\ bs \in Nat /\ bs <= lease
      BY <2>1, <2>2, <2>4 DEF ns, bs
    <3> QED BY <1>1, <2>3, <3>1
  <2> QED BY <1>1, <1>4, <2>3, <2>5 DEF Due
<1> QED BY <1>3, <1>4 DEF Owned

(* A step of worker w that leaves the rows of the others alone. *)
LEMMA FitStep ==
    ASSUME Base, Fit, NEW w \in Worker,
           \A v \in Worker \ {w} : worker'[v] = worker[v],
           \A v \in Worker \ {w} : worker[v].pc \in AtWork =>
               \A d \in worker[v].batch : delivery'[d] = delivery[d],
           \A v \in Worker \ {w} : worker'[w].batch \cap worker[v].batch = {},
           Owned(w)', \A d \in Delivery : CountOK(d)'
    PROVE  Fit'
<1>1. \A v \in Worker \ {w} : Owned(v)'
  BY DEF Owned, Fit
<1>2. Exclusive'
  BY DEF Exclusive, Fit
<1> QED BY <1>1, <1>2 DEF Fit

(* Steps that leave the rows and the counts alone. *)
LEMMA QuietFit ==
    ASSUME Base, Fit, NEW w \in Worker,
           \A v \in Worker \ {w} : worker'[v] = worker[v],
           UNCHANGED <<delivery, answered>>,
           \A v \in Worker \ {w} : worker'[w].batch \cap worker[v].batch = {},
           Owned(w)'
    PROVE  Fit'
<1>1. \A d \in Delivery : CountOK(d)'
  BY DEF CountOK, Fit
<1> QED BY <1>1, FitStep

LEMMA ProduceFit ==
    ASSUME Base, Fit, Produce
    PROVE  Fit'
<1>1. ASSUME NEW w \in Worker PROVE Owned(w)'
  <2>1. worker[w].batch \subseteq Delivery /\ TookOK(w) /\ Owned(w)
    BY TypeParts DEF Base, Loop, Fit
  <2>2. worker' = worker
    BY ProducerRow
  <2>3. \A d \in worker[w].batch : delivery'[d] = delivery[d] \/ delivery'[d].status = "gone"
    <3>1. Gone.status = "gone"
      BY DEF Gone, Absent
    <3> QED BY <2>1, <3>1, ProducerRow DEF TookOK
  <2> QED BY <2>1, <2>2, <2>3 DEF Owned
<1>2. ASSUME NEW d \in Delivery PROVE CountOK(d)'
  <2>1. CountOK(d) /\ answered' = answered /\ answered[d] \in Nat /\ RowOK(d)
    BY ProducerRow, TypeParts, SizeAssumption DEF Base, Fit
  <2> QED BY <2>1, ProducerRow DEF CountOK, RowOK, Gone, Absent
<1>3. Exclusive'
  BY ProducerRow DEF Exclusive, Fit
<1> QED BY <1>1, <1>2, <1>3 DEF Fit

LEMMA TickFit ==
    ASSUME Base, Fit, Tick
    PROVE  Fit'
<1>1. ASSUME NEW w \in Worker, worker[w].pc \in AtWork, NEW d \in worker[w].batch,
             delivery[d].status # "gone"
      PROVE  /\ delivery'[d].status = "processing"
             /\ worker'[w].took[d] = delivery'[d].attempts
             /\ delivery'[d].age + Cardinality(worker'[w].batch) * SendTime
                   <= Batch * SendTime + worker'[w].spent
  <2> DEFINE n == Cardinality(worker[w].batch)
             ns == n * SendTime
             bs == Batch * SendTime
  <2>1. /\ worker[w] \in Loop /\ LoopOK(worker[w]) /\ Owned(w) /\ d \in Delivery
        /\ delivery[d] \in Row
    BY TypeParts DEF Base, Loop, Fit
  <2>2. n \in Nat /\ SendTime \in Nat /\ Batch \in Nat
    BY <1>1, <2>1, FS_CardinalityType, SizeAssumption DEF LoopOK
  <2>3. ns \in Nat /\ bs \in Nat
    BY <2>2, Times
  <2>4. /\ delivery[d].age \in Nat /\ worker[w].spent \in Nat
        /\ delivery'[d].age \in Nat
    BY <2>1, TickRow, TypeParts, SizeAssumption DEF Base, Row, Loop
  <2>5. /\ delivery'[d].age <= delivery[d].age + 1
        /\ worker'[w].spent = worker[w].spent + 1
        /\ worker'[w].batch = worker[w].batch /\ worker'[w].took = worker[w].took
        /\ delivery'[d].status = delivery[d].status
        /\ delivery'[d].attempts = delivery[d].attempts
    BY <1>1, <2>1, TickRow, TickWorker
  <2>6. /\ delivery[d].status = "processing" /\ worker[w].took[d] = delivery[d].attempts
        /\ delivery[d].age + ns <= bs + worker[w].spent
    BY <1>1, <2>1 DEF Owned
  <2>7. Cardinality(worker'[w].batch) * SendTime = ns
    BY <2>5
  <2> HIDE DEF ns
  <2>8. delivery'[d].age + ns <= bs + worker'[w].spent
    <3> HIDE DEF bs
    <3> QED BY <2>3, <2>4, <2>5, <2>6
  <2> QED BY <2>5, <2>6, <2>7, <2>8
<1>2. \A w \in Worker : Owned(w)'
  BY <1>1, TickWorker, TickRow, TypeParts DEF Owned, Base, Loop
<1>3. Exclusive'
  BY TickWorker DEF Exclusive, Fit
<1>4. \A d \in Delivery : CountOK(d)'
  BY TickRow DEF CountOK, Fit, Tick
<1> QED BY <1>2, <1>3, <1>4 DEF Fit
LEMMA ClaimSelectFit ==
    ASSUME Base, BatchFits, Fit, NEW w \in Worker, ClaimSelect(w)
    PROVE  Fit'
<1> USE DEF Base
<1>1. PICK S \in kSubset(Min({Batch, Cardinality(Claimable)}), Claimable) :
          Become(w, [Idle EXCEPT !.pc = "claim", !.batch = S,
                         !.took = [d \in Delivery |->
                             IF d \in S THEN delivery[d].attempts ELSE 0]])
  BY DEF ClaimSelect
<1>2. S \subseteq Claimable
  BY ClaimedBatch DEF ClaimSelect
<1>3. /\ \A v \in Worker \ {w} : worker'[v] = worker[v]
      /\ worker'[w].pc = "claim" /\ worker'[w].batch = S /\ worker'[w].cur = {}
  BY <1>1, TypeParts DEF Become, Idle
<1>4. UNCHANGED <<delivery, answered>>
  BY DEF ClaimSelect
<1>5. ASSUME NEW v \in Worker \ {w} PROVE S \cap worker[v].batch = {}
  <2>1. CASE worker[v].pc = "claim"
    BY <1>2, <2>1, LockedByClaim DEF Claimable
  <2>2. CASE worker[v].pc \in AtWork
    BY <1>2, <2>2, OwnedIsNotDue DEF Claimable, Fit
  <2>3. CASE worker[v].pc \notin {"claim"} \cup AtWork
    BY <2>3 DEF LoopOK
  <2> QED BY <2>1, <2>2, <2>3
<1>6. Owned(w)'
  BY <1>3 DEF Owned, AtWork
<1> QED BY <1>3, <1>4, <1>5, <1>6, QuietFit

LEMMA ClaimCommitFit ==
    ASSUME Base, Fit, NEW w \in Worker, ClaimCommit(w)
    PROVE  Fit'
<1> DEFINE n == Cardinality(worker[w].batch)
<1>1. /\ worker[w] \in Loop /\ LoopOK(worker[w]) /\ worker[w].pc = "claim" /\ ClaimOK(w)
      /\ worker \in [Worker -> Loop]
  BY TypeParts DEF ClaimCommit, Base
<1>2. /\ \A v \in Worker \ {w} : worker'[v] = worker[v]
      /\ worker'[w] = [worker[w] EXCEPT !.pc = "work"]
  BY <1>1 DEF ClaimCommit, Become
<1>3. /\ worker'[w].batch = worker[w].batch /\ worker'[w].took = worker[w].took
      /\ worker'[w].cur = worker[w].cur /\ worker'[w].spent = 0
  BY <1>1, <1>2 DEF Loop, LoopOK
<1>4. n * SendTime <= Batch * SendTime /\ n * SendTime \in Nat /\ Batch * SendTime \in Nat
  <2>1. n \in Nat /\ n <= Batch /\ Batch \in Nat /\ SendTime \in Nat
    BY <1>1, FS_CardinalityType, SizeAssumption DEF LoopOK
  <2> QED BY <2>1, Times
<1>5. Owned(w)'
  <2> SUFFICES ASSUME NEW d \in worker[w].batch
               PROVE  /\ delivery'[d].status = "processing"
                      /\ worker'[w].took[d] = delivery'[d].attempts
                      /\ delivery'[d].age + Cardinality(worker'[w].batch) * SendTime
                            <= Batch * SendTime + worker'[w].spent
    BY <1>3 DEF Owned
  <2>1. /\ delivery'[d].status = "processing" /\ delivery'[d].age = 0
        /\ delivery'[d].attempts = delivery[d].attempts
    BY <1>1, ClaimCommitRow DEF Loop
  <2>2. worker[w].took[d] = delivery[d].attempts
    BY <1>1 DEF ClaimOK
  <2>3. Cardinality(worker'[w].batch) * SendTime = n * SendTime
    BY <1>3
  <2>4. 0 + n * SendTime <= Batch * SendTime + 0
    BY <1>4
  <2> HIDE DEF n
  <2> QED BY <1>3, <2>1, <2>2, <2>3, <2>4
<1>6. ASSUME NEW d \in Delivery PROVE CountOK(d)'
  <2>2. /\ answered' = answered
        /\ delivery'[d].attempts = delivery[d].attempts
        /\ delivery[d].status \in {"absent", "gone"} => delivery'[d].status = delivery[d].status
    BY ClaimCommitRow
  <2> QED BY <2>2 DEF CountOK, Fit
<1>7. \A v \in Worker \ {w} : \A d \in worker[v].batch : delivery'[d] = delivery[d]
  BY <1>1, ClaimCommitRow DEF Fit, Exclusive, Loop
<1>8. \A v \in Worker \ {w} : worker'[w].batch \cap worker[v].batch = {}
  BY <1>3 DEF Fit, Exclusive
<1> QED BY <1>2, <1>5, <1>6, <1>7, <1>8, FitStep

LEMMA PostFit ==
    ASSUME Base, Fit, NEW w \in Worker, NEW d \in Delivery, Post(w, d)
    PROVE  Fit'
<1>1. worker[w] \in Loop /\ worker \in [Worker -> Loop] /\ worker[w].pc = "work"
  BY TypeParts DEF Post, Base
<1>2. /\ \A v \in Worker \ {w} : worker'[v] = worker[v]
      /\ worker'[w] = [worker[w] EXCEPT !.pc = "send", !.cur = {d}]
      /\ UNCHANGED <<delivery, answered>>
  BY <1>1 DEF Post, Become
<1>3. /\ worker'[w].batch = worker[w].batch /\ worker'[w].took = worker[w].took
      /\ worker'[w].spent = worker[w].spent
  BY <1>1, <1>2 DEF Loop
<1>4. Owned(w)'
  BY <1>1, <1>2, <1>3 DEF Owned, Fit, AtWork
<1>5. \A v \in Worker \ {w} : worker'[w].batch \cap worker[v].batch = {}
  BY <1>3 DEF Fit, Exclusive
<1> QED BY <1>2, <1>4, <1>5, QuietFit

(* A row that is written leaves the batch: the rest of it has SendTime     *)
(* less to take, and what was spent on the row is over.                    *)
LEMMA WriteFit ==
    ASSUME Base, Fit, NEW w \in Worker, NEW d \in worker[w].batch,
           worker[w].pc \in AtWork, worker[w].cur \subseteq {d},
           NEW row \in Row, row.attempts = worker[w].took[d] + 1, row.status # "gone",
           answered' \in [Delivery -> Nat], answered'[d] <= answered[d] + 1,
           \A c \in Delivery \ {d} : answered'[c] = answered[c],
           Write(d, row), Become(w, Rest(w, d))
    PROVE  Fit'
<1> DEFINE x == Rest(w, d)
           n == Cardinality(worker[w].batch)
<1>1. /\ worker[w] \in Loop /\ LoopOK(worker[w]) /\ Owned(w) /\ d \in Delivery
      /\ delivery \in [Delivery -> Row] /\ answered \in [Delivery -> 0..MaxCount]
  BY TypeParts, SizeAssumption DEF Base, Fit, Loop
<1>2. /\ x \in Loop /\ LoopOK(x) /\ x.batch = worker[w].batch \ {d}
      /\ x.cur = {} /\ x.spent = 0
      /\ \A c \in x.batch : x.took[c] = worker[w].took[c]
      /\ Cardinality(x.batch) = n - 1
  BY RestOK
<1> HIDE DEF x
<1>3. worker'[w] = x /\ \A v \in Worker \ {w} : worker'[v] = worker[v]
  BY <1>2, BecomeOK DEF x
<1>4. /\ \A c \in Delivery \ {d} : delivery'[c] = delivery[c]
      /\ delivery'[d] = IF delivery[d].status = "gone" THEN delivery[d] ELSE row
  BY WriteRow
<1>5. n \in Nat \ {0} /\ n * SendTime \in Nat /\ (n - 1) * SendTime = n * SendTime - SendTime
  <2>1. n \in Nat \ {0} /\ SendTime \in Nat
    BY <1>1, FS_CardinalityType, FS_EmptySet, SizeAssumption DEF LoopOK
  <2> HIDE DEF n
  <2> QED BY <2>1, Times
<1>6. ASSUME NEW c \in x.batch, delivery'[c].status # "gone"
      PROVE  /\ delivery'[c].status = "processing"
             /\ x.took[c] = delivery'[c].attempts
             /\ delivery'[c].age + Cardinality(x.batch) * SendTime
                   <= Batch * SendTime + x.spent
  <2>1. /\ c \in worker[w].batch /\ c \in Delivery /\ delivery'[c] = delivery[c]
        /\ x.took[c] = worker[w].took[c]
    BY <1>1, <1>2, <1>4 DEF Loop
  <2>2. /\ delivery[c].status = "processing" /\ worker[w].took[c] = delivery[c].attempts
        /\ delivery[c].age + n * SendTime <= Batch * SendTime + worker[w].spent
    BY <1>1, <1>6, <2>1 DEF Owned
  <2>3. /\ delivery[c].age \in Nat /\ worker[w].spent \in Nat /\ worker[w].spent <= SendTime
        /\ SendTime \in Nat /\ Batch \in Nat
    <3>1. lease \in Nat /\ delivery[c] \in Row
      BY <1>1, <2>1, TypeParts, SizeAssumption DEF Base
    <3>2. delivery[c].age \in Nat
      BY <3>1 DEF Row
    <3>3. worker[w].spent \in 0..SendTime
      BY <1>1 DEF Loop
    <3> QED BY <3>2, <3>3, SizeAssumption
  <2>4. Batch * SendTime \in Nat
    BY <2>3, Times
  <2> DEFINE ns == n * SendTime
             bs == Batch * SendTime
  <2>5. Cardinality(x.batch) * SendTime = ns - SendTime
    BY <1>2, <1>5
  <2>6. delivery[c].age + ns <= bs + worker[w].spent /\ ns \in Nat /\ bs \in Nat
    BY <1>5, <2>2, <2>4
  <2> HIDE DEF ns, bs, n
  <2>7. delivery[c].age + (ns - SendTime) <= bs + 0
    BY <2>3, <2>6
  <2> QED BY <1>2, <2>1, <2>2, <2>5, <2>7 DEF bs
<1>7. Owned(w)'
  BY <1>3, <1>6 DEF Owned
<1>8. ASSUME NEW c \in Delivery PROVE CountOK(c)'
  <2>2. CountOK(c) /\ answered[c] \in Nat /\ delivery[c].attempts \in Nat
    BY <1>1, SizeAssumption DEF Fit, Row
  <2>3. CASE c # d
    BY <1>1, <1>4, <2>2, <2>3 DEF CountOK
  <2>4. CASE c = d
    <3>1. CASE delivery[d].status = "gone"
      BY <1>4, <2>4, <3>1 DEF CountOK
    <3>2. CASE delivery[d].status # "gone"
      <4>1. /\ delivery[d].status = "processing"
            /\ row.attempts = delivery[d].attempts + 1
        BY <1>1, <3>2 DEF Owned
      <4>2. delivery'[c] = row
        BY <1>4, <2>4, <3>2
      <4> QED BY <1>1, <2>2, <2>4, <4>1, <4>2 DEF CountOK
    <3> QED BY <3>1, <3>2
  <2> QED BY <2>3, <2>4
<1>9. \A v \in Worker \ {w} : worker[v].pc \in AtWork =>
          \A c \in worker[v].batch : delivery'[c] = delivery[c]
  BY <1>4, TypeParts DEF Base, Loop, Fit, Exclusive
<1>10. \A v \in Worker \ {w} : worker'[w].batch \cap worker[v].batch = {}
  BY <1>2, <1>3 DEF Fit, Exclusive
<1> QED BY <1>3, <1>7, <1>8, <1>9, <1>10, FitStep

LEMMA AnswerFit ==
    ASSUME Base, Fit, NEW w \in Worker, NEW ok \in BOOLEAN, Answer(w, ok)
    PROVE  Fit'
<1>1. /\ worker[w] \in Loop /\ worker \in [Worker -> Loop]
      /\ worker[w].pc = "send"
  BY TypeParts, SizeAssumption DEF Answer, Base
<1>2. /\ \A v \in Worker \ {w} : worker'[v] = worker[v]
      /\ worker'[w] = [worker[w] EXCEPT !.pc = "record", !.ok = ok]
      /\ UNCHANGED <<delivery, answered>>
  BY <1>1 DEF Answer, Become
<1>3. /\ worker'[w].batch = worker[w].batch /\ worker'[w].took = worker[w].took
      /\ worker'[w].cur = worker[w].cur /\ worker'[w].spent = worker[w].spent
  BY <1>1, <1>2 DEF Loop
<1>4. Owned(w)'
  BY <1>1, <1>2, <1>3 DEF Owned, Fit, AtWork
<1>5. \A v \in Worker \ {w} : worker'[w].batch \cap worker[v].batch = {}
  BY <1>3 DEF Fit, Exclusive
<1> QED BY <1>1, <1>2, <1>3, <1>4, <1>5, QuietFit

(* A failure leaves the rows as they are. *)
LEMMA DisturbFit ==
    ASSUME Base, Fit, NEW w \in Worker, Disturb(w) \/ Restart(w)
    PROVE  Fit'
<1>1. PICK p \in {"idle", "dead", "down"} : \E x \in {[Idle EXCEPT !.pc = p], Idle} :
          Become(w, x)
  BY DEF Disturb, StatementFails, Crash, Panic, LoseBatch, Restart
<1>2. PICK x \in {[Idle EXCEPT !.pc = p], Idle} : Become(w, x)
  BY <1>1
<1>3. x.pc \notin AtWork /\ x.batch = {}
  BY <1>2 DEF Idle, AtWork
<1>4. worker'[w] = x /\ \A v \in Worker \ {w} : worker'[v] = worker[v]
  BY <1>2, TypeParts DEF Base, Become
<1>5. Owned(w)'
  BY <1>3, <1>4 DEF Owned
<1>6. UNCHANGED <<delivery, answered>>
  BY DEF Disturb, StatementFails, Crash, Panic, LoseBatch, Restart
<1> QED BY <1>3, <1>4, <1>5, <1>6, QuietFit

LEMMA InitFit == Init => Fit
<1> SUFFICES ASSUME Init PROVE Fit
  OBVIOUS
<1>1. \A w \in Worker : worker[w].pc = "idle" /\ worker[w].batch = {}
  BY DEF Init, Idle
<1>2. \A d \in Delivery : delivery[d].status = "absent"
  BY DEF Init, Absent
<1> QED BY <1>1, <1>2 DEF Fit, Owned, AtWork, Exclusive, CountOK

LEMMA NextFit == Base /\ BatchFits /\ Fit /\ [Next]_vars => Fit'
<1> SUFFICES ASSUME Base, BatchFits, Fit, [Next]_vars PROVE Fit'
  OBVIOUS
<1>1. ASSUME NEW w \in Worker, Work(w) PROVE Fit'
  <2>1. CASE Record(w)
    <3>1. PICK d \in worker[w].batch, row \in Row :
              /\ worker[w].pc \in AtWork /\ worker[w].cur = {d}
              /\ Become(w, Rest(w, d)) /\ Write(d, row)
              /\ row.attempts = worker[w].took[d] + 1 /\ row.status # "gone"
              /\ answered' \in [Delivery -> Nat] /\ answered'[d] <= answered[d] + 1
              /\ \A c \in Delivery \ {d} : answered'[c] = answered[c]
      BY <2>1, RecordRow
    <3> QED BY <3>1, WriteFit
  <2>2. ASSUME NEW d \in Delivery, Block(w, d) PROVE Fit'
    <3> DEFINE row == [Absent EXCEPT !.status = "failed",
                                     !.attempts = worker[w].took[d] + 1]
    <3>1. /\ LoopOK(worker[w]) /\ worker[w].pc = "work" /\ d \in worker[w].batch
          /\ worker[w].took[d] \in 0 .. MaxAttempts - 1
      BY <2>2, TypeParts DEF Base, Block, Loop
    <3>2. worker[w].cur \subseteq {d} /\ worker[w].pc \in AtWork
      BY <3>1 DEF LoopOK, AtWork
    <3>3. worker[w].took[d] + 1 \in 0 .. MaxAttempts
      BY <3>1, SizeAssumption
    <3>4. row \in Row /\ row.status = "failed" /\ row.attempts = worker[w].took[d] + 1
      BY <3>3, RowKinds DEF Base, Absent
    <3>5. Write(d, row) /\ Become(w, Rest(w, d)) /\ answered' = answered
      BY <2>2 DEF Block
    <3>6. answered \in [Delivery -> Nat] /\ d \in Delivery
      BY TypeParts, SizeAssumption DEF Base
    <3> HIDE DEF row
    <3> QED BY <3>1, <3>2, <3>4, <3>5, <3>6, WriteFit
  <2> QED BY <1>1, <2>1, <2>2, ClaimSelectFit, ClaimCommitFit, PostFit, AnswerFit DEF Work
<1>2. CASE UNCHANGED vars
  BY <1>2 DEF vars, system, Fit, Owned, Exclusive, CountOK
<1> QED BY <1>1, <1>2, ProduceFit, TickFit, DisturbFit DEF Next

(* Within its lease a batch is its worker's alone, its rows are as it took *)
(* them, and every answer is counted.                                      *)
THEOREM FitInductive == Spec => [](BatchFits => Fit)
<1>1. Init => (BatchFits => Fit)
  BY InitFit
<1>2. Base /\ (BatchFits => Fit) /\ [Next]_vars => (BatchFits => Fit)'
  <2>1. [Next]_vars => BatchFits' = BatchFits
    BY DEF Next, vars, BatchFits
  <2> QED BY <2>1, NextFit
<1> QED BY <1>1, <1>2, BaseInductive, PTL DEF Spec

(* Two workers never post the same delivery at once, if the lease covers a *)
(* whole batch.                                                            *)
THEOREM SentByOne == Spec => []NoDoubleSendWithinLease
<1>1. Base /\ (BatchFits => Fit) => NoDoubleSendWithinLease
  <2>1. Base => \A w \in Worker : Sending(w) \subseteq worker[w].batch
    BY DEF Base, LoopOK, Sending
  <2> QED BY <2>1 DEF NoDoubleSendWithinLease, NoDoubleSend, Fit, Exclusive
<1> QED BY <1>1, BaseInductive, FitInductive, PTL

(* No answer that was recorded goes uncounted. *)
THEOREM Counted == Spec => []AnswersAreCounted
<1>1. (BatchFits => Fit) => AnswersAreCounted
  BY DEF AnswersAreCounted, Fit, CountOK
<1> QED BY <1>1, FitInductive, PTL

(* A delivery that succeeded or failed stays so, and is not sent again. *)
THEOREM SettledStays == Spec => SettledIsFinal
<1> DEFINE Right(d) ==
        BatchFits /\ delivery[d].status \in {"success", "failed"} =>
            /\ delivery'[d].status \in {delivery[d].status, "gone"}
            /\ ~ \E w \in Worker : Post(w, d)
<1>1. ASSUME Base, BatchFits, Fit, Next, NEW d \in Delivery,
             delivery[d].status \in {"success", "failed"}
      PROVE  /\ delivery'[d].status \in {delivery[d].status, "gone"}
             /\ ~ \E w \in Worker : Post(w, d)
  <2>1. ASSUME NEW w \in Worker, worker[w].pc \in AtWork PROVE d \notin worker[w].batch
    BY <1>1, <2>1, OwnedIsNotDue DEF Fit
  <2>2. ~ \E w \in Worker : Post(w, d)
    BY <2>1 DEF Post, AtWork
  <2>3. CASE Produce
    <3>1. Gone.status = "gone"
      BY DEF Gone, Absent
    <3> QED BY <1>1, <2>2, <2>3, <3>1, ProducerRow
  <2>4. CASE Tick
    BY <1>1, <2>2, <2>4, TickRow
  <2>5. ASSUME NEW w \in Worker, Work(w) \/ Restart(w) \/ Disturb(w)
        PROVE  delivery'[d] = delivery[d]
    <3>1. CASE Record(w)
      <4>1. PICK e \in worker[w].batch, row \in Row :
              worker[w].pc \in AtWork /\ Write(e, row)
        BY <1>1, <3>1, RecordRow
      <4> QED BY <1>1, <2>1, <4>1, WriteRow
    <3>2. ASSUME NEW e \in Delivery, Block(w, e) PROVE delivery'[d] = delivery[d]
      <4>1. e # d
        BY <2>1, <3>2 DEF Block, AtWork
      <4> QED BY <3>2, <4>1 DEF Block, Write
    <3>3. CASE ClaimCommit(w)
      BY <1>1, <3>3, ClaimCommitRow
    <3> QED BY <2>5, <3>1, <3>2, <3>3
            DEF Work, Restart, Disturb, StatementFails, Crash, Panic, LoseBatch, ClaimSelect,
                Post, Answer
  <2> QED BY <1>1, <2>2, <2>3, <2>4, <2>5 DEF Next
<1>2. Base /\ (BatchFits => Fit) /\ [Next]_vars => [\A d \in Delivery : Right(d)]_vars
  BY <1>1
<1> QED BY <1>2, BaseInductive, FitInductive, PTL DEF Spec, SettledIsFinal
=============================================================================
