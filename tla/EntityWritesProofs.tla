------------------------- MODULE EntityWritesProofs -------------------------
(***************************************************************************)
(* Proofs about EntityWrites, for every set of entities and callers, and   *)
(* every number of changes and of faults; and, at the end, about the       *)
(* specification that the run checks, whose behaviours are those of the    *)
(* leads or of the other records.                                          *)
(***************************************************************************)
EXTENDS MCRecords, LeadConversionProofs, FiniteSetTheorems, SequenceTheorems, TLAPS

Version == 0 .. MaxChanges
Change == [action : Tracked \cup {"imported", "bulk"}, on : Entity, after : Version]
Entry == [action : Tracked, on : Entity, old : Version, new : Version]
Announcement == [action : Tracked, on : Entity, payload : Version]
Teller == [pc : {"idle", "write", "audit", "enqueue"}, action : Tracked,
            on : Entity \cup {NoEntity}, old : Version, change : Version]

Telling == {"audit", "enqueue"}

(* A change that leaves a row is named by its place; after one that leaves *)
(* none, nothing happens to its entity any more.                           *)
PastOK ==
    /\ \A i \in DOMAIN past :
          past[i].after = IF past[i].action \in {"deleted", "bulk"} THEN 0 ELSE i
    /\ \A i, j \in DOMAIN past :
          i < j /\ past[i].on = past[j].on => past[i].after # 0

RowOK(e) ==
    row[e] # 0 =>
        /\ row[e] \in HeldBefore(e, Len(past) + 1)
        /\ \A i \in DOMAIN past : past[i].on = e => past[i].after # 0

(* Handler h tells of a change that was committed, and knows what the row  *)
(* held before it.                                                         *)
Knows(h) ==
    /\ h.pc \in {"idle", "write"} => h.change = 0
    /\ h.pc = "write" =>
          /\ h.on \in Entity /\ h.action \in {"updated", "deleted"}
          /\ h.old \in HeldBefore(h.on, Len(past) + 1)
    /\ h.pc \in Telling =>
          /\ h.change \in DOMAIN past
          /\ h.action \in {"created", "updated", "deleted"}
          /\ h.action = past[h.change].action /\ h.on = past[h.change].on
          /\ h.old \in IF h.action = "created" THEN {0} ELSE HeldBefore(h.on, h.change)

(* It has not told of it yet, unless it has passed the entry. *)
Untold(h) ==
    /\ h.pc = "audit" => \A n \in DOMAIN audit : ~TellsOf(audit[n], h.change)
    /\ h.pc \in Telling => \A n \in DOMAIN raised : ~RaisedBy(raised[n], h.change)
    /\ h.pc = "enqueue" /\ h.change \notin hit =>
          \E n \in DOMAIN audit : TellsOf(audit[n], h.change)

Distinct ==
    \A c, d \in Caller :
        c # d /\ handler[c].pc \in Telling /\ handler[d].pc \in Telling =>
            handler[c].change # handler[d].change

EntityInv ==
    /\ EntityTypeOK
    /\ PastOK
    /\ \A e \in Entity : RowOK(e)
    /\ \A c \in Caller : Knows(handler[c]) /\ Untold(handler[c])
    /\ Distinct
    /\ LogTellsWhatHappened

-----------------------------------------------------------------------------
(* The history of the changes. *)

LEMMA EntityTypes ==
    EntityTypeOK <=> /\ table \in [Entity -> Table] /\ accepts \in BOOLEAN /\ row \in [Entity -> Version]
                     /\ past \in Seq(Change) /\ audit \in Seq(Entry)
                     /\ raised \in Seq(Announcement)
                     /\ handler \in [Caller -> Teller]
                     /\ answered \cup hit \subseteq DOMAIN past
                     /\ faults \in 0 .. MaxFaults
BY DEF EntityTypeOK, Version, Change, Entry, Announcement, Teller

LEMMA Places ==
    ASSUME EntityTypeOK
    PROVE  /\ Len(past) \in Nat /\ DOMAIN past = 1 .. Len(past)
           /\ \A i \in DOMAIN past : past[i] \in Change
           /\ Len(audit) \in Nat /\ DOMAIN audit = 1 .. Len(audit)
           /\ \A n \in DOMAIN audit : audit[n] \in Entry
           /\ Len(raised) \in Nat /\ DOMAIN raised = 1 .. Len(raised)
           /\ \A n \in DOMAIN raised : raised[n] \in Announcement
<1>1. past \in Seq(Change) /\ audit \in Seq(Entry) /\ raised \in Seq(Announcement)
  BY EntityTypes
<1> QED BY <1>1, LenProperties

LEMMA Held ==
    ASSUME NEW e, NEW i, NEW v
    PROVE  v \in HeldBefore(e, i) <=>
               v # 0 /\ \E j \in 1 .. i - 1 : past[j].on = e /\ past[j].after = v
BY DEF HeldBefore

(* No two changes of an entity leave it alike. *)
LEMMA OneChange ==
    ASSUME EntityTypeOK, PastOK, NEW i \in DOMAIN past, NEW j \in DOMAIN past,
           past[i].on = past[j].on, past[i].after = past[j].after
    PROVE  i = j
<1>1. i \in Nat /\ j \in Nat
  BY Places
<1>2. CASE past[i].after # 0
  BY <1>2 DEF PastOK
<1>3. CASE past[i].after = 0
  <2>1. ~(i < j)
    BY <1>3 DEF PastOK
  <2>2. ~(j < i)
    BY <1>3 DEF PastOK
  <2> QED BY <1>1, <2>1, <2>2
<1> QED BY <1>2, <1>3

(* So an entry or an event tells of one change only. *)
LEMMA TellsOfOne ==
    ASSUME EntityTypeOK, PastOK, NEW i \in DOMAIN past, NEW j \in DOMAIN past
    PROVE  /\ \A a : TellsOf(a, i) /\ TellsOf(a, j) => i = j
           /\ \A v : RaisedBy(v, i) /\ RaisedBy(v, j) => i = j
<1>1. ASSUME NEW a, TellsOf(a, i), TellsOf(a, j) PROVE i = j
  BY <1>1, OneChange DEF TellsOf
<1>2. ASSUME NEW v, RaisedBy(v, i), RaisedBy(v, j) PROVE i = j
  <2>1. past[i].on = past[j].on /\ past[i].action = past[j].action
    BY <1>2 DEF RaisedBy
  <2>2. CASE v.action = "deleted"
    <3>1. past[i].action = "deleted" /\ past[j].action = "deleted"
      BY <1>2, <2>2 DEF RaisedBy
    <3>2. past[i].after = 0 /\ past[j].after = 0
      BY <3>1 DEF PastOK
    <3> QED BY <2>1, <3>2, OneChange
  <2>3. CASE v.action # "deleted"
    BY <1>2, <2>1, <2>3, OneChange DEF RaisedBy
  <2> QED BY <2>2, <2>3
<1> QED BY <1>1, <1>2

(* The row exists, or never did: no change so far has ended it. *)
Open(e) == \A i \in DOMAIN past : past[i].on = e => past[i].after # 0

LEMMA OpenRows ==
    ASSUME EntityInv, NEW e \in Entity, row[e] # 0 \/ Unborn(e)
    PROVE  Open(e)
BY DEF EntityInv, RowOK, Open, Unborn

-----------------------------------------------------------------------------
(* What grows: the history, and nothing that was told of it changes. *)
PastGrows ==
    /\ table' = table /\ accepts' = accepts /\ Len(past) <= Len(past')
    /\ \A i \in DOMAIN past : past'[i] = past[i]

LEMMA HeldGrows ==
    ASSUME EntityTypeOK, past' \in Seq(Change), PastGrows
    PROVE  /\ \A e : \A i \in 1 .. Len(past) + 1 : HeldBefore(e, i)' = HeldBefore(e, i)
           /\ \A e, v : v \in HeldBefore(e, Len(past) + 1) =>
                            v \in HeldBefore(e, Len(past) + 1)'
           /\ DOMAIN past \subseteq DOMAIN past'
<1>1. /\ Len(past) \in Nat /\ DOMAIN past = 1 .. Len(past)
      /\ Len(past') \in Nat /\ DOMAIN past' = 1 .. Len(past')
  BY Places, LenProperties
<1>2. ASSUME NEW e, NEW i \in 1 .. Len(past) + 1
      PROVE  HeldBefore(e, i)' = HeldBefore(e, i)
  <2>1. \A j \in 1 .. i - 1 : past'[j] = past[j]
    BY <1>1 DEF PastGrows
  <2> QED BY <2>1 DEF HeldBefore
<1>3. ASSUME NEW e, NEW v, v \in HeldBefore(e, Len(past) + 1)
      PROVE  v \in HeldBefore(e, Len(past) + 1)'
  <2>1. PICK j \in 1 .. Len(past) : past[j].on = e /\ past[j].after = v
    BY <1>1, <1>3, Held
  <2>2. v # 0 /\ j \in 1 .. Len(past') /\ past'[j] = past[j]
    BY <1>1, <1>3, Held DEF PastGrows
  <2>3. j \in 1 .. (Len(past') + 1) - 1
    BY <1>1, <2>2
  <2> QED BY <2>1, <2>2, <2>3 DEF HeldBefore
<1>4. DOMAIN past \subseteq DOMAIN past'
  BY <1>1 DEF PastGrows
<1> QED BY <1>2, <1>3, <1>4

LEMMA TellsGrows ==
    ASSUME EntityTypeOK, past' \in Seq(Change), PastGrows, NEW i \in DOMAIN past
    PROVE  /\ \A a : TellsOf(a, i)' <=> TellsOf(a, i)
           /\ \A v : RaisedBy(v, i)' <=> RaisedBy(v, i)
<1>1. i \in 1 .. Len(past) + 1
  BY Places
<1>2. \A e : HeldBefore(e, i)' = HeldBefore(e, i)
  BY <1>1, HeldGrows
<1>3. past'[i] = past[i]
  BY DEF PastGrows
<1> QED BY <1>2, <1>3 DEF TellsOf, RaisedBy

LEMMA KnowsGrows ==
    ASSUME EntityTypeOK, past' \in Seq(Change), PastGrows, NEW c \in Caller,
           Knows(handler[c]), handler'[c] = handler[c]
    PROVE  Knows(handler[c])'
<1>1. PICK h : h = handler[c]
  OBVIOUS
<1>2. h.change \in DOMAIN past =>
          /\ h.change \in DOMAIN past' /\ past'[h.change] = past[h.change]
          /\ HeldBefore(h.on, h.change)' = HeldBefore(h.on, h.change)
  <2>1. h.change \in DOMAIN past => h.change \in 1 .. Len(past) + 1
    BY Places
  <2> QED BY <2>1, HeldGrows DEF PastGrows
<1>3. h.old \in HeldBefore(h.on, Len(past) + 1) => h.old \in HeldBefore(h.on, Len(past) + 1)'
  BY HeldGrows
<1>4. Knows(h)'
  BY <1>1, <1>2, <1>3 DEF Knows
<1> QED BY <1>1, <1>4 DEF Knows

(* The step of one handler leaves what the others have not told. *)
LEMMA UntoldGrows ==
    ASSUME EntityTypeOK, past' \in Seq(Change), PastGrows, NEW c \in Caller,
           Knows(handler[c]), Untold(handler[c]), handler'[c] = handler[c],
           audit' = audit, raised' = raised, hit \subseteq hit'
    PROVE  Untold(handler[c])'
<1>1. PICK h : h = handler[c]
  OBVIOUS
<1>2. h.pc \in Telling => h.change \in DOMAIN past
  BY <1>1 DEF Knows
<1>3. h.change \in DOMAIN past =>
          /\ \A a : TellsOf(a, h.change)' <=> TellsOf(a, h.change)
          /\ \A v : RaisedBy(v, h.change)' <=> RaisedBy(v, h.change)
  BY TellsGrows
<1>4. Untold(h)'
  BY <1>1, <1>2, <1>3 DEF Untold, Telling
<1> QED BY <1>1, <1>4 DEF Untold

LEMMA LogGrows ==
    ASSUME EntityTypeOK, past' \in Seq(Change), PastGrows, LogTellsWhatHappened,
           audit' = audit, raised' = raised, answered' \subseteq answered \cup hit',
           hit \subseteq hit'
    PROVE  LogTellsWhatHappened'
<1>1. \A i \in DOMAIN past :
          /\ i \in DOMAIN past' /\ past'[i] = past[i]
          /\ \A a : TellsOf(a, i)' <=> TellsOf(a, i)
          /\ \A v : RaisedBy(v, i)' <=> RaisedBy(v, i)
  BY TellsGrows, HeldGrows DEF PastGrows
<1>2. answered \subseteq DOMAIN past
  BY EntityTypes
<1>3. IsInjective(audit)' /\ IsInjective(raised)'
  BY DEF LogTellsWhatHappened, IsInjective
<1>4. \A n \in DOMAIN audit : \E i \in DOMAIN past' : TellsOf(audit[n], i)'
  BY <1>1 DEF LogTellsWhatHappened
<1>5. \A n \in DOMAIN raised : \E i \in DOMAIN past' : RaisedBy(raised[n], i)'
  BY <1>1 DEF LogTellsWhatHappened
<1>6. ASSUME NEW i \in answered' \ hit'
      PROVE  /\ \E n \in DOMAIN audit : TellsOf(audit[n], i)'
             /\ accepts' /\ table'[past'[i].on] \in {"contact", "deal"} =>
                    \E n \in DOMAIN raised : RaisedBy(raised[n], i)'
  <2>1. i \in answered \ hit /\ i \in DOMAIN past
    BY <1>2
  <2> QED BY <1>1, <2>1 DEF LogTellsWhatHappened, PastGrows
<1> QED BY <1>3, <1>4, <1>5, <1>6 DEF LogTellsWhatHappened

-----------------------------------------------------------------------------
(* The writes. *)

LEMMA CommitOK ==
    ASSUME EntityInv, NEW action \in Tracked \cup {"imported"}, NEW e \in Entity,
           Open(e), Commit(action, e)
    PROVE  LET n == Len(past) + 1
           IN  /\ row' \in [Entity -> Version] /\ past' \in Seq(Change)
               /\ n \in DOMAIN past' /\ n \notin DOMAIN past /\ n \in Version
               /\ past'[n] = [action |-> action, on |-> e,
                              after |-> IF action = "deleted" THEN 0 ELSE n]
               /\ PastGrows /\ PastOK' /\ \A d \in Entity : RowOK(d)'
<1> DEFINE n == Len(past) + 1
           after == IF action = "deleted" THEN 0 ELSE n
           x == [action |-> action, on |-> e, after |-> after]
<1>1. /\ EntityTypeOK /\ PastOK /\ Len(past) \in Nat /\ DOMAIN past = 1 .. Len(past)
      /\ row \in [Entity -> Version] /\ past \in Seq(Change)
  BY Places, EntityTypes DEF EntityInv
<1>2. /\ n <= MaxChanges /\ row' = [row EXCEPT ![e] = after]
      /\ past' = Append(past, x) /\ table' = table /\ accepts' = accepts
  BY DEF Commit, schema
<1>3. n \in Version /\ after \in Version
  BY <1>1, <1>2, EntityAssumption DEF Version
<1>4. x \in Change
  <2> HIDE DEF after
  <2> QED BY <1>3 DEF Change
<1> HIDE DEF x
<1>5. /\ past' \in Seq(Change) /\ Len(past') = n /\ past'[n] = x
      /\ \A i \in 1 .. Len(past) : past'[i] = past[i]
      /\ DOMAIN past' = 1 .. n
  BY <1>1, <1>2, <1>4, AppendProperties, LenProperties
<1>6. n \in DOMAIN past' /\ n \notin DOMAIN past
  BY <1>1, <1>5
<1>7. PastGrows
  BY <1>1, <1>2, <1>5 DEF PastGrows
<1>8. row' \in [Entity -> Version]
  BY <1>1, <1>2, <1>3
<1>9. \A i \in DOMAIN past' : i \in DOMAIN past \/ i = n
  BY <1>1, <1>5
<1>10. x.action = action /\ x.on = e /\ x.after = after
  BY DEF x
<1>11. PastOK'
  <2>1. ASSUME NEW i \in DOMAIN past'
        PROVE  past'[i].after = IF past'[i].action \in {"deleted", "bulk"} THEN 0 ELSE i
    <3>1. CASE i \in DOMAIN past
      BY <1>1, <1>5, <3>1 DEF PastOK
    <3>2. CASE i = n
      BY <1>5, <1>10, <3>2 DEF Tracked
    <3> QED BY <1>9, <3>1, <3>2
  <2>2. ASSUME NEW i \in DOMAIN past', NEW j \in DOMAIN past', i < j,
               past'[i].on = past'[j].on
        PROVE  past'[i].after # 0
    <3>1. i \in DOMAIN past /\ past'[i] = past[i]
      BY <1>1, <1>5, <2>2
    <3>2. CASE j \in DOMAIN past
      BY <1>1, <1>5, <2>2, <3>1, <3>2 DEF PastOK
    <3>3. CASE j = n
      BY <1>5, <1>10, <2>2, <3>1, <3>3 DEF Open
    <3> QED BY <1>9, <3>2, <3>3
  <2> QED BY <2>1, <2>2 DEF PastOK
<1>12. ASSUME NEW d \in Entity PROVE RowOK(d)'
  <2>1. CASE d = e
    <3>1. row'[d] = after
      BY <1>1, <1>2, <2>1
    <3>2. row'[d] # 0 => after = n /\ n # 0
      BY <3>1
    <3>3. n \in 1 .. (Len(past') + 1) - 1
      BY <1>1, <1>5
    <3>4. row'[d] # 0 => row'[d] \in HeldBefore(d, Len(past) + 1)'
      BY <1>5, <1>10, <2>1, <3>1, <3>2, <3>3 DEF HeldBefore
    <3>5. \A i \in DOMAIN past' : row'[d] # 0 /\ past'[i].on = d => past'[i].after # 0
      BY <1>1, <1>5, <1>9, <1>10, <2>1, <3>1 DEF Open
    <3> QED BY <3>4, <3>5 DEF RowOK
  <2>2. CASE d # e
    <3>1. row'[d] = row[d] /\ RowOK(d)
      BY <1>1, <1>2, <2>2 DEF EntityInv
    <3>2. row[d] \in HeldBefore(d, Len(past) + 1) => row[d] \in HeldBefore(d, Len(past) + 1)'
      BY <1>1, <1>5, <1>7, HeldGrows
    <3>3. \A i \in DOMAIN past' : past'[i].on = d => i \in DOMAIN past /\ past'[i] = past[i]
      BY <1>1, <1>5, <1>9, <1>10, <2>2
    <3> QED BY <3>1, <3>2, <3>3 DEF RowOK
  <2> QED BY <2>1, <2>2
<1> QED BY <1>3, <1>5, <1>6, <1>7, <1>8, <1>10, <1>11, <1>12 DEF x

(* The rows of a bulk deletion, all of which exist. *)
LEMMA BulkOK ==
    ASSUME EntityInv, NEW gone \in SetToAllKPermutations(Entity), BulkDelete(gone)
    PROVE  /\ row' \in [Entity -> Version] /\ past' \in Seq(Change)
           /\ PastGrows /\ PastOK' /\ \A d \in Entity : RowOK(d)'
<1> DEFINE k == Len(past)
           more == [i \in DOMAIN gone |-> [action |-> "bulk", on |-> gone[i], after |-> 0]]
<1>1. /\ EntityTypeOK /\ PastOK /\ k \in Nat /\ DOMAIN past = 1 .. k
      /\ row \in [Entity -> Version] /\ past \in Seq(Change)
  BY Places, EntityTypes DEF EntityInv
<1>2. PICK m \in Nat : /\ gone \in [1 .. m -> Entity]
                       /\ \A i, j \in 1 .. m : i # j => gone[i] # gone[j]
  <2>1. PICK s \in SUBSET Entity : gone \in SetToSeqs(s)
    BY DEF SetToAllKPermutations
  <2>2. Cardinality(s) \in Nat
    BY EntityAssumption, FS_Subset, FS_CardinalityType
  <2>3. /\ gone \in [1 .. Cardinality(s) -> s]
        /\ \A i, j \in 1 .. Cardinality(s) : i # j => gone[i] # gone[j]
    BY <2>1 DEF SetToSeqs
  <2> QED BY <2>2, <2>3
<1>3. gone \in Seq(Entity) /\ Len(gone) = m /\ DOMAIN gone = 1 .. m
  BY <1>2, SeqDef, LenProperties
<1>4. /\ \A i \in 1 .. m : row[gone[i]] # 0
      /\ row' = [e \in Entity |-> IF Contains(gone, e) THEN 0 ELSE row[e]]
      /\ past' = past \o more /\ table' = table /\ accepts' = accepts
  BY <1>3 DEF BulkDelete, schema
<1>5. 0 \in Version
  BY EntityAssumption DEF Version
<1>6. /\ more \in [1 .. m -> Change]
      /\ \A i \in 1 .. m : /\ more[i].action = "bulk" /\ more[i].on = gone[i]
                           /\ more[i].after = 0
  BY <1>2, <1>3, <1>5 DEF Change
<1> HIDE DEF more
<1>7. more \in Seq(Change) /\ Len(more) = m
  BY <1>6, SeqDef, LenProperties
<1>8. /\ past' \in Seq(Change) /\ Len(past') = k + m /\ DOMAIN past' = 1 .. k + m
      /\ \A i \in 1 .. k + m : past'[i] = IF i <= k THEN past[i] ELSE more[i - k]
  <2>1. /\ past' \in Seq(Change) /\ Len(past') = Len(past) + Len(more)
        /\ \A i \in 1 .. Len(past) + Len(more) :
              past'[i] = IF i <= Len(past) THEN past[i] ELSE more[i - Len(past)]
    BY <1>1, <1>4, <1>7, ConcatProperties
  <2>2. DOMAIN past' = 1 .. Len(past')
    BY <2>1, LenProperties
  <2> QED BY <1>7, <2>1, <2>2
<1>9. \A i \in DOMAIN past' :
          \/ i \in DOMAIN past /\ past'[i] = past[i]
          \/ /\ i - k \in 1 .. m /\ past'[i].action = "bulk"
             /\ past'[i].on = gone[i - k] /\ past'[i].after = 0
  <2> SUFFICES ASSUME NEW i \in 1 .. k + m, ~(i <= k)
               PROVE  /\ i - k \in 1 .. m /\ past'[i].action = "bulk"
                      /\ past'[i].on = gone[i - k] /\ past'[i].after = 0
    BY <1>1, <1>8
  <2>1. i - k \in 1 .. m
    BY <1>1
  <2> QED BY <1>6, <1>8, <2>1
<1>10. PastGrows
  BY <1>1, <1>4, <1>8 DEF PastGrows
<1>11. \A i \in 1 .. m : Open(gone[i])
  BY <1>2, <1>4, OpenRows
<1>12. PastOK'
  <2>1. ASSUME NEW i \in DOMAIN past'
        PROVE  past'[i].after = IF past'[i].action \in {"deleted", "bulk"} THEN 0 ELSE i
    BY <1>1, <1>9 DEF PastOK
  <2>2. ASSUME NEW i \in DOMAIN past', NEW j \in DOMAIN past', i < j,
               past'[i].on = past'[j].on
        PROVE  past'[i].after # 0
    <3>0. i \in Nat /\ j \in Nat
      BY <1>8
    <3>1. CASE i \in DOMAIN past /\ j \in DOMAIN past
      <4>1. past'[i] = past[i] /\ past'[j] = past[j]
        BY <1>1, <1>8, <3>1
      <4> QED BY <1>1, <2>2, <3>1, <4>1 DEF PastOK
    <3>2. CASE i \in DOMAIN past /\ j \notin DOMAIN past
      <4>1. past'[i] = past[i]
        BY <1>1, <1>8, <3>2
      <4> QED BY <1>9, <1>11, <2>2, <3>2, <4>1 DEF Open
    <3>3. CASE i \notin DOMAIN past
      <4>1. j \notin DOMAIN past
        BY <1>1, <1>8, <2>2, <3>3
      <4>2. /\ i - k \in 1 .. m /\ j - k \in 1 .. m /\ gone[i - k] = gone[j - k]
        BY <1>9, <2>2, <3>3, <4>1
      <4>3. i - k # j - k
        BY <1>1, <2>2, <3>0
      <4> QED BY <1>2, <4>2, <4>3
    <3> QED BY <3>1, <3>2, <3>3
  <2> QED BY <2>1, <2>2 DEF PastOK
<1>13. row' \in [Entity -> Version]
  BY <1>1, <1>4, <1>5
<1>14. ASSUME NEW d \in Entity, row'[d] # 0 PROVE RowOK(d)'
  <2>1. row'[d] = row[d] /\ ~Contains(gone, d) /\ RowOK(d)
    BY <1>4, <1>14 DEF EntityInv
  <2>2. \A i \in 1 .. m : gone[i] # d
    BY <1>3, <2>1 DEF Contains
  <2>3. row[d] \in HeldBefore(d, Len(past) + 1)'
    BY <1>1, <1>8, <1>10, <1>14, <2>1, HeldGrows DEF RowOK
  <2>4. \A i \in DOMAIN past' : past'[i].on = d => past'[i].after # 0
    BY <1>9, <1>14, <2>1, <2>2 DEF RowOK
  <2> QED BY <2>1, <2>3, <2>4 DEF RowOK
<1>15. \A d \in Entity : RowOK(d)'
  BY <1>14 DEF RowOK
<1> QED BY <1>8, <1>10, <1>12, <1>13, <1>15

-----------------------------------------------------------------------------
(* A step of handler c, which goes on as x. *)
LEMMA HandlerStep ==
    ASSUME EntityInv, NEW c \in Caller, NEW x \in Teller, Continue(c, x),
           row' \in [Entity -> Version], past' \in Seq(Change),
           audit' \in Seq(Entry), raised' \in Seq(Announcement),
           answered' \cup hit' \subseteq DOMAIN past', faults' \in 0 .. MaxFaults,
           PastGrows, PastOK', \A e \in Entity : RowOK(e)', LogTellsWhatHappened',
           Knows(x)', Untold(x)',
           \A d \in Caller \ {c} : handler'[d] = handler[d] => Untold(handler[d])',
           \A d \in Caller \ {c} : x.pc \in Telling /\ handler[d].pc \in Telling =>
               handler[d].change # x.change
    PROVE  EntityInv'
<1>1. handler' \in [Caller -> Teller] /\ handler'[c] = x
  BY EntityTypes DEF EntityInv, Continue
<1>2. \A d \in Caller \ {c} : handler'[d] = handler[d]
  BY EntityTypes DEF EntityInv, Continue
<1>3. EntityTypeOK'
  <2>1. table' \in [Entity -> Table] /\ accepts' \in BOOLEAN
    BY EntityTypes DEF EntityInv, PastGrows
  <2> QED BY <1>1, <2>1
          DEF EntityTypeOK, Version, Change, Entry, Announcement, Teller
<1>4. ASSUME NEW d \in Caller PROVE Knows(handler[d])' /\ Untold(handler[d])'
  <2>1. CASE d = c
    BY <1>1, <2>1 DEF Knows, Untold
  <2>2. CASE d # c
    <3>1. Knows(handler[d])'
      BY <1>2, <2>2, KnowsGrows DEF EntityInv
    <3> QED BY <1>2, <2>2, <3>1
  <2> QED BY <2>1, <2>2
<1>5. Distinct'
  BY <1>1, <1>2 DEF Distinct, EntityInv
<1> QED BY <1>3, <1>4, <1>5 DEF EntityInv

(* What no change disturbs. *)
LEMMA Still ==
    ASSUME EntityInv, UNCHANGED tables
    PROVE  /\ row' \in [Entity -> Version] /\ past' \in Seq(Change) /\ PastGrows /\ PastOK'
           /\ \A e \in Entity : RowOK(e)'
           /\ \A a, i : TellsOf(a, i)' <=> TellsOf(a, i)
           /\ \A v, i : RaisedBy(v, i)' <=> RaisedBy(v, i)
<1> USE DEF tables, schema
<1>1. row' \in [Entity -> Version] /\ past' \in Seq(Change) /\ Len(past) \in Nat
  BY EntityTypes, Places DEF EntityInv
<1>2. PastGrows
  BY <1>1 DEF PastGrows
<1>3. PastOK' /\ \A e \in Entity : RowOK(e)'
  BY DEF EntityInv, PastOK, RowOK, HeldBefore
<1> QED BY <1>1, <1>2, <1>3 DEF TellsOf, RaisedBy, HeldBefore

LEMMA FreeOK ==
    /\ Free \in Teller /\ Free.pc = "idle"
    /\ Knows(Free) /\ Untold(Free) /\ Knows(Free)' /\ Untold(Free)'
<1>1. 0 \in Version
  BY EntityAssumption DEF Version
<1> QED BY <1>1 DEF Free, Teller, Tracked, Knows, Untold, Telling

(* Nothing was told yet of the change that is committed now. *)
LEMMA NotToldYet ==
    ASSUME EntityInv, NEW e \in Entity, Open(e), NEW n, NEW after,
           past' \in Seq(Change), PastGrows, n \in DOMAIN past', n \notin DOMAIN past,
           past'[n].on = e, past'[n].after \in {0, n}, audit' = audit, raised' = raised
    PROVE  /\ \A m \in DOMAIN audit : ~TellsOf(audit[m], n)'
           /\ \A m \in DOMAIN raised : ~RaisedBy(raised[m], n)'
<1>1. ASSUME NEW a, NEW i \in DOMAIN past, TellsOf(a, i), TellsOf(a, n)' PROVE FALSE
  <2>1. past'[i].on = e /\ past'[i].after = past'[n].after /\ past'[i] = past[i]
    BY <1>1, TellsGrows DEF TellsOf, EntityInv, PastGrows
  <2>2. past[i].after # 0
    BY <2>1 DEF Open
  <2>3. past[i].after = i
    BY <2>2 DEF EntityInv, PastOK
  <2> QED BY <2>1, <2>2, <2>3
<1>2. ASSUME NEW v, NEW i \in DOMAIN past, RaisedBy(v, i), RaisedBy(v, n)' PROVE FALSE
  <2>1. past[i].on = e
    BY <1>2 DEF RaisedBy
  <2>2. past[i].after # 0
    BY <2>1 DEF Open
  <2>3. past[i].after = i /\ past[i].action # "deleted"
    BY <2>2 DEF EntityInv, PastOK
  <2>4. v.payload = past[i].after /\ v.payload = past'[n].after
    BY <1>2, <2>3 DEF RaisedBy
  <2> QED BY <2>2, <2>3, <2>4
<1>3. /\ \A m \in DOMAIN audit : \E i \in DOMAIN past : TellsOf(audit[m], i)
      /\ \A m \in DOMAIN raised : \E i \in DOMAIN past : RaisedBy(raised[m], i)
  BY DEF EntityInv, LogTellsWhatHappened
<1>4. ASSUME NEW m \in DOMAIN audit PROVE ~TellsOf(audit[m], n)'
  <2>1. PICK a : a = audit[m] /\ a = audit'[m]
    OBVIOUS
  <2>2. ~TellsOf(a, n)'
    BY <1>1, <1>3, <2>1
  <2> QED BY <2>1, <2>2 DEF TellsOf
<1>5. ASSUME NEW m \in DOMAIN raised PROVE ~RaisedBy(raised[m], n)'
  <2>1. PICK v : v = raised[m] /\ v = raised'[m]
    OBVIOUS
  <2>2. ~RaisedBy(v, n)'
    BY <1>2, <1>3, <2>1
  <2> QED BY <2>1, <2>2 DEF RaisedBy
<1> QED BY <1>4, <1>5

(* A write that has committed: its handler goes on, if it got the row back. *)
LEMMA WrittenOK ==
    ASSUME EntityInv, NEW c \in Caller, NEW action \in Tracked, NEW e \in Entity,
           NEW old \in Version, Open(e), Commit(action, e), Written(c, action, e, old),
           UNCHANGED <<told, hit, faults>>,
           ~Unreadable(action, e) =>
               /\ action \in {"created", "updated", "deleted"}
               /\ old \in IF action = "created" THEN {0} ELSE HeldBefore(e, Len(past) + 1)
    PROVE  EntityInv'
<1> USE DEF told
<1>0. PICK n : n = Len(past) + 1
  OBVIOUS
<1>1. /\ row' \in [Entity -> Version] /\ past' \in Seq(Change)
      /\ n \in DOMAIN past' /\ n \notin DOMAIN past /\ n \in Version
      /\ past'[n] = [action |-> action, on |-> e,
                     after |-> IF action = "deleted" THEN 0 ELSE n]
      /\ PastGrows /\ PastOK' /\ \A d \in Entity : RowOK(d)'
  BY <1>0, CommitOK
<1>2. /\ EntityTypeOK /\ audit \in Seq(Entry) /\ raised \in Seq(Announcement)
      /\ answered \cup hit \subseteq DOMAIN past /\ faults \in 0 .. MaxFaults
  BY EntityTypes DEF EntityInv
<1>3. answered' \cup hit' \subseteq DOMAIN past'
  BY <1>1, <1>2, HeldGrows
<1>4. LogTellsWhatHappened'
  BY <1>1, <1>2, LogGrows DEF EntityInv
<1>5. \A d \in Caller \ {c} : handler'[d] = handler[d] => Untold(handler[d])'
  BY <1>1, <1>2, UntoldGrows DEF EntityInv
<1>6. CASE Unreadable(action, e)
  <2>1. Continue(c, Free)
    BY <1>6 DEF Written, End
  <2> QED BY <1>1, <1>2, <1>3, <1>4, <1>5, <2>1, FreeOK, HandlerStep DEF Telling
<1>7. CASE ~Unreadable(action, e)
  <2>1. PICK x : x = [pc |-> "audit", action |-> action, on |-> e, old |-> old, change |-> n]
    OBVIOUS
  <2>2. Continue(c, x)
    BY <1>0, <1>7, <2>1 DEF Written
  <2>3. x \in Teller
    BY <1>1, <2>1 DEF Teller
  <2>4. Knows(x)'
    <3>1. n \in 1 .. Len(past) + 1
      BY <1>0, <1>2, Places
    <3>2. old \in HeldBefore(e, Len(past) + 1) => old \in HeldBefore(e, n)'
      BY <1>0, <1>1, <1>2, <3>1, HeldGrows
    <3> QED BY <1>1, <1>7, <2>1, <3>2 DEF Knows, Telling
  <2>5. Untold(x)'
    <3>1. past'[n].on = e /\ past'[n].after \in {0, n}
      BY <1>1
    <3>2. /\ \A m \in DOMAIN audit : ~TellsOf(audit[m], n)'
          /\ \A m \in DOMAIN raised : ~RaisedBy(raised[m], n)'
      BY <1>1, <3>1, NotToldYet
    <3> QED BY <2>1, <3>2 DEF Untold
  <2>6. \A d \in Caller \ {c} : handler[d].pc \in Telling => handler[d].change # x.change
    BY <1>1, <2>1 DEF EntityInv, Knows
  <2> QED BY <1>1, <1>2, <1>3, <1>4, <1>5, <2>2, <2>3, <2>4, <2>5, <2>6, HandlerStep
<1> QED BY <1>6, <1>7

LEMMA CreateOK ==
    ASSUME EntityInv, NEW c \in Caller, NEW e \in Entity, Create(c, e) \/ Complete(c, e)
    PROVE  EntityInv'
<1>1. Open(e)
  BY OpenRows DEF Create, Complete
<1>2. 0 \in Version
  BY EntityAssumption DEF Version
<1>3. CASE Create(c, e)
  BY <1>1, <1>2, <1>3, WrittenOK DEF Create, Tracked
<1>4. CASE Complete(c, e)
  <2>1. Unreadable("completed", e)
    BY <1>4 DEF Complete, Unreadable
  <2> QED BY <1>1, <1>2, <1>4, <2>1, WrittenOK DEF Complete, Tracked
<1> QED BY <1>3, <1>4

(* A step that tells nothing, and leaves the history alone. *)
LEMMA SilentStep ==
    ASSUME EntityInv, NEW c \in Caller, NEW x \in Teller, Continue(c, x), UNCHANGED tables,
           audit' = audit, raised' = raised, answered' \subseteq answered \cup hit',
           hit \subseteq hit', hit' \subseteq DOMAIN past, faults' \in 0 .. MaxFaults,
           Knows(x), Untold(x)',
           x.pc \in Telling => handler[c].pc \in Telling /\ handler[c].change = x.change
    PROVE  EntityInv'
<1>1. /\ row' \in [Entity -> Version] /\ past' \in Seq(Change) /\ PastGrows /\ PastOK'
      /\ \A e \in Entity : RowOK(e)'
      /\ \A a, i : TellsOf(a, i)' <=> TellsOf(a, i)
      /\ \A v, i : RaisedBy(v, i)' <=> RaisedBy(v, i)
      /\ past' = past /\ table' = table /\ accepts' = accepts
  BY Still DEF tables, schema
<1>2. /\ EntityTypeOK /\ audit' \in Seq(Entry) /\ raised' \in Seq(Announcement)
      /\ answered \cup hit \subseteq DOMAIN past
  BY EntityTypes DEF EntityInv
<1>3. answered' \cup hit' \subseteq DOMAIN past'
  BY <1>1, <1>2
<1>4. Knows(x)'
  BY <1>1 DEF Knows, HeldBefore
<1>5. \A d \in Caller \ {c} : handler'[d] = handler[d] => Untold(handler[d])'
  BY <1>1, <1>2, UntoldGrows DEF EntityInv
<1>6. \A d \in Caller \ {c} : x.pc \in Telling /\ handler[d].pc \in Telling =>
          handler[d].change # x.change
  BY DEF EntityInv, Distinct
<1>7. LogTellsWhatHappened'
  BY <1>1, <1>2, LogGrows DEF EntityInv
<1> QED BY <1>1, <1>2, <1>3, <1>4, <1>5, <1>6, <1>7, HandlerStep

LEMMA ReadOK ==
    ASSUME EntityInv, NEW c \in Caller, NEW e \in Entity, NEW action \in {"updated", "deleted"},
           Read(c, action, e)
    PROVE  EntityInv'
<1>1. PICK x : x = [Free EXCEPT !.pc = "write", !.action = action, !.on = e, !.old = row[e]]
  OBVIOUS
<1>2. /\ Continue(c, x) /\ row[e] # 0
      /\ UNCHANGED tables /\ UNCHANGED <<audit, raised, answered, hit, faults>>
  BY <1>1 DEF Read, told
<1>3. /\ row[e] \in Version /\ hit \subseteq DOMAIN past /\ faults \in 0 .. MaxFaults
      /\ 0 \in Version
  BY EntityTypes, EntityAssumption DEF EntityInv, Version
<1>4. /\ x.pc = "write" /\ x.action = action /\ x.on = e /\ x.old = row[e] /\ x.change = 0
      /\ x \in Teller
  BY <1>1, <1>3 DEF Free, Teller, Tracked
<1>5. Knows(x)
  BY <1>2, <1>4 DEF EntityInv, RowOK, Knows, Telling
<1>6. Untold(x)'
  BY <1>4 DEF Untold, Telling
<1> QED BY <1>2, <1>3, <1>4, <1>5, <1>6, SilentStep DEF Telling

LEMMA WriteOK ==
    ASSUME EntityInv, NEW c \in Caller, Write(c)
    PROVE  EntityInv'
<1>1. PICK h : h = handler[c]
  OBVIOUS
<1>2. /\ h.pc = "write" /\ h \in Teller /\ Knows(h)
      /\ UNCHANGED <<told, hit, faults>>
  BY <1>1, EntityTypes DEF EntityInv, Write
<1>3. /\ h.on \in Entity /\ h.action \in {"updated", "deleted"} /\ h.old \in Version
      /\ h.old \in HeldBefore(h.on, Len(past) + 1)
  BY <1>2 DEF Knows, Teller
<1>4. CASE row[h.on] = 0
  <2>1. Continue(c, Free) /\ UNCHANGED tables
    BY <1>1, <1>4 DEF Write, End
  <2>2. hit \subseteq DOMAIN past /\ faults \in 0 .. MaxFaults
    BY EntityTypes DEF EntityInv
  <2> QED BY <1>2, <2>1, <2>2, FreeOK, SilentStep DEF Telling, told
<1>5. CASE row[h.on] # 0
  <2>1. Commit(h.action, h.on) /\ Written(c, h.action, h.on, h.old)
    BY <1>1, <1>5 DEF Write
  <2>2. Open(h.on) /\ h.action \in Tracked
    BY <1>3, <1>5, OpenRows DEF Tracked
  <2> QED BY <1>2, <1>3, <2>1, <2>2, WrittenOK
<1> QED BY <1>4, <1>5

(* A change that nothing tells of. *)
LEMMA UnannouncedOK ==
    ASSUME EntityInv, row' \in [Entity -> Version], past' \in Seq(Change),
           PastGrows, PastOK', \A e \in Entity : RowOK(e)',
           UNCHANGED <<told, handler, hit, faults>>
    PROVE  EntityInv'
<1> USE DEF told
<1>1. /\ EntityTypeOK /\ answered \cup hit \subseteq DOMAIN past
  BY EntityTypes DEF EntityInv
<1>2. EntityTypeOK'
  <2>1. answered' \cup hit' \subseteq DOMAIN past'
    BY <1>1, HeldGrows
  <2>2. table' = table /\ accepts' = accepts
    BY DEF PastGrows
  <2> QED BY <1>1, <2>1, <2>2 DEF EntityTypeOK, Version, Change
<1>3. LogTellsWhatHappened'
  BY <1>1, LogGrows DEF EntityInv
<1>4. \A d \in Caller : Knows(handler[d])' /\ Untold(handler[d])'
  BY <1>1, KnowsGrows, UntoldGrows DEF EntityInv
<1>5. Distinct'
  BY DEF Distinct, EntityInv
<1> QED BY <1>2, <1>3, <1>4, <1>5 DEF EntityInv

LEMMA ImportOK ==
    ASSUME EntityInv, NEW e \in Entity, Import(e)
    PROVE  EntityInv'
<1>1. Open(e) /\ Commit("imported", e) /\ UNCHANGED <<told, handler, hit, faults>>
  BY OpenRows DEF Import
<1>2. /\ row' \in [Entity -> Version] /\ past' \in Seq(Change) /\ PastGrows /\ PastOK'
      /\ \A d \in Entity : RowOK(d)'
  BY <1>1, CommitOK
<1> QED BY <1>1, <1>2, UnannouncedOK

-----------------------------------------------------------------------------
(* The entry and the event. *)

(* The entry, and the event, that handler h is about to write tell of its  *)
(* change.                                                                 *)
EntryOf(h) == [action |-> h.action, on |-> h.on, old |-> h.old, new |-> past[h.change].after]
EventOf(h) == [action |-> h.action, on |-> h.on,
               payload |-> IF h.action = "deleted" THEN h.old ELSE h.change]

LEMMA Tells ==
    ASSUME EntityInv, NEW c \in Caller, NEW h, h = handler[c], h.pc \in Telling
    PROVE  /\ h \in Teller /\ h.change \in DOMAIN past /\ h.change \in Version /\ h.change # 0
           /\ h.on = past[h.change].on
           /\ EntryOf(h) \in Entry /\ TellsOf(EntryOf(h), h.change)
           /\ EventOf(h) \in Announcement /\ RaisedBy(EventOf(h), h.change)
<1>1. /\ h \in Teller /\ Knows(h) /\ h.change \in DOMAIN past
  BY EntityTypes DEF EntityInv, Knows
<1>2. past[h.change] \in Change /\ h.change \in Nat \ {0}
  BY <1>1, Places DEF EntityInv
<1>3. /\ h.action \in {"created", "updated", "deleted"}
      /\ h.action = past[h.change].action /\ h.on = past[h.change].on
      /\ h.old \in IF h.action = "created" THEN {0} ELSE HeldBefore(h.on, h.change)
  BY <1>1 DEF Knows
<1>4. h.on \in Entity /\ past[h.change].after \in Version
  BY <1>2, <1>3 DEF Change
<1>5. EntryOf(h) \in Entry /\ EventOf(h) \in Announcement
  BY <1>1, <1>4 DEF Teller, EntryOf, EventOf, Entry, Announcement
<1>6. TellsOf(EntryOf(h), h.change)
  BY <1>3 DEF TellsOf, EntryOf
<1>7. RaisedBy(EventOf(h), h.change)
  <2>1. past[h.change].after = IF h.action = "deleted" THEN 0 ELSE h.change
    BY <1>1, <1>3 DEF EntityInv, PastOK
  <2> QED BY <1>3, <2>1 DEF RaisedBy, EventOf
<1> QED BY <1>1, <1>2, <1>3, <1>5, <1>6, <1>7 DEF Teller

(* A sequence that gets an element it did not have stays without repeats.  *)
LEMMA AppendNew ==
    ASSUME NEW S, NEW seq \in Seq(S), NEW elt \in S, IsInjective(seq),
           \A n \in DOMAIN seq : seq[n] # elt
    PROVE  /\ IsInjective(Append(seq, elt)) /\ Append(seq, elt) \in Seq(S)
           /\ DOMAIN Append(seq, elt) = DOMAIN seq \cup {Len(seq) + 1}
           /\ \A n \in DOMAIN seq : Append(seq, elt)[n] = seq[n]
           /\ Append(seq, elt)[Len(seq) + 1] = elt
<1>1. /\ Append(seq, elt) \in Seq(S) /\ Len(Append(seq, elt)) = Len(seq) + 1
      /\ \A n \in 1 .. Len(seq) : Append(seq, elt)[n] = seq[n]
      /\ Append(seq, elt)[Len(seq) + 1] = elt
  BY AppendProperties
<1>2. /\ Len(seq) \in Nat /\ DOMAIN seq = 1 .. Len(seq)
      /\ DOMAIN Append(seq, elt) = 1 .. Len(seq) + 1
  BY <1>1, LenProperties
<1>3. DOMAIN Append(seq, elt) = DOMAIN seq \cup {Len(seq) + 1}
  BY <1>2
<1>4. IsInjective(Append(seq, elt))
  BY <1>1, <1>2, <1>3 DEF IsInjective
<1> QED BY <1>1, <1>2, <1>3, <1>4

(* After the entry a handler has the event before it, or is done. *)
LEMMA Goes ==
    ASSUME EntityInv, NEW c \in Caller, NEW h, h = handler[c], h.pc = "audit", Go(c)
    PROVE  \E x \in Teller :
              /\ Continue(c, x) /\ Knows(x)
              /\ \/ /\ x.pc = "enqueue" /\ x.change = h.change /\ answered' = answered
                    /\ table[h.on] \in {"contact", "deal"}
                 \/ /\ x = Free /\ answered' = answered \cup {h.change}
                    /\ table[h.on] \notin {"contact", "deal"}
<1>1. h \in Teller /\ Knows(h)
  BY EntityTypes DEF EntityInv
<1>2. CASE table[h.on] \in {"contact", "deal"}
  <2>1. PICK x : x = [h EXCEPT !.pc = "enqueue"]
    OBVIOUS
  <2>2. Continue(c, x) /\ answered' = answered
    BY <1>2, <2>1 DEF Go
  <2>3. /\ x \in Teller /\ x.pc = "enqueue" /\ x.change = h.change /\ x.action = h.action
        /\ x.on = h.on /\ x.old = h.old
    BY <1>1, <2>1 DEF Teller
  <2>4. Knows(x)
    BY <1>1, <2>3 DEF Knows, Telling
  <2> QED BY <1>2, <2>2, <2>3, <2>4
<1>3. CASE table[h.on] \notin {"contact", "deal"}
  BY <1>3, FreeOK DEF Go, Answer, End
<1> QED BY <1>2, <1>3

LEMMA InsertAuditOK ==
    ASSUME EntityInv, NEW c \in Caller, InsertAudit(c)
    PROVE  EntityInv'
<1>1. PICK h : h = handler[c]
  OBVIOUS
<1>2. PICK a : a = EntryOf(h)
  OBVIOUS
<1>3. /\ h.pc = "audit" /\ Go(c) /\ audit' = Append(audit, a)
      /\ UNCHANGED <<tables, raised, hit, faults>>
  BY <1>1, <1>2 DEF InsertAudit, EntryOf
<1>4. /\ h.change \in DOMAIN past /\ h.on = past[h.change].on
      /\ a \in Entry /\ TellsOf(a, h.change)
  BY <1>1, <1>2, <1>3, Tells DEF Telling
<1>5. PICK x \in Teller :
              /\ Continue(c, x) /\ Knows(x)
              /\ \/ /\ x.pc = "enqueue" /\ x.change = h.change /\ answered' = answered
                    /\ table[h.on] \in {"contact", "deal"}
                 \/ /\ x = Free /\ answered' = answered \cup {h.change}
                    /\ table[h.on] \notin {"contact", "deal"}
  BY <1>1, <1>3, Goes
<1>6. /\ row' \in [Entity -> Version] /\ past' \in Seq(Change) /\ PastGrows /\ PastOK'
      /\ \A e \in Entity : RowOK(e)'
      /\ \A b, i : TellsOf(b, i)' <=> TellsOf(b, i)
      /\ \A v, i : RaisedBy(v, i)' <=> RaisedBy(v, i)
      /\ past' = past /\ table' = table /\ accepts' = accepts
  BY <1>3, Still DEF tables, schema
<1>7. /\ EntityTypeOK /\ PastOK /\ audit \in Seq(Entry) /\ raised' \in Seq(Announcement)
      /\ answered \cup hit \subseteq DOMAIN past /\ faults' \in 0 .. MaxFaults
      /\ Untold(h) /\ LogTellsWhatHappened
  BY <1>1, <1>3, EntityTypes DEF EntityInv
<1>8. /\ IsInjective(audit') /\ audit' \in Seq(Entry)
      /\ DOMAIN audit' = DOMAIN audit \cup {Len(audit) + 1}
      /\ \A n \in DOMAIN audit : audit'[n] = audit[n]
      /\ audit'[Len(audit) + 1] = a
  <2>1. IsInjective(audit)
    BY <1>7 DEF LogTellsWhatHappened
  <2>2. \A n \in DOMAIN audit : audit[n] # a
    BY <1>3, <1>4, <1>7 DEF Untold
  <2> QED BY <1>3, <1>4, <1>7, <2>1, <2>2, AppendNew
<1>9. Knows(x)'
  BY <1>5, <1>6 DEF Knows, HeldBefore
<1>10. Untold(x)'
  <2>1. \E n \in DOMAIN audit' : audit'[n] = a
    BY <1>8
  <2> QED BY <1>3, <1>4, <1>5, <1>6, <1>7, <2>1, FreeOK DEF Untold, Telling
<1>11. ASSUME NEW d \in Caller \ {c}, handler'[d] = handler[d] PROVE Untold(handler[d])'
  <2>1. PICK g : g = handler[d]
    OBVIOUS
  <2>2. Knows(g) /\ Untold(g)
    BY <2>1 DEF EntityInv
  <2>3. g.pc = "audit" => ~TellsOf(a, g.change)
    <3>1. g.pc = "audit" => g.change # h.change /\ g.change \in DOMAIN past
      BY <1>1, <1>3, <2>1, <2>2 DEF EntityInv, Distinct, Telling, Knows
    <3> QED BY <1>4, <1>7, <3>1, TellsOfOne
  <2>4. g.pc = "audit" => \A n \in DOMAIN audit' : ~TellsOf(audit'[n], g.change)
    BY <1>8, <2>2, <2>3 DEF Untold
  <2>5. g.pc = "enqueue" /\ g.change \notin hit =>
            \E n \in DOMAIN audit' : TellsOf(audit'[n], g.change)
    BY <1>8, <2>2 DEF Untold
  <2>6. Untold(g)'
    BY <1>3, <1>6, <2>2, <2>4, <2>5 DEF Untold
  <2> QED BY <1>11, <2>1, <2>6 DEF Untold
<1>12. \A d \in Caller \ {c} : x.pc \in Telling /\ handler[d].pc \in Telling =>
          handler[d].change # x.change
  BY <1>1, <1>3, <1>5, FreeOK DEF EntityInv, Distinct, Telling
<1>13. LogTellsWhatHappened'
  <2>1. \A n \in DOMAIN audit' : \E i \in DOMAIN past : TellsOf(audit'[n], i)
    BY <1>4, <1>7, <1>8 DEF LogTellsWhatHappened
  <2>2. /\ \A n \in DOMAIN raised : \E i \in DOMAIN past : RaisedBy(raised[n], i)
        /\ IsInjective(raised)
    BY <1>7 DEF LogTellsWhatHappened
  <2>3. ASSUME NEW i \in answered' \ hit
        PROVE  /\ \E n \in DOMAIN audit' : TellsOf(audit'[n], i)
               /\ accepts /\ table[past[i].on] \in {"contact", "deal"} =>
                      \E n \in DOMAIN raised : RaisedBy(raised[n], i)
    <3>1. CASE i \in answered
      BY <1>7, <1>8, <2>3, <3>1 DEF LogTellsWhatHappened
    <3>2. CASE i \notin answered
      <4>1. i = h.change /\ table[h.on] \notin {"contact", "deal"}
        BY <1>5, <2>3, <3>2
      <4> QED BY <1>4, <1>8, <4>1
    <3> QED BY <3>1, <3>2
  <2> QED BY <1>3, <1>6, <1>8, <2>1, <2>2, <2>3 DEF LogTellsWhatHappened
<1>14. answered' \cup hit' \subseteq DOMAIN past'
  BY <1>3, <1>4, <1>5, <1>6, <1>7
<1> QED BY <1>5, <1>6, <1>7, <1>8, <1>9, <1>10, <1>11, <1>12, <1>13, <1>14, HandlerStep

LEMMA EnqueueOK ==
    ASSUME EntityInv, NEW c \in Caller, Enqueue(c)
    PROVE  EntityInv'
<1>1. PICK h : h = handler[c]
  OBVIOUS
<1>2. PICK v : v = EventOf(h)
  OBVIOUS
<1>3. /\ h.pc = "enqueue" /\ raised' = Append(raised, v)
      /\ answered' = answered \cup {h.change} /\ Continue(c, Free)
      /\ UNCHANGED <<tables, audit, hit, faults>>
  BY <1>1, <1>2 DEF Enqueue, EventOf, Answer, End
<1>4. /\ h.change \in DOMAIN past /\ v \in Announcement /\ RaisedBy(v, h.change)
  BY <1>1, <1>2, <1>3, Tells DEF Telling
<1>6. /\ row' \in [Entity -> Version] /\ past' \in Seq(Change) /\ PastGrows /\ PastOK'
      /\ \A e \in Entity : RowOK(e)'
      /\ \A b, i : TellsOf(b, i)' <=> TellsOf(b, i)
      /\ \A w, i : RaisedBy(w, i)' <=> RaisedBy(w, i)
      /\ past' = past /\ table' = table /\ accepts' = accepts
  BY <1>3, Still DEF tables, schema
<1>7. /\ EntityTypeOK /\ PastOK /\ audit' \in Seq(Entry) /\ raised \in Seq(Announcement)
      /\ answered \cup hit \subseteq DOMAIN past /\ faults' \in 0 .. MaxFaults
      /\ Untold(h) /\ LogTellsWhatHappened
  BY <1>1, <1>3, EntityTypes DEF EntityInv
<1>8. /\ IsInjective(raised') /\ raised' \in Seq(Announcement)
      /\ DOMAIN raised' = DOMAIN raised \cup {Len(raised) + 1}
      /\ \A n \in DOMAIN raised : raised'[n] = raised[n]
      /\ raised'[Len(raised) + 1] = v
  <2>1. IsInjective(raised)
    BY <1>7 DEF LogTellsWhatHappened
  <2>2. \A n \in DOMAIN raised : raised[n] # v
    BY <1>3, <1>4, <1>7 DEF Untold, Telling
  <2> QED BY <1>3, <1>4, <1>7, <2>1, <2>2, AppendNew
<1>9. ASSUME NEW d \in Caller \ {c}, handler'[d] = handler[d] PROVE Untold(handler[d])'
  <2>1. PICK g : g = handler[d]
    OBVIOUS
  <2>2. Knows(g) /\ Untold(g)
    BY <2>1 DEF EntityInv
  <2>3. g.pc \in Telling => ~RaisedBy(v, g.change)
    <3>1. g.pc \in Telling => g.change # h.change /\ g.change \in DOMAIN past
      BY <1>1, <1>3, <2>1, <2>2 DEF EntityInv, Distinct, Telling, Knows
    <3> QED BY <1>4, <1>7, <3>1, TellsOfOne
  <2>4. g.pc \in Telling => \A n \in DOMAIN raised' : ~RaisedBy(raised'[n], g.change)
    BY <1>8, <2>2, <2>3 DEF Untold
  <2>5. Untold(g)'
    BY <1>3, <1>6, <2>2, <2>4 DEF Untold
  <2> QED BY <1>9, <2>1, <2>5 DEF Untold
<1>10. LogTellsWhatHappened'
  <2>1. \A n \in DOMAIN raised' : \E i \in DOMAIN past : RaisedBy(raised'[n], i)
    BY <1>4, <1>7, <1>8 DEF LogTellsWhatHappened
  <2>2. /\ \A n \in DOMAIN audit : \E i \in DOMAIN past : TellsOf(audit[n], i)
        /\ IsInjective(audit)
    BY <1>7 DEF LogTellsWhatHappened
  <2>3. ASSUME NEW i \in answered' \ hit
        PROVE  /\ \E n \in DOMAIN audit : TellsOf(audit[n], i)
               /\ accepts /\ table[past[i].on] \in {"contact", "deal"} =>
                      \E n \in DOMAIN raised' : RaisedBy(raised'[n], i)
    <3>1. CASE i \in answered
      BY <1>7, <1>8, <2>3, <3>1 DEF LogTellsWhatHappened
    <3>2. CASE i = h.change
      BY <1>3, <1>4, <1>7, <1>8, <2>3, <3>2 DEF Untold
    <3> QED BY <1>3, <2>3, <3>1, <3>2
  <2> QED BY <1>3, <1>6, <1>8, <2>1, <2>2, <2>3 DEF LogTellsWhatHappened
<1>11. answered' \cup hit' \subseteq DOMAIN past'
  BY <1>3, <1>4, <1>6, <1>7
<1> QED BY <1>3, <1>6, <1>7, <1>8, <1>9, <1>10, <1>11, FreeOK, HandlerStep DEF Telling

(* An event that the database refuses: nothing tells of the change.        *)
LEMMA EnqueueRefusedOK ==
    ASSUME EntityInv, NEW c \in Caller, EnqueueRefused(c)
    PROVE  EntityInv'
<1>1. PICK h : h = handler[c]
  OBVIOUS
<1>2. /\ h.pc = "enqueue" /\ ~accepts /\ Continue(c, Free)
      /\ answered' = answered \cup {h.change}
      /\ UNCHANGED <<tables, audit, raised, hit, faults>>
  BY <1>1 DEF EnqueueRefused, Answer, End
<1>3. /\ row' \in [Entity -> Version] /\ past' \in Seq(Change) /\ PastGrows /\ PastOK'
      /\ \A e \in Entity : RowOK(e)'
      /\ \A a, i : TellsOf(a, i)' <=> TellsOf(a, i)
      /\ \A v, i : RaisedBy(v, i)' <=> RaisedBy(v, i)
      /\ past' = past /\ table' = table /\ accepts' = accepts
  BY <1>2, Still DEF tables, schema
<1>4. /\ EntityTypeOK /\ audit' \in Seq(Entry) /\ raised' \in Seq(Announcement)
      /\ answered \cup hit \subseteq DOMAIN past /\ faults' \in 0 .. MaxFaults
      /\ h.change \in DOMAIN past /\ Untold(h) /\ LogTellsWhatHappened
  BY <1>1, <1>2, EntityTypes, Tells DEF EntityInv, Telling
<1>5. answered' \cup hit' \subseteq DOMAIN past'
  BY <1>2, <1>3, <1>4
<1>6. \A d \in Caller \ {c} : handler'[d] = handler[d] => Untold(handler[d])'
  BY <1>2, <1>3, <1>4, UntoldGrows DEF EntityInv
<1>7. LogTellsWhatHappened'
  <2>1. ASSUME NEW i \in answered' \ hit PROVE \E n \in DOMAIN audit : TellsOf(audit[n], i)
    BY <1>2, <1>4, <2>1 DEF LogTellsWhatHappened, Untold
  <2> QED BY <1>2, <1>3, <1>4, <2>1 DEF LogTellsWhatHappened
<1> QED BY <1>2, <1>3, <1>4, <1>5, <1>6, <1>7, FreeOK, HandlerStep DEF Telling

-----------------------------------------------------------------------------
(* Failures. *)

LEMMA HitOK ==
    ASSUME EntityInv, NEW c \in Caller, Hit(c)
    PROVE  /\ UNCHANGED tables /\ audit' = audit /\ raised' = raised
           /\ hit \subseteq hit' /\ hit' \subseteq DOMAIN past /\ faults' \in 0 .. MaxFaults
           /\ handler[c].pc \in Telling => handler[c].change \in hit'
<1>1. /\ hit \subseteq DOMAIN past /\ faults \in 0 .. MaxFaults /\ Knows(handler[c])
      /\ handler[c].pc \in {"idle", "write"} \cup Telling
  BY EntityTypes DEF EntityInv, Teller, Telling
<1>2. handler[c].change # 0 => handler[c].change \in DOMAIN past
  BY <1>1 DEF Knows
<1>3. handler[c].pc \in Telling => handler[c].change # 0
  BY Tells
<1>4. faults' \in 0 .. MaxFaults
  BY <1>1, EntityAssumption DEF Hit
<1>5. hit' = hit \cup ({handler[c].change} \ {0})
  BY DEF Hit
<1> QED BY <1>1, <1>2, <1>3, <1>4, <1>5 DEF Hit

LEMMA LoseEntryOK ==
    ASSUME EntityInv, NEW c \in Caller, LoseEntry(c)
    PROVE  EntityInv'
<1>1. PICK h : h = handler[c]
  OBVIOUS
<1>2. h.pc = "audit" /\ Go(c) /\ Hit(c)
  BY <1>1 DEF LoseEntry
<1>3. PICK x \in Teller :
              /\ Continue(c, x) /\ Knows(x)
              /\ \/ /\ x.pc = "enqueue" /\ x.change = h.change /\ answered' = answered
                    /\ table[h.on] \in {"contact", "deal"}
                 \/ /\ x = Free /\ answered' = answered \cup {h.change}
                    /\ table[h.on] \notin {"contact", "deal"}
  BY <1>1, <1>2, Goes
<1>4. /\ UNCHANGED tables /\ audit' = audit /\ raised' = raised
      /\ hit \subseteq hit' /\ hit' \subseteq DOMAIN past /\ faults' \in 0 .. MaxFaults
      /\ h.change \in hit'
  BY <1>1, <1>2, HitOK DEF Telling
<1>5. Untold(x)'
  <2>1. \A v, i : RaisedBy(v, i)' <=> RaisedBy(v, i)
    BY <1>4, Still
  <2>2. Untold(h)
    BY <1>1 DEF EntityInv
  <2> QED BY <1>2, <1>3, <1>4, <2>1, <2>2, FreeOK DEF Untold, Telling
<1>6. x.pc \in Telling => handler[c].pc \in Telling /\ handler[c].change = x.change
  BY <1>1, <1>2, <1>3, FreeOK DEF Telling
<1>7. answered' \subseteq answered \cup hit'
  BY <1>3, <1>4
<1> QED BY <1>3, <1>4, <1>5, <1>6, <1>7, SilentStep

LEMMA CutShortOK ==
    ASSUME EntityInv, NEW c \in Caller, LoseEvent(c) \/ CutShort(c)
    PROVE  EntityInv'
<1>1. Hit(c) /\ Continue(c, Free)
  BY DEF LoseEvent, CutShort, Answer, End
<1>2. /\ UNCHANGED tables /\ audit' = audit /\ raised' = raised
      /\ hit \subseteq hit' /\ hit' \subseteq DOMAIN past /\ faults' \in 0 .. MaxFaults
      /\ handler[c].pc \in Telling => handler[c].change \in hit'
  BY <1>1, HitOK
<1>3. answered' \subseteq answered \cup hit'
  BY <1>2 DEF LoseEvent, CutShort, Answer, Telling
<1> QED BY <1>1, <1>2, <1>3, FreeOK, SilentStep DEF Telling

-----------------------------------------------------------------------------
LEMMA EntityInitInv == EntityInit => EntityInv
<1> SUFFICES ASSUME EntityInit PROVE EntityInv
  OBVIOUS
<1>1. 0 \in Version /\ 0 \in 0 .. MaxFaults
  BY EntityAssumption DEF Version
<1>2. \A c \in Caller : handler[c] = Free
  BY DEF EntityInit
<1>3. past = <<>> /\ audit = <<>> /\ raised = <<>> /\ answered = {} /\ hit = {}
  BY DEF EntityInit
<1>4. EntityTypeOK
  <2>1. past \in Seq(Change) /\ audit \in Seq(Entry) /\ raised \in Seq(Announcement)
    BY <1>3, EmptySeq
  <2>2. handler \in [Caller -> Teller]
    BY FreeOK DEF EntityInit
  <2> QED BY <1>1, <1>3, <2>1, <2>2, EntityTypes DEF EntityInit
<1>5. DOMAIN past = {} /\ DOMAIN audit = {} /\ DOMAIN raised = {}
  BY <1>3
<1>6. PastOK /\ LogTellsWhatHappened
  BY <1>3, <1>5 DEF PastOK, LogTellsWhatHappened, IsInjective
<1>7. \A e \in Entity : RowOK(e)
  BY DEF EntityInit, RowOK
<1>8. Distinct /\ \A c \in Caller : Knows(handler[c]) /\ Untold(handler[c])
  BY <1>2, FreeOK DEF Distinct, Telling
<1> QED BY <1>4, <1>6, <1>7, <1>8 DEF EntityInv

LEMMA EntityNextInv == EntityInv /\ [EntityNext]_entityvars => EntityInv'
<1> SUFFICES ASSUME EntityInv, [EntityNext]_entityvars PROVE EntityInv'
  OBVIOUS
<1>1. CASE UNCHANGED entityvars
  <2>1. UNCHANGED tables /\ UNCHANGED <<told, handler, hit, faults>>
    BY <1>1 DEF entityvars
  <2> QED BY <2>1, Still, UnannouncedOK
<1>2. ASSUME NEW gone \in SetToAllKPermutations(Entity), BulkDelete(gone) PROVE EntityInv'
  BY <1>2, BulkOK, UnannouncedOK DEF BulkDelete
<1>3. ASSUME NEW c \in Caller, NEW e \in Entity,
             \/ Create(c, e) \/ Complete(c, e)
             \/ Read(c, "updated", e) \/ Read(c, "deleted", e)
      PROVE  EntityInv'
  BY <1>3, CreateOK, ReadOK
<1>4. ASSUME NEW c \in Caller,
             \/ Write(c) \/ InsertAudit(c) \/ EnqueueRefused(c) \/ Enqueue(c)
             \/ LoseEntry(c) \/ LoseEvent(c) \/ CutShort(c)
      PROVE  EntityInv'
  BY <1>4, WriteOK, InsertAuditOK, EnqueueRefusedOK, EnqueueOK, LoseEntryOK, CutShortOK
<1> QED BY <1>1, <1>2, <1>3, <1>4, ImportOK DEF EntityNext

(* What a handler tells of is a change that was committed, that no entry   *)
(* and no event has told of, and whose old row it knows.                   *)
THEOREM EntityInductive == EntitySpec => []EntityInv
BY EntityInitInv, EntityNextInv, PTL DEF EntitySpec

(* The audit log and the events tell of committed changes, of each once,   *)
(* and of every change that was answered with success, but for failures    *)
(* that the handlers drop.                                                 *)
THEOREM LogIsTrue == EntitySpec => []LogTellsWhatHappened
<1>1. EntityInv => LogTellsWhatHappened
  BY DEF EntityInv
<1> QED BY <1>1, EntityInductive, PTL

-----------------------------------------------------------------------------
(* The run has the behaviours of the leads and those of the other records. *)
LEMMA LeadsPart == RecordsSpec => Spec
<1>1. RecordsInit => Init
  BY DEF RecordsInit
<1>2. [RecordsNext /\ UNCHANGED part]_<<part, vars, entityvars>> => [Next]_vars
  BY DEF RecordsNext, vars
<1> QED BY <1>1, <1>2, PTL DEF RecordsSpec, Spec

LEMMA EntitiesPart == RecordsSpec => EntitySpec
<1>1. RecordsInit => EntityInit
  BY DEF RecordsInit
<1>2. [RecordsNext /\ UNCHANGED part]_<<part, vars, entityvars>> => [EntityNext]_entityvars
  BY DEF RecordsNext, entityvars
<1> QED BY <1>1, <1>2, PTL DEF RecordsSpec, EntitySpec

(* Every variable of the leads, the other records, the audit log and the   *)
(* handlers has its type, for any number of each.                          *)
THEOREM RecordTypes == RecordsSpec => []TypesOK
<1>1. IInv /\ EntityInv => TypesOK
  BY DEF IInv, EntityInv, TypesOK
<1> QED BY <1>1, LeadsPart, Inductive, EntitiesPart, EntityInductive, PTL
=============================================================================
