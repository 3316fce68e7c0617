------------------------ MODULE AccessControlProofs ------------------------
(***************************************************************************)
(* Proofs about AccessControl, for every set of users, profiles and        *)
(* requests, and every bound on the cache and on time.                     *)
(***************************************************************************)
EXTENDS AccessControl, FiniteSetTheorems, TLAPS

USE DEF MaxLag, Entry

Handler == [pc : {"idle", "fetch", "serve", "invalidate", "grant"},
            user : User \cup {None}, perms : SUBSET Permission,
            age : 0..FetchBound, lag : 0..MaxLag,
            target : User \cup Profile \cup {None}]

TargetOK(h) ==
    /\ h.pc \in {"fetch", "serve"} => h.user \in User
    /\ h.pc = "invalidate" => h.target \in User
    /\ h.pc = "grant" => h.target \in Profile

(* What was read lags behind the tables no longer than it was under way,   *)
(* and an entry no longer than that and its time in the cache; the age of  *)
(* an expired entry says nothing.                                          *)
FetchInTime(h) == h.pc = "fetch" => h.lag <= h.age
EntryInTime(e) == e # None /\ e.age < TTL => e.lag <= e.age + FetchBound

InTime ==
    /\ \A r \in Request : FetchInTime(req[r])
    /\ \A u \in User : EntryInTime(cache[u])

Bounded == IsFiniteSet(Cached) /\ CacheBounded

IInv == TypeOK /\ Bounded /\ InTime

-----------------------------------------------------------------------------
LEMMA IdleOK == Idle \in Handler /\ TargetOK(Idle) /\ FetchInTime(Idle)
BY BoundsAssumption DEF Idle, Handler, TargetOK, FetchInTime, MaxLag

LEMMA AddOne ==
    ASSUME NEW S, NEW x, IsFiniteSet(S)
    PROVE  IsFiniteSet(S \cup {x}) /\ Cardinality(S \cup {x}) <= Cardinality(S) + 1
<1>1. Cardinality(S) \in Nat
  BY FS_CardinalityType
<1>2. /\ IsFiniteSet(S \cup {x})
      /\ Cardinality(S \cup {x}) = IF x \in S THEN Cardinality(S) ELSE Cardinality(S) + 1
  BY FS_AddElement
<1> QED BY <1>1, <1>2

LEMMA TypeParts ==
    TypeOK <=> /\ profile \in [User -> Profile \cup {None}]
               /\ grants \in [Profile -> SUBSET Permission]
               /\ cache \in [User -> Entry \cup {None}]
               /\ req \in [Request -> Handler]
               /\ \A r \in Request : TargetOK(req[r])
BY DEF TypeOK, Handler, TargetOK

LEMMA BecomeOK ==
    ASSUME TypeOK, NEW r \in Request, NEW h \in Handler, TargetOK(h), Become(r, h)
    PROVE  /\ req' \in [Request -> Handler]
           /\ \A s \in Request : TargetOK(req'[s])
           /\ req'[r] = h
           /\ \A s \in Request \ {r} : req'[s] = req[s]
<1>1. req' = [req EXCEPT ![r] = h] /\ req \in [Request -> Handler]
  BY TypeParts DEF Become
<1>2. /\ req' \in [Request -> Handler] /\ req'[r] = h
      /\ \A s \in Request \ {r} : req'[s] = req[s]
  BY <1>1
<1> QED BY <1>2, TypeParts

LEMMA EffectiveType ==
    ASSUME TypeOK, NEW u \in User
    PROVE  Effective(u) \subseteq Permission
BY TypeParts DEF Effective

LEMMA LagType ==
    ASSUME NEW u \in User, NEW S, NEW lag \in 0..MaxLag
    PROVE  Lag(u, S, lag) \in 0..MaxLag /\ Lag(u, S, lag) <= lag + 1
BY BoundsAssumption DEF Lag, MaxLag

(* A step of a handler that changes the tables or the cache lawfully. *)
LEMMA HandlerStep ==
    ASSUME TypeOK, InTime, NEW r \in Request,
           NEW h \in Handler, TargetOK(h), FetchInTime(h), Become(r, h),
           profile' \in [User -> Profile \cup {None}],
           grants' \in [Profile -> SUBSET Permission],
           cache' \in [User -> Entry \cup {None}],
           \A u \in User : EntryInTime(cache'[u])
    PROVE  TypeOK' /\ InTime'
<1>1. /\ req' \in [Request -> Handler]
      /\ \A s \in Request : TargetOK(req'[s])
      /\ \A s \in Request : req'[s] = h \/ req'[s] = req[s]
  BY BecomeOK
<1>2. TypeOK'
  BY <1>1 DEF TypeOK, Handler, TargetOK
<1>3. \A s \in Request : FetchInTime(req'[s])
  BY <1>1 DEF InTime
<1> QED BY <1>2, <1>3 DEF InTime, FetchInTime, EntryInTime

LEMMA EvictedOK ==
    ASSUME TypeOK, Bounded, InTime
    PROVE  /\ Evicted \in [User -> Entry \cup {None}]
           /\ \A u \in User : Evicted[u] \in {cache[u], None}
           /\ IsFiniteSet({u \in User : Evicted[u] # None})
           /\ Cardinality({u \in User : Evicted[u] # None}) < CacheMax
<1> DEFINE fresh == {u \in User : Fresh(u)}
           kept == {u \in User : Evicted[u] # None}
<1>0. cache \in [User -> Entry \cup {None}] /\ CacheMax \in Nat \ {0}
  BY TypeParts, BoundsAssumption
<1>1. fresh \subseteq Cached /\ IsFiniteSet(Cached)
  BY DEF Fresh, Cached, Bounded
<1>2. IsFiniteSet(fresh) /\ Cardinality(fresh) \in Nat /\ Cardinality(Cached) \in Nat
  BY <1>1, FS_Subset, FS_CardinalityType
<1>3. CASE Cardinality(Cached) < CacheMax
  <2>1. Evicted = cache
    BY <1>0, <1>2, <1>3 DEF Evicted
  <2>2. kept = Cached
    BY <2>1 DEF Cached
  <2> QED BY <1>0, <1>1, <1>3, <2>1, <2>2
<1>4. CASE Cardinality(Cached) >= CacheMax /\ Cardinality(fresh) < CacheMax
  <2>1. Evicted = [u \in User |-> IF u \in fresh THEN cache[u] ELSE None]
    BY <1>0, <1>2, <1>4 DEF Evicted
  <2>2. kept = fresh
    BY <2>1 DEF Fresh
  <2> QED BY <1>0, <1>2, <1>4, <2>1, <2>2
<1>5. CASE Cardinality(Cached) >= CacheMax /\ Cardinality(fresh) >= CacheMax
  <2>1. Evicted = [u \in User |-> None]
    BY <1>0, <1>2, <1>5 DEF Evicted
  <2>2. kept = {}
    BY <2>1
  <2>3. IsFiniteSet(kept) /\ Cardinality(kept) = 0
    BY <2>2, FS_EmptySet
  <2> QED BY <1>0, <2>1, <2>3
<1> QED BY <1>0, <1>2, <1>3, <1>4, <1>5

(* No step but Install adds to the cache. *)
LEMMA FewerCached ==
    ASSUME Bounded, Cached' \subseteq Cached
    PROVE  Bounded'
<1>1. IsFiniteSet(Cached') /\ Cardinality(Cached') <= Cardinality(Cached)
  BY FS_Subset DEF Bounded
<1>2. Cardinality(Cached') \in Nat /\ Cardinality(Cached) \in Nat
  BY <1>1, FS_CardinalityType DEF Bounded
<1> QED BY <1>1, <1>2, BoundsAssumption DEF Bounded, CacheBounded

-----------------------------------------------------------------------------
(* Steps that leave the cache alone, and may change the tables. *)
LEMMA TablesStep ==
    ASSUME IInv, NEW r \in Request, NEW h \in Handler, TargetOK(h), FetchInTime(h),
           Become(r, h), cache' = cache,
           profile' \in [User -> Profile \cup {None}],
           grants' \in [Profile -> SUBSET Permission]
    PROVE  IInv'
<1>1. TypeOK' /\ InTime'
  BY HandlerStep, TypeParts DEF IInv, InTime
<1>2. Bounded'
  BY FewerCached DEF IInv, Cached
<1> QED BY <1>1, <1>2 DEF IInv

LEMMA StartOK ==
    ASSUME IInv, NEW r \in Request, Start(r)
    PROVE  IInv'
<1> USE DEF IInv
<1>0. UNCHANGED <<profile, grants, cache>>
  BY DEF Start, Hit, Fetch
<1>1. ASSUME NEW u \in User, Hit(r, u)
      PROVE  IInv'
  <2> DEFINE h == [Idle EXCEPT !.pc = "serve", !.user = u, !.perms = cache[u].perms]
  <2>1. cache[u].perms \subseteq Permission
    BY <1>1, TypeParts DEF Hit, Fresh
  <2>2. h \in Handler /\ TargetOK(h) /\ FetchInTime(h)
    BY <2>1, IdleOK DEF Idle, Handler, TargetOK, FetchInTime
  <2> QED BY <1>0, <1>1, <2>2, TablesStep, TypeParts DEF Hit
<1>2. ASSUME NEW u \in User, Fetch(r, u)
      PROVE  IInv'
  <2> DEFINE h == [Idle EXCEPT !.pc = "fetch", !.user = u, !.perms = Effective(u)]
  <2>1. Effective(u) \subseteq Permission
    BY EffectiveType
  <2>2. h \in Handler
    BY <2>1, IdleOK DEF Idle, Handler
  <2>3. TargetOK(h) /\ FetchInTime(h)
    BY DEF Idle, TargetOK, FetchInTime
  <2> QED BY <1>0, <1>2, <2>2, <2>3, TablesStep, TypeParts DEF Fetch
<1> QED BY <1>1, <1>2 DEF Start

LEMMA InstallOK ==
    ASSUME IInv, NEW r \in Request, Install(r)
    PROVE  IInv'
<1> USE DEF IInv
<1> DEFINE h == req[r]
           e == [perms |-> h.perms, age |-> 0, lag |-> h.lag]
           g == [h EXCEPT !.pc = "serve", !.age = 0, !.lag = 0]
           kept == {u \in User : Evicted[u] # None}
<1>1. h \in Handler /\ h.pc = "fetch" /\ h.user \in User /\ h.lag <= FetchBound
  BY TypeParts, BoundsAssumption DEF Install, TargetOK, InTime, FetchInTime, Handler
<1>2. /\ cache' = [Evicted EXCEPT ![h.user] = e] /\ Become(r, g)
      /\ UNCHANGED <<profile, grants>>
  BY DEF Install
<1>3. g \in Handler /\ TargetOK(g) /\ FetchInTime(g)
  <2>1. 0 \in 0..FetchBound /\ 0 \in 0..MaxLag
    BY BoundsAssumption
  <2> QED BY <1>1, <2>1 DEF Handler, TargetOK, FetchInTime
<1>4. e \in Entry /\ EntryInTime(e)
  BY <1>1, BoundsAssumption DEF Handler, EntryInTime
<1>5. /\ cache' \in [User -> Entry \cup {None}]
      /\ cache'[h.user] = e
      /\ \A u \in User \ {h.user} : cache'[u] \in {cache[u], None}
  BY <1>1, <1>2, <1>4, EvictedOK
<1>6. \A u \in User : EntryInTime(cache'[u])
  BY <1>4, <1>5 DEF InTime, EntryInTime
<1>7. TypeOK' /\ InTime'
  BY <1>2, <1>3, <1>5, <1>6, HandlerStep, TypeParts
<1>8. Cached' \subseteq kept \cup {h.user}
  BY <1>1, <1>2, EvictedOK DEF Cached
<1>9. IsFiniteSet(kept) /\ Cardinality(kept) < CacheMax /\ Cardinality(kept) \in Nat
  BY EvictedOK, FS_CardinalityType
<1>10. /\ IsFiniteSet(kept \cup {h.user})
       /\ Cardinality(kept \cup {h.user}) <= Cardinality(kept) + 1
  BY <1>9, AddOne
<1>11. /\ IsFiniteSet(Cached') /\ Cardinality(Cached') \in Nat
       /\ Cardinality(Cached') <= Cardinality(kept \cup {h.user})
       /\ Cardinality(kept \cup {h.user}) \in Nat
  <2> HIDE DEF kept, h
  <2> QED BY <1>8, <1>10, FS_Subset, FS_CardinalityType
<1>12. Bounded'
  <2> HIDE DEF kept, h
  <2> QED BY <1>9, <1>10, <1>11, BoundsAssumption DEF Bounded, CacheBounded
<1> QED BY <1>7, <1>12

(* An invalidation empties entries; the rest of a request leaves the cache *)
(* alone.                                                                  *)
LEMMA ContinueOK ==
    ASSUME IInv, NEW r \in Request, Continue(r)
    PROVE  IInv'
<1> USE DEF IInv
<1>1. CASE Install(r)
  BY <1>1, InstallOK
<1>2. CASE Serve(r)
  BY <1>2, IdleOK, TablesStep, TypeParts DEF Serve, Return
<1>3. CASE InvalidateUser(r) \/ InvalidateAll(r)
  <2>1. Become(r, Idle) /\ UNCHANGED <<profile, grants>>
    BY <1>3 DEF InvalidateUser, InvalidateAll, Return
  <2>2. /\ cache' \in [User -> Entry \cup {None}]
        /\ \A u \in User : cache'[u] \in {cache[u], None}
    BY <1>3, TypeParts DEF InvalidateUser, InvalidateAll
  <2>3. TypeOK' /\ InTime'
    BY <2>1, <2>2, IdleOK, HandlerStep, TypeParts DEF InTime, EntryInTime
  <2>4. Bounded'
    BY <2>2, FewerCached DEF Cached
  <2> QED BY <2>3, <2>4
<1>4. ASSUME NEW x \in Permission, GrantNext(r, x)
      PROVE  IInv'
  <2> DEFINE h == [req[r] EXCEPT !.perms = @ \ {x}]
  <2>1. req[r] \in Handler /\ TargetOK(req[r]) /\ req[r].pc = "grant"
    BY <1>4, TypeParts DEF GrantNext
  <2>2. h \in Handler /\ TargetOK(h) /\ FetchInTime(h)
    BY <2>1 DEF Handler, TargetOK, FetchInTime
  <2>3. grants' \in [Profile -> SUBSET Permission]
    BY <1>4, <2>1, TypeParts DEF GrantNext, TargetOK
  <2> QED BY <1>4, <2>2, <2>3, TablesStep, TypeParts DEF GrantNext
<1> QED BY <1>1, <1>2, <1>3, <1>4 DEF Continue

LEMMA AdministerOK ==
    ASSUME IInv, NEW r \in Request, Administer(r)
    PROVE  IInv'
<1> USE DEF IInv
<1>1. ASSUME NEW u \in User, DeleteUser(r, u)
      PROVE  IInv'
  <2>1. profile' \in [User -> Profile \cup {None}]
    BY <1>1, TypeParts DEF DeleteUser
  <2> QED BY <1>1, <2>1, IdleOK, TablesStep, TypeParts DEF DeleteUser, Return
<1>2. ASSUME NEW u \in User, NEW p \in Profile, AssignProfile(r, u, p)
      PROVE  IInv'
  <2> DEFINE h == [Idle EXCEPT !.pc = "invalidate", !.target = u]
  <2>1. h \in Handler /\ TargetOK(h) /\ FetchInTime(h)
    BY IdleOK DEF Idle, Handler, TargetOK, FetchInTime
  <2>2. profile' \in [User -> Profile \cup {None}]
    BY <1>2, TypeParts DEF AssignProfile
  <2> QED BY <1>2, <2>1, <2>2, TablesStep, TypeParts DEF AssignProfile
<1>3. ASSUME NEW p \in Profile, NEW S \in SUBSET Permission, ReplaceGrants(r, p, S)
      PROVE  IInv'
  <2> DEFINE h == [Idle EXCEPT !.pc = "grant", !.target = p, !.perms = S]
  <2>1. h \in Handler /\ TargetOK(h) /\ FetchInTime(h)
    BY IdleOK DEF Idle, Handler, TargetOK, FetchInTime
  <2>2. grants' \in [Profile -> SUBSET Permission]
    BY <1>3, TypeParts DEF ReplaceGrants
  <2> QED BY <1>3, <2>1, <2>2, TablesStep, TypeParts DEF ReplaceGrants
<1> QED BY <1>1, <1>2, <1>3 DEF Administer

LEMMA TickOK ==
    ASSUME IInv, Tick
    PROVE  IInv'
<1> USE DEF IInv
<1>1. ASSUME NEW u \in User
      PROVE  /\ cache'[u] \in Entry \cup {None}
             /\ EntryInTime(cache'[u])
             /\ cache[u] = None => cache'[u] = None
  <2>1. CASE cache[u] = None
    BY <2>1 DEF Tick, EntryInTime
  <2>2. CASE cache[u] # None
    <3> DEFINE e == cache[u]
               lag == Lag(u, e.perms, e.lag)
               age == IF e.age < TTL THEN e.age + 1 ELSE e.age
    <3>1. e \in Entry /\ EntryInTime(e)
      BY <2>2, TypeParts DEF InTime
    <3>2. lag \in 0..MaxLag /\ lag <= e.lag + 1
      BY <3>1, LagType
    <3>3. cache'[u] = [e EXCEPT !.age = age, !.lag = lag]
      BY <2>2 DEF Tick
    <3>4. age \in 0..TTL /\ (age < TTL => age = e.age + 1)
      BY <3>1, BoundsAssumption
    <3> HIDE DEF lag, age
    <3>5. cache'[u] \in Entry /\ cache'[u].age = age /\ cache'[u].lag = lag
      BY <3>1, <3>2, <3>3, <3>4
    <3>6. EntryInTime(cache'[u])
      BY <2>2, <3>1, <3>2, <3>4, <3>5, BoundsAssumption DEF EntryInTime
    <3> QED BY <2>2, <3>5, <3>6
  <2> QED BY <2>1, <2>2
<1>2. ASSUME NEW r \in Request
      PROVE  req'[r] \in Handler /\ TargetOK(req'[r]) /\ FetchInTime(req'[r])
  <2> DEFINE h == req[r]
             lag == Lag(h.user, h.perms, h.lag)
  <2>1. h \in Handler /\ TargetOK(h) /\ FetchInTime(h)
    BY TypeParts DEF InTime
  <2>2. CASE h.pc # "fetch"
    BY <2>1, <2>2 DEF Tick
  <2>3. CASE h.pc = "fetch"
    <3>1. h.age < FetchBound /\ h.user \in User
      BY <2>1, <2>3 DEF Tick, TargetOK
    <3>2. lag \in 0..MaxLag /\ lag <= h.lag + 1
      BY <2>1, <3>1, LagType DEF Handler
    <3>3. req'[r] = [h EXCEPT !.age = @ + 1, !.lag = lag]
      BY <2>3 DEF Tick
    <3>4. h.age + 1 \in 0..FetchBound /\ lag <= h.age + 1
      BY <2>1, <2>3, <3>1, <3>2, BoundsAssumption DEF Handler, FetchInTime
    <3> HIDE DEF lag
    <3> QED BY <2>1, <2>3, <3>1, <3>2, <3>3, <3>4 DEF Handler, TargetOK, FetchInTime
  <2> QED BY <2>2, <2>3
<1>3. cache' \in [User -> Entry \cup {None}] /\ req' \in [Request -> Handler]
  BY <1>1, <1>2 DEF Tick
<1>4. TypeOK'
  BY <1>2, <1>3 DEF Tick, TypeOK, Handler, TargetOK
<1>5. InTime'
  BY <1>1, <1>2 DEF InTime, EntryInTime, FetchInTime
<1>6. Bounded'
  BY <1>1, FewerCached DEF Cached
<1> QED BY <1>4, <1>5, <1>6

LEMMA InitInv == Init => IInv
<1> SUFFICES ASSUME Init PROVE IInv
  OBVIOUS
<1>1. TypeOK
  BY IdleOK, TypeParts DEF Init
<1>2. InTime
  BY IdleOK DEF Init, InTime, EntryInTime
<1>3. Cached = {}
  BY DEF Init, Cached
<1>4. Bounded
  BY <1>3, FS_EmptySet, BoundsAssumption DEF Bounded, CacheBounded
<1> QED BY <1>1, <1>2, <1>4 DEF IInv

LEMMA NextInv == IInv /\ [Next]_vars => IInv'
<1> SUFFICES ASSUME IInv, [Next]_vars PROVE IInv'
  OBVIOUS
<1>1. ASSUME NEW r \in Request, Abandon(r) PROVE IInv'
  BY <1>1, IdleOK, TablesStep, TypeParts DEF Abandon, Return, IInv
<1>2. CASE UNCHANGED vars
  <2>1. TypeOK' /\ InTime'
    BY <1>2 DEF IInv, vars, TypeOK, InTime, EntryInTime, FetchInTime
  <2>2. Cached' = Cached
    BY <1>2 DEF vars, Cached
  <2> QED BY <2>1, <2>2, FewerCached DEF IInv
<1> QED BY <1>1, <1>2, StartOK, ContinueOK, AdministerOK, TickOK DEF Next, Step

(* In every reachable state what the cache holds, and what a request took  *)
(* from it or is fetching for it, is as recent as the clock says.          *)
THEOREM Inductive == Spec => []IInv
BY InitInv, NextInv, PTL DEF Spec

(* Every variable of the permission cache has its type. *)
THEOREM TypeCorrect == Spec => []TypeOK
<1>1. IInv => TypeOK
  BY DEF IInv
<1> QED BY <1>1, Inductive, PTL

(* However many requests that missed install their entries, the cache      *)
(* holds at most PERM_CACHE_MAX of them.                                   *)
THEOREM CacheStaysBounded == Spec => []CacheBounded
<1>1. IInv => CacheBounded
  BY DEF IInv, Bounded
<1> QED BY <1>1, Inductive, PTL

-----------------------------------------------------------------------------
(* Only a hit lets a waiting request be served at once. *)
LEMMA ServedByHit ==
    ASSUME TypeOK, Next, NEW r \in Request, req[r].pc = "idle", req'[r].pc = "serve"
    PROVE  \E u \in User : Hit(r, u) /\ req'[r].user = u
<1>1. ~Tick
  BY DEF Tick
<1>2. PICK s \in Request : Start(s) \/ Continue(s) \/ Administer(s) \/ Abandon(s)
  BY <1>1 DEF Next, Step
<1>3. PICK h : Become(s, h)
  BY <1>2 DEF Start, Hit, Fetch, Continue, Install, Serve, InvalidateUser, InvalidateAll,
              GrantNext, Administer, DeleteUser, AssignProfile, ReplaceGrants, Abandon,
              Return
<1>4. s = r
  BY <1>3, TypeParts DEF Become
<1>5. Start(r)
  BY <1>2, <1>4, TypeParts
     DEF Continue, Install, Serve, InvalidateUser, InvalidateAll, GrantNext,
         Administer, Authorised, DeleteUser, AssignProfile, ReplaceGrants, Abandon
<1>6. PICK u \in User : Hit(r, u) \/ Fetch(r, u)
  BY <1>5 DEF Start
<1> QED BY <1>6, TypeParts DEF Hit, Fetch, Become, Idle

(* No request is let in on permissions that its caller lost TTL plus one   *)
(* query ago or earlier, whatever happens to the invalidations.            *)
THEOREM Recent == Spec => DecisionsRecent
<1> DEFINE Decided(r) == req[r].pc = "idle" /\ req'[r].pc = "serve"
                            => cache[req'[r].user].lag < TTL + FetchBound
<1>1. ASSUME IInv, Next, NEW r \in Request, req[r].pc = "idle", req'[r].pc = "serve"
      PROVE  cache[req'[r].user].lag < TTL + FetchBound
  <2>1. PICK u \in User : Hit(r, u) /\ req'[r].user = u
    BY <1>1, ServedByHit DEF IInv
  <2>2. cache[u] \in Entry /\ cache[u] # None /\ cache[u].age < TTL /\ EntryInTime(cache[u])
    BY <1>1, <2>1, TypeParts DEF Hit, Fresh, IInv, InTime
  <2>3. cache[u].lag <= cache[u].age + FetchBound
    BY <2>2 DEF EntryInTime
  <2> QED BY <2>1, <2>2, <2>3, BoundsAssumption
<1>2. IInv /\ [Next]_vars => [\A r \in Request : Decided(r)]_vars
  BY <1>1
<1> QED BY <1>2, Inductive, PTL DEF Spec, DecisionsRecent
=============================================================================
