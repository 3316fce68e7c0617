---------------------------- MODULE AccessControl ----------------------------
(***************************************************************************)
(* Who may do what: users have a profile, a profile has permissions, and   *)
(* every request is decided on the caller's permissions as                 *)
(* backend/src/middleware/auth.rs loads them, through a cache in memory.   *)
(* The administrators' handlers of auth.rs and admin.rs change the tables  *)
(* and invalidate the cache, in separate steps and without a transaction.  *)
(*                                                                         *)
(* Time is measured in ages, not in dates, so the model runs for ever: an  *)
(* age stops counting where nothing depends on it any more.                *)
(***************************************************************************)
EXTENDS Integers, FiniteSets

CONSTANTS User, Profile, Permission,
          Admin,        \* the permission admin.access
          Request,      \* requests that are served at the same time
          TTL,          \* PERM_TTL, in ticks
          FetchBound,   \* a query is answered, and cached, within this time
          CacheMax,     \* PERM_CACHE_MAX
          None

ASSUME AdminAssumption == Admin \in Permission
ASSUME BoundsAssumption ==
    TTL \in Nat \ {0} /\ FetchBound \in Nat /\ CacheMax \in Nat \ {0}
ASSUME NoneAssumption ==
    None \notin User \cup Profile /\ User \cap Profile = {}

VARIABLES
    profile,    \* users.profile_id; None once the user is deleted
    grants,     \* profile_permissions
    cache,      \* perm_cache(): an entry, or None, for each user
    req         \* the requests running

vars == <<profile, grants, cache, req>>

(* The query of load_permissions: nothing for a user who is gone. *)
Effective(u) == IF profile[u] = None THEN {} ELSE grants[profile[u]]

(* History: lag counts the ticks since perms was what the tables said. *)
MaxLag == TTL + FetchBound
Entry == [perms : SUBSET Permission, age : 0..TTL, lag : 0..MaxLag]

Idle == [pc |-> "idle", user |-> None, perms |-> {}, age |-> 0, lag |-> 0,
         target |-> None]

TypeOK ==
    /\ profile \in [User -> Profile \cup {None}]
    /\ grants \in [Profile -> SUBSET Permission]
    /\ cache \in [User -> Entry \cup {None}]
    /\ req \in [Request ->
          [pc : {"idle", "fetch", "serve", "invalidate", "grant"},
           user : User \cup {None}, perms : SUBSET Permission,
           age : 0..FetchBound, lag : 0..MaxLag,
           target : User \cup Profile \cup {None}]]
    /\ \A r \in Request :
          /\ req[r].pc \in {"fetch", "serve"} => req[r].user \in User
          /\ req[r].pc = "invalidate" => req[r].target \in User
          /\ req[r].pc = "grant" => req[r].target \in Profile

Init ==
    /\ profile \in [User -> Profile]
    /\ grants \in [Profile -> SUBSET Permission]
    /\ cache = [u \in User |-> None]
    /\ req = [r \in Request |-> Idle]

Become(r, what) == req' = [req EXCEPT ![r] = what]
Return(r) == Become(r, Idle)

-----------------------------------------------------------------------------
(* load_permissions *)
Cached == {u \in User : cache[u] # None}
Fresh(u) == cache[u] # None /\ cache[u].age < TTL

MutantHit(r, u) ==                    \* a hit renews the entry
    /\ req[r].pc = "idle"
    /\ Fresh(u)
    /\ Become(r, [Idle EXCEPT !.pc = "serve", !.user = u,
                              !.perms = cache[u].perms])
    /\ cache' = [cache EXCEPT ![u].age = 0]
    /\ UNCHANGED <<profile, grants>>

Hit(r, u) ==
    /\ req[r].pc = "idle"
    /\ Fresh(u)
    /\ Become(r, [Idle EXCEPT !.pc = "serve", !.user = u,
                              !.perms = cache[u].perms])
    /\ UNCHANGED <<profile, grants, cache>>

(* No lock is held while the database answers. *)
Fetch(r, u) ==
    /\ req[r].pc = "idle"
    /\ ~Fresh(u)
    /\ Become(r, [Idle EXCEPT !.pc = "fetch", !.user = u, !.perms = Effective(u)])
    /\ UNCHANGED <<profile, grants, cache>>

(* A full cache first loses its expired entries, then, if need be, all. *)
MutantEvicted ==                      \* the second check is forgotten
    IF Cardinality(Cached) < CacheMax THEN cache
    ELSE [u \in User |-> IF Fresh(u) THEN cache[u] ELSE None]

Evicted ==
    LET fresh == {u \in User : Fresh(u)}
    IN  CASE Cardinality(Cached) < CacheMax -> cache
          [] Cardinality(Cached) >= CacheMax /\ Cardinality(fresh) < CacheMax ->
                 [u \in User |-> IF u \in fresh THEN cache[u] ELSE None]
          [] OTHER -> [u \in User |-> None]

(* The entry's age counts from here, not from when the tables were read. *)
Install(r) ==
    LET h == req[r]
    IN  /\ h.pc = "fetch"
        /\ cache' = [Evicted EXCEPT ![h.user] =
                        [perms |-> h.perms, age |-> 0, lag |-> h.lag]]
        /\ Become(r, [h EXCEPT !.pc = "serve", !.age = 0, !.lag = 0])
        /\ UNCHANGED <<profile, grants>>

-----------------------------------------------------------------------------
(* What an authorised request does. *)
Authorised(r) == req[r].pc = "serve" /\ Admin \in req[r].perms

(* Any handler that leaves users and profiles alone, or answers 403. *)
Serve(r) ==
    /\ req[r].pc = "serve"
    /\ Return(r)
    /\ UNCHANGED <<profile, grants, cache>>

(* delete_user does not touch the cache. *)
DeleteUser(r, u) ==
    /\ Authorised(r)
    /\ u # req[r].user /\ profile[u] # None
    /\ profile' = [profile EXCEPT ![u] = None]
    /\ Return(r)
    /\ UNCHANGED <<grants, cache>>

MutantAssignProfile(r, u, p) ==       \* the id of the profile is invalidated
    /\ Authorised(r)
    /\ profile[u] # None
    /\ profile' = [profile EXCEPT ![u] = p]
    /\ Become(r, [Idle EXCEPT !.pc = "invalidate", !.target = p])
    /\ UNCHANGED <<grants, cache>>

(* update_user_profile, then invalidate_user_permissions *)
AssignProfile(r, u, p) ==
    /\ Authorised(r)
    /\ profile[u] # None
    /\ profile' = [profile EXCEPT ![u] = p]
    /\ Become(r, [Idle EXCEPT !.pc = "invalidate", !.target = u])
    /\ UNCHANGED <<grants, cache>>

InvalidateUser(r) ==
    /\ req[r].pc = "invalidate"
    /\ cache' = [cache EXCEPT ![req[r].target] = None]
    /\ Return(r)
    /\ UNCHANGED <<profile, grants>>

(* update_profile: a DELETE, then one INSERT per permission; the result of *)
(* each is ignored, so any of them may have failed.                        *)
ReplaceGrants(r, p, S) ==
    /\ Authorised(r)
    /\ \E kept \in {{}, grants[p]} : grants' = [grants EXCEPT ![p] = kept]
    /\ Become(r, [Idle EXCEPT !.pc = "grant", !.target = p, !.perms = S])
    /\ UNCHANGED <<profile, cache>>

GrantNext(r, x) ==
    LET p == req[r].target
    IN  /\ req[r].pc = "grant" /\ x \in req[r].perms
        /\ \E done \in {{}, {x}} : grants' = [grants EXCEPT ![p] = @ \cup done]
        /\ Become(r, [req[r] EXCEPT !.perms = @ \ {x}])
        /\ UNCHANGED <<profile, cache>>

InvalidateAll(r) ==
    /\ req[r].pc = "grant" /\ req[r].perms = {}
    /\ cache' = [u \in User |-> None]
    /\ Return(r)
    /\ UNCHANGED <<profile, grants>>

-----------------------------------------------------------------------------
(* The environment. *)

(* The client hangs up or a query fails: what was done so far stays done. *)
Abandon(r) ==
    /\ req[r].pc # "idle"
    /\ Return(r)
    /\ UNCHANGED <<profile, grants, cache>>

Lag(u, perms, lag) ==
    CASE perms = Effective(u) -> 0
      [] perms # Effective(u) /\ lag < MaxLag -> lag + 1
      [] OTHER -> lag

Tick ==
    /\ \A r \in Request : req[r].pc = "fetch" => req[r].age < FetchBound
    /\ cache' = [u \in User |->
          IF cache[u] = None THEN None
          ELSE [cache[u] EXCEPT !.age = IF @ < TTL THEN @ + 1 ELSE @,
                                !.lag = Lag(u, cache[u].perms, @)]]
    /\ req' = [r \in Request |->
          IF req[r].pc # "fetch" THEN req[r]
          ELSE [req[r] EXCEPT !.age = @ + 1,
                              !.lag = Lag(req[r].user, req[r].perms, @)]]
    /\ UNCHANGED <<profile, grants>>

Start(r) == \E u \in User : Hit(r, u) \/ Fetch(r, u)

Continue(r) ==
    \/ Install(r) \/ Serve(r) \/ InvalidateUser(r) \/ InvalidateAll(r)
    \/ \E x \in Permission : GrantNext(r, x)

Administer(r) ==
    \/ \E u \in User : DeleteUser(r, u)
    \/ \E u \in User, p \in Profile : AssignProfile(r, u, p)
    \/ \E p \in Profile, S \in SUBSET Permission : ReplaceGrants(r, p, S)

Step == Tick \/ \E r \in Request : Start(r) \/ Continue(r) \/ Administer(r)
Next == Step \/ \E r \in Request : Abandon(r)

Fairness == WF_vars(Tick) /\ \A r \in Request : WF_vars(Continue(r))
Spec == Init /\ [][Next]_vars /\ Fairness
UninterruptedSpec == Init /\ [][Step]_vars /\ Fairness

-----------------------------------------------------------------------------
(* Properties *)

(* The cache never holds more users than PERM_CACHE_MAX, also when several *)
(* requests that missed install their entries one after the other.         *)
CacheBounded == Cardinality(Cached) <= CacheMax

(* "Short TTL keeps RBAC changes visible within seconds": a request is let *)
(* in on permissions its caller had less than TTL plus one query ago, even *)
(* if the invalidation was lost or overtaken by an older read.             *)
DecisionsRecent ==
    [][\A r \in Request :
          req[r].pc = "idle" /\ req'[r].pc = "serve"
              => cache[req'[r].user].lag < TTL + FetchBound]_vars

(* Once the permissions of a user no longer change, the cache stops giving *)
(* out anything else, whichever invalidations were lost on the way.        *)
ChangesTakeEffect ==
    \A u \in User : \A S \in SUBSET Permission :
        <>[](Effective(u) = S) => <>[](Fresh(u) => cache[u].perms = S)

(* The comments in update_user_profile and update_profile: the entry is    *)
(* dropped "so the next request re-reads it immediately".  An entry that   *)
(* is put in the cache while no change waits for its invalidation is what  *)
(* the tables say.                                                         *)
InvalidationIsFinal ==
    [][\A r \in Request :
          /\ Install(r)
          /\ \A s \in Request : req[s].pc \notin {"invalidate", "grant"}
          /\ profile[req[r].user] # None
          => req[r].perms = Effective(req[r].user)]_vars
=============================================================================
