------------------------ MODULE ClientSessionProofs ------------------------
(***************************************************************************)
(* Proofs about ClientSession: the types and the mutual exclusion of the   *)
(* store's calls for every set of tabs; what a request, a sign-out and a   *)
(* session may count on, for a browser with one tab, the case that         *)
(* ClientSession states them for.  All of them for every bound.            *)
(***************************************************************************)
EXTENDS ClientSession, FiniteSetTheorems, TLAPS

Kinds == Store \cup Page \cup Open
Statuses == {0, 200, 401, 403, 409, 415, 500}
Requests == [tab : Tab \cup {"nobody"}, kind : Kinds, phase : {"sent", "answered", "waiting"},
             again : BOOLEAN, bearer : Gen, header : Gen, body : Gen, cookies : Keys,
             held : BOOLEAN, status : Statuses, won : Gen]

(* The statuses a request may be answered with; 500 also when it is lost.  *)
Answers(kind) ==
    CASE kind \in Sign     -> {200, 401, 409, 500}
      [] kind = "refresh"  -> {200, 401, 415, 500}
      [] kind = "reset"    -> {200, 500}
      [] OTHER             -> {200, 401, 403, 500}

RequestOK(c) ==
    /\ c \in Requests /\ c.won <= gen
    /\ c.tab = "nobody" => c.phase = "sent"
    /\ c.kind = "refresh" => c.phase # "waiting"
    /\ c.phase # "answered" => c.status = 0
    /\ c.phase = "answered" => c.status \in Answers(c.kind)
    /\ c.won # 0 <=> c.status = 200 /\ c.kind \in Sign \cup {"refresh"}
    /\ c.won # 0 => c.won \in fresh
    /\ c.status = 500 => faults > 0
    /\ c.again /\ c.kind \notin Open /\ c.phase = "sent" => c.bearer \in fresh
    /\ c.again /\ c.kind \notin Open => c.status # 401
    /\ c.kind \in {"logout", "password", "reset"} => ended

RequestsOK == \A c \in calls : RequestOK(c)

Waited == \A c \in calls : c.phase = "waiting" => Of(c.tab, {"refresh"}) # {}

ServerOK ==
    /\ gen \in Gen /\ live \subseteq 1..gen /\ fresh \subseteq 1..gen
    /\ moves \in Nat /\ faults \in Nat /\ ended \in BOOLEAN /\ crossed \in BOOLEAN

(* Tokens begin together, so the cookies are of one generation. *)
JarOK ==
    /\ blocked \in BOOLEAN
    /\ jar = KeysOf(jar.access) /\ jar.access \in 0..gen /\ (blocked => jar.access = 0)

TabsOK ==
    /\ profile \in Profile \cup {None}
    /\ mem \in [Tab -> Keys] /\ store \in [Tab -> [auth : BOOLEAN, loading : BOOLEAN]]
    /\ screen \in [Tab -> {"login", "app", "admin"}]

(* One call of the store and one refresh; the store is loading while it    *)
(* calls, which is what keeps a second call from beginning.                *)
OneCall(t) == \A c, d \in Of(t, Store) : c = d
Busy(t) == Of(t, Store) # {} => store[t].loading
OneRefresh(t) == \A c, d \in Of(t, {"refresh"}) : c = d
Singly == \A t \in Tab : OneCall(t) /\ Busy(t) /\ OneRefresh(t)

Base == ServerOK /\ JarOK /\ TabsOK /\ RequestsOK /\ Waited /\ Singly

-----------------------------------------------------------------------------
(* What the constructors of requests and tokens return.                    *)

AnswerOf(c, s, w) == [Bare(c) EXCEPT !.phase = "answered", !.status = s, !.won = w]

LEMMA KindFacts ==
    /\ \A k : k \in Sign <=> k = "login" \/ k = "register"
    /\ \A k : k \in Store <=> k \in Sign \/ k = "logout" \/ k = "me"
    /\ \A k : k \in Open <=> k \in Sign \/ k = "reset" \/ k = "refresh"
    /\ \A k : k \in Safe <=> k = "me" \/ k = "read" \/ k = "download"
    /\ \A k : k \in Page <=> k = "read" \/ k = "write" \/ k = "download" \/ k = "password"
    /\ \A k : k \in Kinds <=> k \in Store \/ k \in Page \/ k \in Open
BY DEF Sign, Store, Open, Safe, Page, Kinds

LEMMA GenFacts == Gen \subseteq Nat /\ 0 \in Gen /\ 1 \in Gen /\ NoKey \in Keys
BY ClientAssumption DEF Gen, NoKey, Keys

LEMMA KeysOfFacts ==
    ASSUME NEW g \in Gen
    PROVE  KeysOf(g) \in Keys /\ KeysOf(g).access = g /\ KeysOf(g).refresh = g /\ KeysOf(g).csrf = g
BY DEF KeysOf, Keys

LEMMA CookiesFacts ==
    ASSUME ServerOK, JarOK
    PROVE  /\ jar \in Keys /\ jar.refresh = jar.access /\ jar.csrf = jar.access
           /\ Cookies \in Keys /\ Cookies.refresh = jar.access
           /\ Cookies.csrf = Cookies.access
           /\ Cookies.access = IF jar.access \in fresh THEN jar.access ELSE 0
<1>1. jar.access \in Gen
  BY ClientAssumption DEF ServerOK, JarOK, Gen
<1>2. jar = [access |-> jar.access, refresh |-> jar.access, csrf |-> jar.access]
  BY DEF JarOK, KeysOf
<1>3. jar \in Keys /\ jar.refresh = jar.access /\ jar.csrf = jar.access
  BY <1>1, <1>2 DEF Keys
<1>4. /\ DOMAIN jar = {"access", "refresh", "csrf"}
      /\ jar = [n \in {"access", "refresh", "csrf"} |-> jar[n]]
  BY <1>3 DEF Keys
<1>5. /\ Cookies.access = IF jar.access \in fresh THEN jar.access ELSE 0
      /\ Cookies.csrf = IF jar.csrf \in fresh THEN jar.csrf ELSE 0
      /\ Cookies.refresh = jar.refresh
  BY <1>4 DEF Cookies
<1>6. Cookies \in [access : Gen, refresh : Gen, csrf : Gen]
  BY <1>1, <1>3, GenFacts DEF Cookies, Keys
<1> QED BY <1>3, <1>5, <1>6 DEF Keys

LEMMA CsrfFacts ==
    ASSUME ServerOK, JarOK, NEW m \in Keys
    PROVE  Csrf(m) \in Gen /\ Csrf(m) = IF m.csrf # 0 THEN m.csrf ELSE Cookies.access
BY CookiesFacts, GenFacts DEF Csrf, Keys

LEMMA RememberFacts ==
    ASSUME ServerOK, JarOK, NEW m \in Keys, NEW kind
    PROVE  /\ Remember(m, kind) \in Keys
           /\ Remember(m, kind).access = m.access /\ Remember(m, kind).refresh = m.refresh
           /\ Remember(m, kind).csrf = IF kind \in Safe THEN m.csrf ELSE Csrf(m)
BY CsrfFacts DEF Remember, Keys

LEMMA CallFacts ==
    ASSUME ServerOK, JarOK, NEW t \in Tab, NEW kind \in Kinds, NEW m \in Keys,
           NEW x, x = Call(t, kind, m)
    PROVE  /\ x \in Requests
           /\ x.tab = t /\ x.kind = kind /\ x.phase = "sent" /\ ~x.again
           /\ x.bearer = m.access /\ x.body = m.refresh /\ x.cookies = Cookies
           /\ (kind \in Safe => x.header = 0) /\ (kind \notin Safe => x.header = Csrf(m))
           /\ x.held = (m.refresh # 0) /\ x.status = 0 /\ x.won = 0
<1>1. PICK h, a : h = (IF kind \in Safe THEN 0 ELSE Csrf(m)) /\ a = FALSE
  OBVIOUS
<1>2. h \in Gen /\ a \in BOOLEAN /\ m.access \in Gen /\ m.refresh \in Gen /\ Cookies \in Keys
  BY <1>1, CsrfFacts, CookiesFacts, GenFacts DEF Keys
<1>3. x = [tab |-> t, kind |-> kind, phase |-> "sent", again |-> a,
           bearer |-> m.access, header |-> h, body |-> m.refresh, cookies |-> Cookies,
           held |-> m.refresh # 0, status |-> 0, won |-> 0]
  BY <1>1 DEF Call
<1>4. x \in Requests
  BY <1>2, <1>3, GenFacts DEF Requests, Statuses
<1> QED BY <1>1, <1>3, <1>4

(* A request that has just been sent is in order. *)
LEMMA CallOK ==
    ASSUME ServerOK, NEW x \in Requests, x.tab # "nobody", x.phase = "sent", ~x.again,
           x.status = 0, x.won = 0, UNCHANGED <<gen, fresh, faults>>,
           x.kind \in {"logout", "password", "reset"} => ended'
    PROVE  RequestOK(x)'
<1>1. x.won <= gen'
  BY GenFacts DEF ServerOK
<1> QED BY <1>1 DEF RequestOK

LEMMA AnswerFacts ==
    ASSUME NEW c \in Requests, NEW s \in Statuses, NEW w \in Gen,
           NEW x, x = AnswerOf(c, s, w)
    PROVE  /\ x \in Requests
           /\ x.tab = c.tab /\ x.kind = c.kind /\ x.phase = "answered" /\ x.again = c.again
           /\ x.bearer = 0 /\ x.body = 0 /\ x.cookies = NoKey
           /\ x.held = c.held /\ x.status = s /\ x.won = w
<1>1. x = [c EXCEPT !.bearer = 0, !.header = 0, !.body = 0, !.cookies = NoKey,
                    !.phase = "answered", !.status = s, !.won = w]
  BY DEF AnswerOf, Bare, Requests
<1> QED BY <1>1, GenFacts DEF Requests

(* Time makes no request wrong, but the end of an access token may. *)
LEMMA Later ==
    ASSUME NEW c, RequestOK(c), ServerOK, gen' \in Nat, gen <= gen', fresh \subseteq fresh',
           faults' \in Nat, faults <= faults', ended => ended'
    PROVE  RequestOK(c)'
<1>1. c.won \in Nat /\ gen \in Nat /\ faults \in Nat
  BY GenFacts DEF RequestOK, Requests, ServerOK
<1>2. c.won <= gen'
  BY <1>1 DEF RequestOK
<1>3. c.status = 500 => faults' > 0
  BY <1>1 DEF RequestOK
<1> QED BY <1>2, <1>3 DEF RequestOK

-----------------------------------------------------------------------------
(* Answers.                                                                *)

LEMMA AnsweredFacts ==
    ASSUME Base, NEW c \in calls, NEW s \in Statuses, NEW w \in Gen, Answered(c, s, w)
    PROVE  \E x \in Requests :
               /\ calls' = (calls \ {c}) \cup (IF c.tab \in Tab THEN {x} ELSE {})
               /\ x.tab = c.tab /\ x.kind = c.kind /\ x.phase = "answered" /\ x.again = c.again
               /\ x.bearer = 0 /\ x.body = 0 /\ x.cookies = NoKey
               /\ x.held = c.held /\ x.status = s /\ x.won = w
<1>1. c \in Requests
  BY DEF Base, RequestsOK, RequestOK
<1>2. PICK x : x = AnswerOf(c, s, w)
  OBVIOUS
<1>3. calls' = (calls \ {c}) \cup (IF c.tab \in Tab THEN {x} ELSE {})
  BY <1>2 DEF Answered, AnswerOf
<1> QED BY <1>1, <1>2, <1>3, AnswerFacts

(* A request that is answered takes no other's place. *)
LEMMA AnswerSwap ==
    ASSUME Base, NEW c \in calls, NEW s \in Statuses, NEW w \in Gen, Answered(c, s, w),
           store' = store
    PROVE  Waited' /\ Singly'
<1>1. PICK x \in Requests :
          /\ calls' = (calls \ {c}) \cup (IF c.tab \in Tab THEN {x} ELSE {})
          /\ x.tab = c.tab /\ x.kind = c.kind /\ x.phase = "answered"
  BY AnsweredFacts
<1>2. ASSUME NEW d \in calls', d.phase = "waiting" PROVE Of(d.tab, {"refresh"})' # {}
  <2>1. d \in calls /\ d.tab \in Tab
    BY <1>1, <1>2 DEF Base, RequestsOK, RequestOK, Requests
  <2>2. PICK r \in calls : r.tab = d.tab /\ r.kind = "refresh"
    BY <1>2, <2>1 DEF Base, Waited, Of
  <2>3. CASE r = c
    BY <1>1, <2>1, <2>2, <2>3 DEF Of
  <2>4. CASE r # c
    BY <1>1, <2>2, <2>4 DEF Of
  <2> QED BY <2>3, <2>4
<1>3. ASSUME NEW t \in Tab, NEW K, \A d, e \in Of(t, K) : d = e
      PROVE  (\A d, e \in Of(t, K)' : d = e) /\ (Of(t, K)' # {} => Of(t, K) # {})
  BY <1>1, <1>3 DEF Of
<1> QED BY <1>2, <1>3 DEF Waited, Singly, OneCall, OneRefresh, Busy, Base

LEMMA AnswerOK ==
    ASSUME Base, NEW c \in calls, NEW s \in Answers(c.kind), NEW w \in Gen, Answered(c, s, w),
           gen' \in Nat, gen <= gen', fresh \subseteq fresh', faults' \in Nat, faults <= faults',
           ended' = ended, w <= gen', w # 0 <=> s = 200 /\ c.kind \in Sign \cup {"refresh"},
           w # 0 => w \in fresh', s = 500 => faults' > 0,
           c.kind = "refresh" => c.phase # "waiting",
           c.again /\ c.kind \notin Open => s # 401
    PROVE  RequestsOK'
<1>1. s \in Statuses /\ s # 0
  BY DEF Answers, Statuses
<1>2. PICK x \in Requests :
          /\ calls' = (calls \ {c}) \cup (IF c.tab \in Tab THEN {x} ELSE {})
          /\ x.tab = c.tab /\ x.kind = c.kind /\ x.phase = "answered" /\ x.again = c.again
          /\ x.status = s /\ x.won = w
  BY <1>1, AnsweredFacts
<1>3. ASSUME NEW d \in calls PROVE RequestOK(d)'
  BY <1>3, Later DEF Base, RequestsOK
<1>4. RequestOK(c)
  BY DEF Base, RequestsOK
<1>5. ASSUME c.tab \in Tab PROVE RequestOK(x)'
  BY <1>1, <1>2, <1>4, <1>5, ClientAssumption DEF RequestOK
<1> QED BY <1>2, <1>3, <1>5 DEF RequestsOK

(* What serving a request may do, to its answer and to the refresh tokens. *)
Token(c) == IF c.cookies.refresh # 0 THEN c.cookies.refresh ELSE c.body

Served(c, s, w) ==
    /\ Answered(c, s, w)
    /\ s \in Answers(c.kind) /\ s # 500
    /\ w \in 0..gen' /\ (w # 0 <=> s = 200 /\ c.kind \in Sign \cup {"refresh"})
    /\ w # 0 => w \in fresh'
    /\ c.again /\ c.kind \notin Open => s # 401
    /\ gen <= gen' /\ fresh \subseteq fresh' /\ fresh' \subseteq fresh \cup {gen + 1}
    /\ c.kind \in Sign => live \subseteq live' /\ (w # 0 => w \in live')
    /\ c.kind = "refresh" =>
          /\ s = 415 <=> c.body = 0
          /\ s = 415 => live' = live
          /\ s = 401 => live' = {} /\ Token(c) \notin live
          /\ s = 200 => Token(c) \in live /\ live' = (live \ {Token(c)}) \cup {w}
    /\ c.kind = "reset" => live' = {}
    /\ c.kind \notin Open =>
          /\ live' = IF s = 200 /\ c.kind \in {"logout", "password"} THEN {} ELSE live
          /\ s = 403 => Forged(c)
          /\ s # 401 => Identified(c)

LEMMA ServedFacts ==
    ASSUME Base, NEW c \in calls, c.phase = "sent",
           ServeSign(c) \/ ServeRefresh(c) \/ ServeReset(c) \/ ServeProtected(c),
           UNCHANGED <<browser, tabs, moves, faults, ended, crossed>>
    PROVE  ServerOK' /\ \E s, w : Served(c, s, w)
<1>1. /\ gen \in Gen /\ gen \in Nat /\ MaxGen \in Nat /\ live \subseteq 1..gen /\ fresh \subseteq 1..gen
      /\ UNCHANGED <<moves, faults, ended, crossed>>
  BY GenFacts, ClientAssumption DEF Base, ServerOK
<1>2. c \in Requests /\ RequestOK(c) /\ c.kind \in Kinds
  BY DEF Base, RequestsOK, RequestOK, Requests
<1>3. ASSUME Begin
      PROVE  /\ gen' = gen + 1 /\ gen' \in Gen /\ gen' # 0 /\ gen' \in 0..gen' /\ gen <= gen'
             /\ fresh' = fresh \cup {gen + 1} /\ fresh' \subseteq 1..gen'
             /\ \A S : S \subseteq 1..gen => S \cup {gen + 1} \subseteq 1..gen'
  BY <1>1, <1>3 DEF Begin, Gen
<1>4. 0 \in 0..gen
  BY <1>1
<1>5. CASE ServeSign(c)
  <2>1. c.kind \in Sign /\ Answers(c.kind) = {200, 401, 409, 500} /\ c.kind # "refresh" /\ c.kind # "reset"
        /\ c.kind \in Open
    BY <1>5, KindFacts DEF ServeSign, Answers
  <2>2. CASE Begin /\ live' = live \cup {gen + 1} /\ Answered(c, 200, gen + 1)
    <3>1. Served(c, 200, gen + 1)
      BY <1>3, <2>1, <2>2 DEF Served
    <3>2. ServerOK'
      BY <1>1, <1>3, <2>2 DEF ServerOK, Base
    <3> QED BY <3>1, <3>2
  <2>3. CASE Answered(c, IF c.kind = "login" THEN 401 ELSE 409, 0) /\ UNCHANGED <<gen, live, fresh>>
    <3>1. Served(c, IF c.kind = "login" THEN 401 ELSE 409, 0)
      BY <1>1, <1>4, <2>1, <2>3 DEF Served
    <3>2. ServerOK'
      BY <1>1, <2>3 DEF ServerOK, Base
    <3> QED BY <3>1, <3>2
  <2> QED BY <1>5, <2>2, <2>3 DEF ServeSign
<1>6. CASE ServeRefresh(c)
  <2>1. c.kind = "refresh" /\ Answers(c.kind) = {200, 401, 415, 500} /\ c.kind \notin Sign /\ c.kind \in Open
    BY <1>6, KindFacts DEF ServeRefresh, Answers
  <2>2. CASE c.body = 0 /\ Answered(c, 415, 0) /\ UNCHANGED server
    <3>1. Served(c, 415, 0)
      BY <1>1, <1>4, <2>1, <2>2 DEF Served, server
    <3>2. ServerOK'
      BY <1>1, <2>2 DEF ServerOK, Base, server
    <3> QED BY <3>1, <3>2
  <2>3. CASE /\ c.body # 0 /\ Token(c) \in live
             /\ Begin /\ live' = (live \ {Token(c)}) \cup {gen + 1} /\ Answered(c, 200, gen + 1)
    <3>1. Served(c, 200, gen + 1)
      BY <1>3, <2>1, <2>3 DEF Served
    <3>2. live \ {Token(c)} \subseteq 1..gen
      BY <1>1
    <3>3. live' \subseteq 1..gen'
      BY <1>3, <2>3, <3>2
    <3>4. ServerOK'
      BY <1>1, <1>3, <2>3, <3>3 DEF ServerOK, Base
    <3> QED BY <3>1, <3>4
  <2>4. CASE /\ c.body # 0 /\ Token(c) \notin live
             /\ live' = {} /\ Answered(c, 401, 0) /\ UNCHANGED <<gen, fresh>>
    <3>1. Served(c, 401, 0)
      BY <1>1, <1>4, <2>1, <2>4 DEF Served
    <3>2. ServerOK'
      BY <1>1, <2>4 DEF ServerOK, Base
    <3> QED BY <3>1, <3>2
  <2> QED BY <1>6, <2>2, <2>3, <2>4 DEF ServeRefresh, Token
<1>7. CASE ServeReset(c)
  <2>1. c.kind = "reset" /\ Answers(c.kind) = {200, 500} /\ c.kind \notin Sign /\ c.kind \in Open
    BY <1>7, KindFacts DEF ServeReset, Answers
  <2>2. live' = {} /\ Answered(c, 200, 0) /\ UNCHANGED <<gen, fresh>>
    BY <1>7 DEF ServeReset
  <2>3. Served(c, 200, 0)
    BY <1>1, <1>4, <2>1, <2>2 DEF Served
  <2>4. ServerOK'
    BY <1>1, <2>2 DEF ServerOK, Base
  <2> QED BY <2>3, <2>4
<1>8. CASE ServeProtected(c)
  <2>1. c.kind \notin Open /\ c.kind # "refresh" /\ c.kind # "reset" /\ c.kind \notin Sign
    BY <1>8, KindFacts DEF ServeProtected
  <2>2. Answers(c.kind) = {200, 401, 403, 500}
    BY <2>1 DEF Answers
  <2>3. PICK s : s = IF ~Identified(c) THEN 401 ELSE IF Forged(c) THEN 403 ELSE 200
    OBVIOUS
  <2>4. /\ Answered(c, s, 0) /\ UNCHANGED <<gen, fresh>>
        /\ live' = IF s = 200 /\ c.kind \in {"logout", "password"} THEN {} ELSE live
    BY <1>8, <2>3 DEF ServeProtected
  <2>5. /\ s \in {200, 401, 403} /\ (s = 403 => Forged(c)) /\ (s # 401 => Identified(c))
        /\ (s = 401 => ~Identified(c))
    BY <2>3
  <2>6. c.again => s # 401
    <3>1. SUFFICES ASSUME c.again PROVE Identified(c)
      BY <2>5
    <3>2. c.bearer \in fresh
      BY <1>2, <2>1, <3>1 DEF RequestOK
    <3>3. c.bearer # 0
      BY <1>1, <3>2
    <3> QED BY <3>2, <3>3 DEF Identified
  <2>7. Served(c, s, 0)
    BY <1>1, <1>4, <2>1, <2>2, <2>4, <2>5, <2>6 DEF Served
  <2>8. ServerOK'
    BY <1>1, <2>4 DEF ServerOK, Base
  <2> QED BY <2>7, <2>8
<1> QED BY <1>5, <1>6, <1>7, <1>8

LEMMA ServeBase == Base /\ Serve => Base'
<1> SUFFICES ASSUME Base, Serve PROVE Base'
  OBVIOUS
<1>1. PICK c \in calls :
          /\ c.phase = "sent"
          /\ ServeSign(c) \/ ServeRefresh(c) \/ ServeReset(c) \/ ServeProtected(c)
          /\ UNCHANGED <<browser, tabs, moves, faults, ended, crossed>>
  BY DEF Serve
<1>2. PICK s, w : Served(c, s, w) /\ ServerOK'
  BY <1>1, ServedFacts
<1>3. s \in Answers(c.kind) /\ s \in Statuses /\ w \in Gen /\ gen' \in Nat /\ faults \in Nat
  BY <1>2, GenFacts, ClientAssumption DEF Served, Answers, Statuses, ServerOK, Gen, Base
<1>4. UNCHANGED <<jar, blocked, profile, mem, store, screen, faults, ended>>
  BY <1>1 DEF browser, tabs
<1>5. RequestsOK'
  BY <1>1, <1>2, <1>3, <1>4, AnswerOK DEF Served
<1>6. Waited' /\ Singly'
  BY <1>2, <1>3, <1>4, AnswerSwap DEF Served
<1>7. JarOK' /\ TabsOK'
  <2>1. jar.access \in 0..gen => jar.access \in 0..gen'
    BY <1>2, <1>3, GenFacts DEF Served, Base, ServerOK
  <2> QED BY <1>4, <2>1 DEF JarOK, TabsOK, Base
<1> QED BY <1>2, <1>5, <1>6, <1>7 DEF Base

-----------------------------------------------------------------------------
(* The other steps of the server, and of time.                             *)

LEMMA LoseBase == Base /\ Lose => Base'
<1> SUFFICES ASSUME Base, Lose PROVE Base'
  OBVIOUS
<1>1. PICK c \in calls :
          /\ c.phase # "waiting" /\ c.tab \in Tab /\ faults' = faults + 1
          /\ calls' = (calls \ {c}) \cup {[Bare(c) EXCEPT !.phase = "answered", !.status = 500, !.won = 0]}
          /\ UNCHANGED <<server, browser, tabs, moves, ended, crossed>>
  BY DEF Lose
<1>2. Answered(c, 500, 0)
  BY <1>1 DEF Answered
<1>3. UNCHANGED <<gen, live, fresh, jar, blocked, profile, mem, store, screen, moves, ended, crossed>>
  BY <1>1 DEF server, browser, tabs
<1>4. 500 \in Answers(c.kind) /\ 500 \in Statuses /\ 0 \in Gen /\ faults \in Nat /\ gen \in Nat
  BY GenFacts DEF Answers, Statuses, Base, ServerOK
<1>5. RequestsOK'
  <2>1. faults' \in Nat /\ faults <= faults' /\ faults' > 0 /\ gen' \in Nat /\ gen <= gen' /\ 0 <= gen'
    BY <1>1, <1>3, <1>4
  <2> QED BY <1>1, <1>2, <1>3, <1>4, <2>1, AnswerOK
<1>6. Waited' /\ Singly'
  BY <1>2, <1>3, <1>4, AnswerSwap
<1>7. ServerOK' /\ JarOK' /\ TabsOK'
  BY <1>1, <1>3, <1>4 DEF ServerOK, JarOK, TabsOK, Base
<1> QED BY <1>5, <1>6, <1>7 DEF Base

LEMMA ExpireBase == Base /\ Expire => Base'
<1> SUFFICES ASSUME Base, Expire PROVE Base'
  OBVIOUS
<1>1. PICK g \in fresh :
          /\ \A c \in calls : c.won # g /\ ~(c.again /\ c.bearer = g)
          /\ fresh' = fresh \ {g}
          /\ UNCHANGED <<gen, live, browser, tabs, calls, moves, faults, ended, crossed>>
  BY DEF Expire
<1>2. UNCHANGED <<gen, live, jar, blocked, profile, mem, store, screen, calls, moves, faults, ended, crossed>>
  BY <1>1 DEF browser, tabs
<1>3. ASSUME NEW c \in calls PROVE RequestOK(c)'
  <2>1. RequestOK(c)
    BY DEF Base, RequestsOK
  <2> QED BY <1>1, <1>2, <2>1 DEF RequestOK
<1>4. RequestsOK'
  BY <1>2, <1>3 DEF RequestsOK
<1>5. Waited' /\ Singly'
  BY <1>2 DEF Waited, Singly, OneCall, OneRefresh, Busy, Of, Base
<1>6. ServerOK' /\ JarOK' /\ TabsOK'
  BY <1>1, <1>2 DEF ServerOK, JarOK, TabsOK, Base
<1> QED BY <1>4, <1>5, <1>6 DEF Base

-----------------------------------------------------------------------------
(* The steps of the client that end a request.                             *)

LEMMA StoredFacts ==
    ASSUME Base, NEW c \in calls
    PROVE  /\ Stored(c) = KeysOf(Stored(c).access) /\ Stored(c).access \in 0..gen
           /\ Stored(c) \in Keys
           /\ blocked => Stored(c) = jar /\ Stored(c).access = 0
           /\ ~blocked /\ c.won # 0 => Stored(c).access = c.won
           /\ ~blocked /\ c.won = 0 /\ ~(c.kind = "logout" /\ c.status = 200) => Stored(c) = jar
           /\ ~blocked /\ c.kind = "logout" /\ c.status = 200 => Stored(c).access = 0
<1>1. /\ blocked \in BOOLEAN /\ jar = KeysOf(jar.access) /\ jar.access \in 0..gen
      /\ (blocked => jar.access = 0) /\ c.won \in Gen /\ c.won <= gen /\ gen \in Nat /\ MaxGen \in Nat
      /\ gen <= MaxGen
      /\ c.kind = "logout" => c.won = 0
  BY ClientAssumption, KindFacts DEF Base, JarOK, ServerOK, RequestsOK, RequestOK, Requests, Gen
<1>2. NoKey = KeysOf(0) /\ 0 \in 0..gen /\ c.won \in 0..gen /\ 0..gen \subseteq Gen
  BY <1>1 DEF NoKey, KeysOf, Gen
<1>3. \A g \in 0..gen : KeysOf(g) \in Keys /\ KeysOf(g).access = g
  BY <1>2, KeysOfFacts
<1>4. \/ blocked /\ Stored(c) = jar
      \/ ~blocked /\ c.won # 0 /\ Stored(c) = KeysOf(c.won)
      \/ ~blocked /\ c.won = 0 /\ c.kind = "logout" /\ c.status = 200 /\ Stored(c) = KeysOf(0)
      \/ ~blocked /\ c.won = 0 /\ ~(c.kind = "logout" /\ c.status = 200) /\ Stored(c) = jar
  <2>1. CASE blocked
    BY <2>1 DEF Stored
  <2>2. CASE ~blocked /\ c.won # 0
    BY <1>1, <2>2 DEF Stored
  <2>3. CASE ~blocked /\ c.won = 0 /\ c.kind = "logout" /\ c.status = 200
    BY <1>2, <2>3 DEF Stored
  <2>4. CASE ~blocked /\ c.won = 0 /\ ~(c.kind = "logout" /\ c.status = 200)
    BY <2>4 DEF Stored
  <2> QED BY <1>1, <2>1, <2>2, <2>3, <2>4
<1>5. PICK j : j = Stored(c)
  OBVIOUS
<1>6. \/ j = jar /\ j.access = jar.access
      \/ j = KeysOf(c.won) /\ j.access = c.won
      \/ j = KeysOf(0) /\ j.access = 0
  BY <1>1, <1>2, <1>3, <1>4, <1>5
<1>7. j = KeysOf(j.access) /\ j.access \in 0..gen /\ j \in Keys
  BY <1>1, <1>2, <1>3, <1>6
<1>8. blocked => j = jar /\ j.access = 0
  BY <1>1, <1>4, <1>5
<1>9. ~blocked /\ c.won # 0 => j.access = c.won
  BY <1>2, <1>3, <1>4, <1>5
<1>10. ~blocked /\ c.won = 0 /\ ~(c.kind = "logout" /\ c.status = 200) => j = jar
  BY <1>4, <1>5
<1>11. ~blocked /\ c.kind = "logout" /\ c.status = 200 => j.access = 0
  BY <1>1, <1>2, <1>3, <1>4, <1>5
<1> QED BY <1>5, <1>7, <1>8, <1>9, <1>10, <1>11

LEMMA AfterFacts ==
    ASSUME Base, NEW c \in calls, NEW m \in Keys, NEW ok \in BOOLEAN,
           NEW s \in [auth : BOOLEAN, loading : BOOLEAN], NEW p \in {"login", "app", "admin"}
    PROVE  /\ MemAfter(m, c.kind, ok, c.won) \in Keys
           /\ StoreAfter(s, c.kind, ok) \in [auth : BOOLEAN, loading : BOOLEAN]
           /\ c.kind \notin Store => StoreAfter(s, c.kind, ok) = s
           /\ ScreenAfter(p, c.kind, ok) \in {"login", "app", "admin"}
<1>1. c.won \in Gen
  BY DEF Base, RequestsOK, RequestOK, Requests
<1>2. MemAfter(m, c.kind, ok, c.won) \in Keys
  BY <1>1, GenFacts DEF MemAfter, Keys
<1>3. StoreAfter(s, c.kind, ok) \in [auth : BOOLEAN, loading : BOOLEAN]
  BY DEF StoreAfter
<1>4. c.kind \notin Store => StoreAfter(s, c.kind, ok) = s
  BY KindFacts DEF StoreAfter
<1> QED BY <1>2, <1>3, <1>4 DEF ScreenAfter

LEMMA FinishBase == ASSUME Base, NEW c \in calls, Finish(c) PROVE Base'
<1> DEFINE t == c.tab  ok == c.status = 200
<1>1. /\ c.phase = "answered" /\ c.kind # "refresh"
      /\ calls' = calls \ {c} /\ jar' = Stored(c)
      /\ mem' = [mem EXCEPT ![t] = MemAfter(mem[t], c.kind, ok, c.won)]
      /\ store' = [store EXCEPT ![t] = StoreAfter(store[t], c.kind, ok)]
      /\ screen' = [screen EXCEPT ![t] = ScreenAfter(screen[t], c.kind, ok)]
      /\ UNCHANGED <<gen, live, fresh, blocked, profile, moves, faults, ended, crossed>>
  BY DEF Finish, server
<1>2. t \in Tab /\ c.kind \in Kinds
  BY <1>1 DEF Base, RequestsOK, RequestOK, Requests
<1>3. /\ mem \in [Tab -> Keys] /\ store \in [Tab -> [auth : BOOLEAN, loading : BOOLEAN]]
      /\ screen \in [Tab -> {"login", "app", "admin"}]
  BY DEF Base, TabsOK
<1> ok \in BOOLEAN
  OBVIOUS
<1> HIDE DEF ok
<1>4. /\ MemAfter(mem[t], c.kind, ok, c.won) \in Keys
      /\ StoreAfter(store[t], c.kind, ok) \in [auth : BOOLEAN, loading : BOOLEAN]
      /\ c.kind \notin Store => StoreAfter(store[t], c.kind, ok) = store[t]
      /\ ScreenAfter(screen[t], c.kind, ok) \in {"login", "app", "admin"}
  BY <1>2, <1>3, AfterFacts
<1>5. TabsOK'
  BY <1>1, <1>2, <1>3, <1>4 DEF TabsOK, Base
<1>6. JarOK'
  BY <1>1, StoredFacts DEF JarOK, Base
<1>7. ServerOK'
  BY <1>1 DEF ServerOK, Base
<1>8. RequestsOK'
  BY <1>1 DEF RequestsOK, RequestOK, Base
<1>9. Waited'
  BY <1>1 DEF Waited, Of, Base
<1>10. ASSUME NEW u \in Tab PROVE OneCall(u)' /\ OneRefresh(u)' /\ Busy(u)'
  <2>1. \A K : Of(u, K)' = Of(u, K) \ {c}
    BY <1>1 DEF Of
  <2>2. OneCall(u)' /\ OneRefresh(u)'
    BY <2>1 DEF OneCall, OneRefresh, Base, Singly
  <2>3. CASE u # t \/ c.kind \notin Store
    <3>1. store'[u] = store[u]
      BY <1>1, <1>2, <1>3, <1>4, <2>3
    <3>2. Busy(u)
      BY DEF Base, Singly
    <3> QED BY <2>1, <2>2, <3>1, <3>2 DEF Busy
  <2>4. CASE u = t /\ c.kind \in Store
    <3>1. c \in Of(u, Store)
      BY <2>4 DEF Of
    <3>2. Of(u, Store)' = {}
      BY <2>1, <3>1 DEF OneCall, Base, Singly
    <3> QED BY <2>2, <3>2 DEF Busy
  <2> QED BY <2>2, <2>3, <2>4
<1> QED BY <1>5, <1>6, <1>7, <1>8, <1>9, <1>10 DEF Base, Singly

LEMMA RefreshFacts ==
    ASSUME Base, NEW t \in Tab
    PROVE  \/ Of(t, {"refresh"}) # {} /\ Refresh(t) = {}
           \/ /\ Of(t, {"refresh"}) = {}
              /\ \E r \in Requests :
                    /\ Refresh(t) = {r} /\ RequestOK(r)
                    /\ r.tab = t /\ r.kind = "refresh" /\ r.phase = "sent"
                    /\ r.body = mem[t].refresh /\ r.cookies = Cookies
                    /\ r.held = (mem[t].refresh # 0) /\ r.status = 0 /\ r.won = 0
<1>1. mem[t] \in Keys /\ ServerOK /\ JarOK /\ gen \in Nat
  BY GenFacts DEF Base, TabsOK, ServerOK
<1>2. PICK r, m : m = mem[t] /\ r = Call(t, "refresh", m)
  OBVIOUS
<1>3. "refresh" \in Kinds /\ m \in Keys
  BY <1>1, <1>2, KindFacts
<1>4. /\ r \in Requests
      /\ r.tab = t /\ r.kind = "refresh" /\ r.phase = "sent" /\ ~r.again
      /\ r.body = m.refresh /\ r.cookies = Cookies
      /\ r.held = (m.refresh # 0) /\ r.status = 0 /\ r.won = 0
  BY <1>1, <1>2, <1>3, CallFacts
<1>5. t # "nobody"
  BY ClientAssumption
<1>6. RequestOK(r)
  BY <1>1, <1>4, <1>5, KindFacts DEF RequestOK
<1> QED BY <1>2, <1>4, <1>6 DEF Refresh

LEMMA UnauthorizedBase == ASSUME Base, NEW c \in calls, Unauthorized(c) PROVE Base'
<1>1. PICK x : x = [c EXCEPT !.phase = "waiting", !.status = 0]
  OBVIOUS
<1>2. /\ c.phase = "answered" /\ c.kind # "refresh" /\ c.status = 401 /\ ~c.again
      /\ calls' = (calls \ {c}) \cup {x} \cup Refresh(c.tab)
      /\ UNCHANGED <<gen, live, fresh, jar, blocked, profile, mem, store, screen, moves, faults, ended, crossed>>
  BY <1>1 DEF Unauthorized, server, browser, tabs
<1>3. c \in Requests /\ RequestOK(c) /\ c.won = 0
  BY <1>2 DEF Base, RequestsOK, RequestOK
<1>4. c.tab \in Tab
  BY <1>2, <1>3 DEF RequestOK, Requests
<1>5. /\ x \in Requests /\ x.tab = c.tab /\ x.kind = c.kind /\ x.phase = "waiting"
      /\ x.again = c.again /\ x.status = 0 /\ x.won = c.won
  <2>1. c \in Requests /\ 0 \in Statuses
    BY <1>3 DEF Statuses
  <2>2. x \in Requests
    BY <1>1, <2>1 DEF Requests
  <2> QED BY <1>1, <2>1, <2>2 DEF Requests
<1>6. gen \in Nat /\ c.tab # "nobody"
  BY <1>4, ClientAssumption, GenFacts DEF Base, ServerOK
<1>7. RequestOK(x)
  BY <1>2, <1>3, <1>5, <1>6 DEF RequestOK
<1>8. \A d : RequestOK(d) => RequestOK(d)'
  BY <1>2 DEF RequestOK
<1>9. \A r \in Refresh(c.tab) : RequestOK(r) /\ r.tab = c.tab /\ r.kind = "refresh" /\ r.phase = "sent"
  BY <1>4, RefreshFacts
<1>10. RequestsOK'
  BY <1>2, <1>7, <1>8, <1>9 DEF RequestsOK, Base
<1>11. Of(c.tab, {"refresh"})' # {}
  <2>1. CASE Of(c.tab, {"refresh"}) # {}
    BY <1>2, <2>1 DEF Of
  <2>2. CASE Of(c.tab, {"refresh"}) = {}
    <3>1. PICK r : r \in Refresh(c.tab) /\ r.tab = c.tab /\ r.kind = "refresh"
      BY <1>4, <2>2, RefreshFacts
    <3> QED BY <1>2, <3>1 DEF Of
  <2> QED BY <2>1, <2>2
<1>12. Waited'
  <2>1. SUFFICES ASSUME NEW d \in calls', d.phase = "waiting", d.tab # c.tab
                 PROVE  Of(d.tab, {"refresh"})' # {}
    BY <1>11 DEF Waited
  <2>2. d \in calls
    BY <1>2, <1>5, <1>9, <2>1
  <2>3. PICK r \in calls : r.tab = d.tab /\ r.kind = "refresh"
    BY <2>1, <2>2 DEF Base, Waited, Of
  <2> QED BY <1>2, <2>1, <2>3 DEF Of
<1>13. ASSUME NEW u \in Tab PROVE OneCall(u)' /\ OneRefresh(u)' /\ Busy(u)'
  <2>1. OneCall(u) /\ OneRefresh(u) /\ Busy(u)
    BY DEF Base, Singly
  <2>2. Of(u, Store)' = {d \in (calls \ {c}) \cup {x} : d.tab = u /\ d.kind \in Store}
    BY <1>2, <1>9, KindFacts DEF Of
  <2>3. OneCall(u)' /\ (Of(u, Store)' # {} => Of(u, Store) # {})
    BY <1>5, <2>1, <2>2 DEF OneCall, Of
  <2>4. Busy(u)'
    BY <1>2, <2>1, <2>3 DEF Busy
  <2>5. Of(u, {"refresh"})' = Of(u, {"refresh"}) \cup {r \in Refresh(c.tab) : r.tab = u}
    BY <1>2, <1>5, <1>9 DEF Of
  <2>6. OneRefresh(u)'
    <3>1. CASE u # c.tab
      BY <1>9, <2>1, <2>5, <3>1 DEF OneRefresh
    <3>2. CASE u = c.tab /\ Of(u, {"refresh"}) # {}
      BY <2>1, <2>5, <3>2, RefreshFacts DEF OneRefresh
    <3>3. CASE u = c.tab /\ Of(u, {"refresh"}) = {}
      <4>1. PICK r : Refresh(u) = {r}
        BY <3>3, RefreshFacts
      <4> QED BY <2>5, <3>3, <4>1 DEF OneRefresh
    <3> QED BY <3>1, <3>2, <3>3
  <2> QED BY <2>3, <2>4, <2>6
<1>14. ServerOK' /\ JarOK' /\ TabsOK'
  BY <1>2 DEF ServerOK, JarOK, TabsOK, Base
<1> QED BY <1>10, <1>12, <1>13, <1>14 DEF Base, Singly

(* A request sent again after a refresh. *)
Resent(c, w, m) ==
    [Call(c.tab, w.kind, m) EXCEPT !.again = TRUE, !.cookies = [Stored(c) EXCEPT
         !.access = IF @ \in fresh THEN @ ELSE 0,
         !.csrf   = IF @ \in fresh THEN @ ELSE 0], !.held = w.held]

LEMMA ResentFacts ==
    ASSUME Base, NEW c \in calls, c.tab \in Tab, NEW w \in Waiting(c.tab), NEW m \in Keys,
           NEW x, x = Resent(c, w, m)
    PROVE  /\ x \in Requests
           /\ x.tab = c.tab /\ x.kind = w.kind /\ x.phase = "sent" /\ x.again
           /\ x.bearer = m.access /\ x.body = m.refresh
           /\ x.cookies.csrf = x.cookies.access /\ x.cookies.refresh = Stored(c).access
           /\ Stored(c).access \in fresh => x.cookies.access = Stored(c).access
           /\ Stored(c).access \notin fresh => x.cookies.access = 0
           /\ (w.kind \in Safe => x.header = 0) /\ (w.kind \notin Safe => x.header = Csrf(m))
           /\ x.held = w.held /\ x.status = 0 /\ x.won = 0
<1>1. PICK a, y, j, k :
          /\ a = TRUE /\ y = Call(c.tab, w.kind, m) /\ j = Stored(c)
          /\ k = [j EXCEPT !.access = IF j.access \in fresh THEN j.access ELSE 0,
                           !.csrf   = IF j.csrf \in fresh THEN j.csrf ELSE 0]
  OBVIOUS
<1>2. w.kind \in Kinds /\ w.held \in BOOLEAN /\ ServerOK /\ JarOK /\ a \in BOOLEAN /\ a
  BY <1>1 DEF Waiting, Base, RequestsOK, RequestOK, Requests
<1>3. /\ y \in Requests
      /\ y.tab = c.tab /\ y.kind = w.kind /\ y.phase = "sent"
      /\ y.bearer = m.access /\ y.body = m.refresh
      /\ (w.kind \in Safe => y.header = 0) /\ (w.kind \notin Safe => y.header = Csrf(m))
      /\ y.status = 0 /\ y.won = 0
  BY <1>1, <1>2, CallFacts
<1>4. j \in Keys /\ j.access \in Gen /\ j.refresh = j.access /\ j.csrf = j.access
  BY <1>1, StoredFacts, KeysOfFacts DEF Keys
<1>5. /\ k \in Keys /\ (j.access \in fresh => k.access = j.access)
      /\ (j.access \notin fresh => k.access = 0)
      /\ k.csrf = k.access /\ k.refresh = j.access
  <2>1. k \in [access : Gen, refresh : Gen, csrf : Gen]
    BY <1>1, <1>4, GenFacts DEF Keys
  <2>2. j = [n \in {"access", "refresh", "csrf"} |-> j[n]]
    BY <1>4 DEF Keys
  <2>3. /\ k.access = (IF j.access \in fresh THEN j.access ELSE 0)
        /\ k.csrf = (IF j.csrf \in fresh THEN j.csrf ELSE 0) /\ k.refresh = j.refresh
    BY <1>1, <2>2
  <2> QED BY <1>4, <2>1, <2>3 DEF Keys
<1>6. x = [y EXCEPT !.again = a, !.cookies = k, !.held = w.held]
  BY <1>1 DEF Resent
<1>7. x \in Requests
  BY <1>2, <1>3, <1>5, <1>6 DEF Requests
<1>8. /\ x.tab = y.tab /\ x.kind = y.kind /\ x.phase = y.phase /\ x.again = a
      /\ x.bearer = y.bearer /\ x.body = y.body /\ x.header = y.header
      /\ x.cookies = k /\ x.held = w.held /\ x.status = y.status /\ x.won = y.won
  BY <1>3, <1>6 DEF Requests
<1>9. x.cookies.csrf = x.cookies.access /\ x.cookies.refresh = j.access
  BY <1>5, <1>8
<1> QED BY <1>1, <1>2, <1>3, <1>5, <1>7, <1>8, <1>9

LEMMA RefreshedFacts ==
    ASSUME Base, NEW c \in calls, Refreshed(c)
    PROVE  /\ c.tab \in Tab /\ c.phase = "answered" /\ c.kind = "refresh" /\ c.status = 200
           /\ c.won # 0 /\ c.won \in Gen /\ c.won \in fresh
           /\ jar' = Stored(c)
           /\ UNCHANGED <<gen, live, fresh, blocked, profile, store, screen, moves, faults, ended, crossed>>
           /\ \E m \in Keys :
                 /\ m.access = c.won /\ m.refresh = c.won /\ m.csrf = Stored(c).access
                 /\ mem' = [mem EXCEPT ![c.tab] = m]
                 /\ calls' = (calls \ ({c} \cup Waiting(c.tab)))
                                \cup {Resent(c, w, m) : w \in Waiting(c.tab)}
<1>1. PICK m : m = TokensAfter(mem[c.tab], c)
  OBVIOUS
<1>0. calls' = (calls \ ({c} \cup Waiting(c.tab)))
                  \cup {Resent(c, w, TokensAfter(mem[c.tab], c)) : w \in Waiting(c.tab)}
  BY DEF Refreshed, Resent
<1>2. /\ c.phase = "answered" /\ c.kind = "refresh" /\ c.status = 200 /\ jar' = Stored(c)
      /\ mem' = [mem EXCEPT ![c.tab] = m]
      /\ calls' = (calls \ ({c} \cup Waiting(c.tab)))
                     \cup {Resent(c, w, m) : w \in Waiting(c.tab)}
      /\ UNCHANGED <<gen, live, fresh, blocked, profile, store, screen, moves, faults, ended, crossed>>
  <2>1. c.phase = "answered" /\ c.kind = "refresh" /\ c.status = 200 /\ jar' = Stored(c)
    BY DEF Refreshed
  <2>2. mem' = [mem EXCEPT ![c.tab] = TokensAfter(mem[c.tab], c)]
    BY DEF Refreshed
  <2>3. UNCHANGED <<gen, live, fresh, blocked, profile, store, screen, moves, faults, ended, crossed>>
    BY DEF Refreshed, server
  <2> QED BY <1>0, <1>1, <2>1, <2>2, <2>3
<1>3. c \in Requests /\ RequestOK(c)
  BY DEF Base, RequestsOK, RequestOK
<1>4. c.tab \in Tab /\ c.won # 0 /\ c.won \in Gen /\ c.won \in fresh
  BY <1>2, <1>3 DEF RequestOK, Requests
<1>5. Stored(c).csrf = Stored(c).access /\ Stored(c).access \in Gen
  BY StoredFacts, KeysOfFacts DEF Keys
<1>6. /\ m \in Keys /\ m.access = c.won /\ m.refresh = c.won /\ m.csrf = Stored(c).access
  BY <1>1, <1>4, <1>5 DEF TokensAfter, Keys
<1> QED BY <1>2, <1>4, <1>6

LEMMA RefreshedBase == ASSUME Base, NEW c \in calls, Refreshed(c) PROVE Base'
<1> DEFINE t == c.tab
<1>1. /\ t \in Tab /\ c.phase = "answered" /\ c.kind = "refresh" /\ c.status = 200
      /\ c.won # 0 /\ c.won \in Gen /\ c.won \in fresh
      /\ jar' = Stored(c)
      /\ UNCHANGED <<gen, live, fresh, blocked, profile, store, screen, moves, faults, ended, crossed>>
  BY RefreshedFacts
<1>2. PICK m \in Keys :
          /\ m.access = c.won /\ m.refresh = c.won /\ m.csrf = Stored(c).access
          /\ mem' = [mem EXCEPT ![t] = m]
          /\ calls' = (calls \ ({c} \cup Waiting(t))) \cup {Resent(c, w, m) : w \in Waiting(t)}
  BY RefreshedFacts
<1>3. ASSUME NEW d \in calls' PROVE
          \/ d \in calls /\ d \notin Waiting(t) /\ d # c
          \/ \E w \in Waiting(t) : d = Resent(c, w, m)
  BY <1>2
<1>4. ASSUME NEW w \in Waiting(t), NEW x, x = Resent(c, w, m)
      PROVE  /\ x.tab = t /\ x.kind = w.kind /\ x.kind # "refresh" /\ x.phase = "sent" /\ RequestOK(x)'
  <2>1. /\ x \in Requests
        /\ x.tab = t /\ x.kind = w.kind /\ x.phase = "sent" /\ x.again
        /\ x.bearer = m.access /\ x.status = 0 /\ x.won = 0
    BY <1>1, <1>4, ResentFacts
  <2>2. w \in calls /\ w.phase = "waiting" /\ RequestOK(w)
    BY DEF Waiting, Base, RequestsOK
  <2>3. w.kind # "refresh" /\ (w.kind \in {"logout", "password", "reset"} => ended)
    BY <2>2 DEF RequestOK
  <2>4. t # "nobody" /\ gen \in Nat
    BY <1>1, ClientAssumption, GenFacts DEF Base, ServerOK
  <2> QED BY <1>1, <1>2, <2>1, <2>3, <2>4 DEF RequestOK
<1>5. RequestsOK'
  <2>1. \A d \in calls : RequestOK(d)'
    BY <1>1 DEF Base, RequestsOK, RequestOK
  <2> QED BY <1>3, <1>4, <2>1 DEF RequestsOK
<1>6. Waited'
  <2>1. SUFFICES ASSUME NEW d \in calls', d.phase = "waiting" PROVE Of(d.tab, {"refresh"})' # {}
    BY DEF Waited
  <2>2. d \in calls /\ d.tab # t
    BY <1>3, <1>4, <2>1 DEF Waiting
  <2>3. PICK r \in calls : r.tab = d.tab /\ r.kind = "refresh"
    BY <2>1, <2>2 DEF Base, Waited, Of
  <2>4. r \in calls'
    BY <1>2, <2>2, <2>3 DEF Waiting
  <2> QED BY <2>3, <2>4 DEF Of
<1>7. ASSUME NEW u \in Tab PROVE OneCall(u)' /\ OneRefresh(u)' /\ Busy(u)'
  <2>1. OneCall(u) /\ OneRefresh(u) /\ Busy(u)
    BY DEF Base, Singly
  <2>2. ASSUME NEW d \in Of(u, Store)' PROVE
            \E o \in Of(u, Store) : IF o \in Waiting(t) THEN d = Resent(c, o, m) ELSE d = o
    <3>1. d \in calls' /\ d.tab = u /\ d.kind \in Store
      BY <2>2 DEF Of
    <3>2. CASE d \in calls /\ d \notin Waiting(t) /\ d # c
      BY <3>1, <3>2 DEF Of
    <3>3. ASSUME NEW w \in Waiting(t), d = Resent(c, w, m)
          PROVE  \E o \in Of(u, Store) : IF o \in Waiting(t) THEN d = Resent(c, o, m) ELSE d = o
      <4>1. w \in Of(u, Store)
        BY <1>4, <3>1, <3>3 DEF Of, Waiting
      <4> QED BY <3>3, <4>1
    <3> QED BY <1>3, <3>1, <3>2, <3>3
  <2>3. OneCall(u)'
    BY <2>1, <2>2 DEF OneCall
  <2>4. Busy(u)'
    BY <1>1, <2>1, <2>2 DEF Busy
  <2>5. Of(u, {"refresh"})' \subseteq Of(u, {"refresh"})
    BY <1>3, <1>4 DEF Of
  <2>6. OneRefresh(u)'
    BY <2>1, <2>5 DEF OneRefresh
  <2> QED BY <2>3, <2>4, <2>6
<1>8. TabsOK'
  BY <1>1, <1>2 DEF TabsOK, Base
<1>9. JarOK' /\ ServerOK'
  BY <1>1, StoredFacts DEF JarOK, ServerOK, Base
<1> QED BY <1>5, <1>6, <1>7, <1>8, <1>9 DEF Base, Singly

LEMMA RefreshFailedBase == ASSUME Base, NEW c \in calls, RefreshFailed(c) PROVE Base'
<1> DEFINE t == c.tab
<1>1. /\ c.phase = "answered" /\ c.kind = "refresh"
      /\ calls' = calls \ ({c} \cup Waiting(t))
      /\ mem' = [mem EXCEPT ![t] = NoKey]
      /\ store' = [store EXCEPT ![t] = [auth |-> FALSE,
                       loading |-> store[t].loading /\ Waiting(t) \cap Of(t, Store) = {}]]
      /\ screen' = [screen EXCEPT ![t] =
                       IF Waiting(t) \cap Of(t, {"logout"}) # {} THEN "login" ELSE screen[t]]
      /\ UNCHANGED <<gen, live, fresh, jar, blocked, profile, moves, faults, ended, crossed>>
  BY DEF RefreshFailed, server, browser
<1>2. t \in Tab
  BY <1>1 DEF Base, RequestsOK, RequestOK, Requests
<1>3. RequestsOK'
  BY <1>1 DEF RequestsOK, RequestOK, Base
<1>4. Waited'
  <2>1. SUFFICES ASSUME NEW d \in calls', d.phase = "waiting" PROVE Of(d.tab, {"refresh"})' # {}
    BY DEF Waited
  <2>2. d \in calls /\ d.tab # t
    BY <1>1, <2>1 DEF Waiting
  <2>3. PICK r \in calls : r.tab = d.tab /\ r.kind = "refresh"
    BY <2>1, <2>2 DEF Base, Waited, Of
  <2>4. r \in calls'
    BY <1>1, <2>2, <2>3 DEF Waiting
  <2> QED BY <2>3, <2>4 DEF Of
<1>5. ASSUME NEW u \in Tab PROVE OneCall(u)' /\ OneRefresh(u)' /\ Busy(u)'
  <2>1. OneCall(u) /\ OneRefresh(u) /\ Busy(u) /\ store \in [Tab -> [auth : BOOLEAN, loading : BOOLEAN]]
    BY DEF Base, Singly, TabsOK
  <2>2. \A K : Of(u, K)' = Of(u, K) \ ({c} \cup Waiting(t))
    BY <1>1 DEF Of
  <2>3. OneCall(u)' /\ OneRefresh(u)'
    BY <2>1, <2>2 DEF OneCall, OneRefresh
  <2>4. CASE u # t
    <3>1. PICK s : store' = [store EXCEPT ![t] = s]
      BY <1>1
    <3>2. store'[u] = store[u]
      BY <2>1, <2>4, <3>1
    <3> QED BY <2>1, <2>2, <2>3, <3>2 DEF Busy
  <2>5. CASE u = t
    <3>1. SUFFICES ASSUME NEW d \in Of(u, Store)' PROVE store'[u].loading
      BY <2>3 DEF Busy
    <3>2. d \in Of(u, Store) /\ d \notin Waiting(t)
      BY <2>2, <3>1
    <3>3. Waiting(t) \cap Of(t, Store) = {} /\ store[t].loading
      BY <2>1, <2>5, <3>2 DEF OneCall, Busy
    <3>4. store'[t] = [auth |-> FALSE, loading |-> TRUE]
      BY <1>1, <1>2, <2>1, <3>3
    <3> QED BY <2>5, <3>4
  <2> QED BY <2>3, <2>4, <2>5
<1>6. TabsOK'
  BY <1>1, <1>2, GenFacts DEF TabsOK, Base
<1>7. JarOK' /\ ServerOK'
  BY <1>1 DEF JarOK, ServerOK, Base
<1> QED BY <1>3, <1>4, <1>5, <1>6, <1>7 DEF Base, Singly

-----------------------------------------------------------------------------
(* The steps of the user and of the router.                                *)

LEMMA SendFacts ==
    ASSUME Base, NEW t \in Tab, NEW kind \in Kinds, Send(t, kind)
    PROVE  \E x \in Requests, m \in Keys :
              /\ x.tab = t /\ x.kind = kind /\ x.phase = "sent" /\ ~x.again
              /\ x.bearer = mem[t].access /\ x.body = mem[t].refresh /\ x.cookies = Cookies
              /\ (kind \in Safe => x.header = 0) /\ (kind \notin Safe => x.header = Csrf(mem[t]))
              /\ x.held = (mem[t].refresh # 0) /\ x.status = 0 /\ x.won = 0
              /\ calls' = calls \cup {x}
              /\ mem' = [mem EXCEPT ![t] = m]
              /\ m.access = mem[t].access /\ m.refresh = mem[t].refresh
              /\ (kind \in Safe => m.csrf = mem[t].csrf)
              /\ (kind \notin Safe => m.csrf = Csrf(mem[t]))
<1>1. PICK x, m, n : n = mem[t] /\ x = Call(t, kind, n) /\ m = Remember(n, kind)
  OBVIOUS
<1>2. n \in Keys /\ ServerOK /\ JarOK
  BY <1>1 DEF Base, TabsOK
<1>3. /\ x \in Requests
      /\ x.tab = t /\ x.kind = kind /\ x.phase = "sent" /\ ~x.again
      /\ x.bearer = n.access /\ x.body = n.refresh /\ x.cookies = Cookies
      /\ (kind \in Safe => x.header = 0) /\ (kind \notin Safe => x.header = Csrf(n))
      /\ x.held = (n.refresh # 0) /\ x.status = 0 /\ x.won = 0
  BY <1>1, <1>2, CallFacts
<1>4. /\ m \in Keys /\ m.access = n.access /\ m.refresh = n.refresh
      /\ (kind \in Safe => m.csrf = n.csrf) /\ (kind \notin Safe => m.csrf = Csrf(n))
  BY <1>1, <1>2, RememberFacts
<1>5. calls' = calls \cup {x} /\ mem' = [mem EXCEPT ![t] = m]
  BY <1>1 DEF Send
<1> QED BY <1>1, <1>3, <1>4, <1>5

(* A request of another kind than the refresh, sent by a tab whose store   *)
(* calls nothing if it is a call of the store.                             *)
LEMMA SendBase ==
    ASSUME Base, NEW t \in Tab, NEW kind \in Kinds, kind # "refresh", Send(t, kind),
           UNCHANGED <<gen, fresh, faults>>, ended => ended',
           kind \in {"logout", "password", "reset"} => ended',
           \/ kind \notin Store /\ store' = store
           \/ kind \in Store /\ ~store[t].loading /\ store' = [store EXCEPT ![t].loading = TRUE]
    PROVE  /\ RequestsOK' /\ Waited' /\ Singly' /\ mem' \in [Tab -> Keys]
           /\ store' \in [Tab -> [auth : BOOLEAN, loading : BOOLEAN]]
<1>1. PICK x \in Requests, m \in Keys :
          /\ x.tab = t /\ x.kind = kind /\ x.phase = "sent" /\ ~x.again /\ x.status = 0 /\ x.won = 0
          /\ calls' = calls \cup {x} /\ mem' = [mem EXCEPT ![t] = m]
  BY SendFacts
<1>2. /\ mem \in [Tab -> Keys] /\ store \in [Tab -> [auth : BOOLEAN, loading : BOOLEAN]]
      /\ ServerOK /\ gen \in Nat /\ faults \in Nat /\ t # "nobody"
  BY ClientAssumption, GenFacts DEF Base, TabsOK, ServerOK
<1>3. RequestsOK'
  <2>1. RequestOK(x)'
    BY <1>1, <1>2, CallOK
  <2>2. \A d \in calls : RequestOK(d)'
    BY <1>2, Later DEF Base, RequestsOK
  <2> QED BY <1>1, <2>1, <2>2 DEF RequestsOK
<1>4. Waited'
  BY <1>1 DEF Waited, Of, Base
<1>5. mem' \in [Tab -> Keys]
  BY <1>1, <1>2
<1>6. store' \in [Tab -> [auth : BOOLEAN, loading : BOOLEAN]]
  BY <1>2
<1>7. ASSUME NEW u \in Tab PROVE OneCall(u)' /\ OneRefresh(u)' /\ Busy(u)'
  <2>1. OneCall(u) /\ OneRefresh(u) /\ Busy(u)
    BY DEF Base, Singly
  <2>2. Of(u, {"refresh"})' = Of(u, {"refresh"})
    BY <1>1 DEF Of
  <2>3. OneRefresh(u)'
    BY <2>1, <2>2 DEF OneRefresh
  <2>4. CASE u # t \/ kind \notin Store
    <3>1. Of(u, Store)' = Of(u, Store)
      BY <1>1, <2>4 DEF Of
    <3>2. store'[u] = store[u]
      BY <1>2, <2>4
    <3> QED BY <2>1, <2>3, <3>1, <3>2 DEF OneCall, Busy
  <2>5. CASE u = t /\ kind \in Store
    <3>1. Of(u, Store) = {} /\ store'[u].loading = TRUE
      BY <1>2, <2>1, <2>5 DEF Busy
    <3>2. Of(u, Store)' \subseteq {x}
      BY <1>1, <3>1 DEF Of
    <3> QED BY <2>3, <3>1, <3>2 DEF OneCall, Busy
  <2> QED BY <2>4, <2>5
<1> QED BY <1>3, <1>4, <1>5, <1>6, <1>7 DEF Singly

(* What is left when the calls, the memory and the store are in order. *)
LEMMA RestBase ==
    ASSUME Base, UNCHANGED <<gen, live, fresh, jar, blocked, faults>>, moves' \in Nat,
           ended' \in BOOLEAN, crossed' \in BOOLEAN, profile' \in Profile \cup {None},
           screen' \in [Tab -> {"login", "app", "admin"}],
           RequestsOK' /\ Waited' /\ Singly' /\ mem' \in [Tab -> Keys],
           store' \in [Tab -> [auth : BOOLEAN, loading : BOOLEAN]]
    PROVE  Base'
BY DEF Base, ServerOK, JarOK, TabsOK

LEMMA MovingFacts == ASSUME Base, Moving PROVE moves' \in Nat
BY DEF Base, ServerOK, Moving

(* The pages that send a request. *)
LEMMA PagesBase ==
    ASSUME Base, NEW t \in Tab,
           LoginPage(t) \/ RegisterPage(t) \/ HeaderLogout(t) \/ ResetPage(t) \/ ChangePassword(t)
    PROVE  Base'
<1>1. moves' \in Nat /\ UNCHANGED <<gen, live, fresh, jar, blocked, profile, screen, faults>>
  BY MovingFacts DEF LoginPage, RegisterPage, HeaderLogout, ResetPage, ChangePassword, Calling, server, browser
<1>2. /\ profile \in Profile \cup {None} /\ screen \in [Tab -> {"login", "app", "admin"}]
      /\ ended \in BOOLEAN /\ crossed \in BOOLEAN /\ Meets(t) \in BOOLEAN
  BY DEF Base, TabsOK, ServerOK, Meets
<1>3. \E kind \in Kinds :
         /\ kind # "refresh" /\ Send(t, kind)
         /\ kind \in {"logout", "password", "reset"} => ended'
         /\ ended => ended'
         /\ ended' \in BOOLEAN /\ crossed' \in BOOLEAN
         /\ \/ kind \notin Store /\ store' = store
            \/ kind \in Store /\ ~store[t].loading /\ store' = [store EXCEPT ![t].loading = TRUE]
  <2>1. CASE LoginPage(t)
    <3>1. /\ Send(t, "login") /\ ~store[t].loading /\ store' = [store EXCEPT ![t].loading = TRUE]
          /\ ended' = ended /\ crossed' = (crossed \/ Meets(t))
      BY <2>1 DEF LoginPage, Calling
    <3> QED BY <1>2, <3>1, KindFacts
  <2>2. CASE RegisterPage(t)
    <3>1. /\ Send(t, "register") /\ ~store[t].loading /\ store' = [store EXCEPT ![t].loading = TRUE]
          /\ ended' = ended /\ crossed' = (crossed \/ Meets(t))
      BY <2>2 DEF RegisterPage, Calling
    <3> QED BY <1>2, <3>1, KindFacts
  <2>3. CASE HeaderLogout(t)
    <3>1. /\ Send(t, "logout") /\ ~store[t].loading /\ store' = [store EXCEPT ![t].loading = TRUE]
          /\ ended' = TRUE /\ crossed' = crossed
      BY <2>3 DEF HeaderLogout, Calling, Shown
    <3> QED BY <1>2, <3>1, KindFacts
  <2>4. CASE ResetPage(t)
    <3>1. Send(t, "reset") /\ store' = store /\ ended' = TRUE /\ crossed' = crossed
      BY <2>4 DEF ResetPage
    <3> QED BY <1>2, <3>1, KindFacts
  <2>5. CASE ChangePassword(t)
    <3>1. Send(t, "password") /\ store' = store /\ ended' = TRUE /\ crossed' = crossed
      BY <2>5 DEF ChangePassword
    <3> QED BY <1>2, <3>1, KindFacts
  <2> QED BY <2>1, <2>2, <2>3, <2>4, <2>5
<1>4. /\ RequestsOK' /\ Waited' /\ Singly' /\ mem' \in [Tab -> Keys]
      /\ store' \in [Tab -> [auth : BOOLEAN, loading : BOOLEAN]]
  BY <1>1, <1>3, SendBase
<1> QED BY <1>1, <1>2, <1>3, <1>4, RestBase

(* downloadFile() without a token waits for the refresh. *)
LEMMA DownloadBase ==
    ASSUME Base, NEW t \in Tab, Download(t),
           UNCHANGED <<gen, fresh, faults, ended, store>>
    PROVE  RequestsOK' /\ Waited' /\ Singly' /\ mem' = mem
<1>1. PICK x, y, m : /\ m = mem[t] /\ x = Call(t, "download", m)
                     /\ y = [Bare(x) EXCEPT !.phase = "waiting"]
  OBVIOUS
<1>2. /\ mem' = mem
      /\ \/ calls' = calls \cup {x}
         \/ calls' = calls \cup ({y} \cup Refresh(t))
  BY <1>1 DEF Download
<1>3. m \in Keys /\ "download" \in Kinds /\ ServerOK /\ JarOK /\ gen \in Nat /\ t # "nobody"
  BY <1>1, ClientAssumption, GenFacts, KindFacts DEF Base, TabsOK, ServerOK
<1>4. /\ x \in Requests /\ x.tab = t /\ x.kind = "download" /\ x.phase = "sent"
      /\ ~x.again /\ x.status = 0 /\ x.won = 0
  BY <1>1, <1>3, CallFacts
<1>5. y = [x EXCEPT !.bearer = 0, !.header = 0, !.body = 0, !.cookies = NoKey, !.phase = "waiting"]
  BY <1>1, <1>4 DEF Bare, Requests
<1>6. y \in Requests
  BY <1>4, <1>5, GenFacts DEF Requests
<1>7. /\ y.tab = t /\ y.kind = "download" /\ y.phase = "waiting"
      /\ y.again = x.again /\ y.status = 0 /\ y.won = 0
  BY <1>4, <1>5 DEF Requests
<1>8. RequestOK(x)' /\ RequestOK(y)'
  <2>1. "download" \notin {"logout", "password", "reset"} /\ "download" # "refresh"
    OBVIOUS
  <2>2. RequestOK(x)'
    BY <1>3, <1>4, <2>1, CallOK
  <2>3. RequestOK(y)'
    BY <1>3, <1>4, <1>6, <1>7, <2>1 DEF RequestOK
  <2> QED BY <2>2, <2>3
<1>9. \A d : RequestOK(d) => RequestOK(d)'
  BY DEF RequestOK
<1>10. \A r \in Refresh(t) : RequestOK(r) /\ r.tab = t /\ r.kind = "refresh" /\ r.phase = "sent"
  BY RefreshFacts
<1>11. RequestsOK'
  BY <1>2, <1>8, <1>9, <1>10 DEF RequestsOK, Base
<1>12. Waited'
  <2>1. SUFFICES ASSUME NEW d \in calls', d.phase = "waiting"
                 PROVE  Of(d.tab, {"refresh"})' # {}
    BY DEF Waited
  <2>2. calls \subseteq calls'
    BY <1>2
  <2>3. CASE d \in calls
    BY <2>1, <2>2, <2>3 DEF Base, Waited, Of
  <2>4. CASE d \notin calls
    <3>1. calls' = calls \cup ({y} \cup Refresh(t)) /\ d.tab = t
      BY <1>2, <1>4, <1>7, <1>10, <2>1, <2>4
    <3>2. CASE Of(t, {"refresh"}) # {}
      BY <2>2, <3>1, <3>2 DEF Of
    <3>3. CASE Of(t, {"refresh"}) = {}
      <4>1. PICK r : r \in Refresh(t) /\ r.tab = t /\ r.kind = "refresh"
        BY <3>3, RefreshFacts
      <4> QED BY <3>1, <4>1 DEF Of
    <3> QED BY <3>2, <3>3
  <2> QED BY <2>3, <2>4
<1>13. ASSUME NEW u \in Tab PROVE OneCall(u)' /\ OneRefresh(u)' /\ Busy(u)'
  <2>1. OneCall(u) /\ OneRefresh(u) /\ Busy(u)
    BY DEF Base, Singly
  <2>2. Of(u, Store)' = Of(u, Store)
    BY <1>2, <1>4, <1>7, <1>10, KindFacts DEF Of
  <2>3. Of(u, {"refresh"})' \subseteq Of(u, {"refresh"}) \cup {r \in Refresh(t) : r.tab = u}
    BY <1>2, <1>4, <1>7, <1>10 DEF Of
  <2>4. OneRefresh(u)'
    <3>1. CASE u # t
      BY <1>10, <2>1, <2>3, <3>1 DEF OneRefresh
    <3>2. CASE u = t /\ Of(u, {"refresh"}) # {}
      BY <2>1, <2>3, <3>2, RefreshFacts DEF OneRefresh
    <3>3. CASE u = t /\ Of(u, {"refresh"}) = {}
      <4>1. PICK r : Refresh(u) = {r}
        BY <3>3, RefreshFacts
      <4> QED BY <2>3, <3>3, <4>1 DEF OneRefresh
    <3> QED BY <3>1, <3>2, <3>3
  <2> QED BY <2>1, <2>2, <2>4 DEF OneCall, Busy
<1> QED BY <1>2, <1>11, <1>12, <1>13 DEF Singly

LEMMA UsePageBase == ASSUME Base, NEW t \in Tab, UsePage(t) PROVE Base'
<1>1. /\ moves' \in Nat
      /\ UNCHANGED <<gen, live, fresh, jar, blocked, profile, store, screen, faults, ended, crossed>>
      /\ Send(t, "read") \/ Send(t, "write") \/ Download(t)
  BY MovingFacts DEF UsePage, server, browser
<1>2. /\ profile \in Profile \cup {None} /\ screen \in [Tab -> {"login", "app", "admin"}]
      /\ store \in [Tab -> [auth : BOOLEAN, loading : BOOLEAN]] /\ mem \in [Tab -> Keys]
      /\ ended \in BOOLEAN /\ crossed \in BOOLEAN
  BY DEF Base, TabsOK, ServerOK
<1>3. "read" \in Kinds \ Store /\ "write" \in Kinds \ Store
  BY KindFacts
<1>4. RequestsOK' /\ Waited' /\ Singly' /\ mem' \in [Tab -> Keys]
  <2>1. CASE Send(t, "read")
    BY <1>1, <1>3, <2>1, SendBase
  <2>2. CASE Send(t, "write")
    BY <1>1, <1>3, <2>2, SendBase
  <2>3. CASE Download(t)
    BY <1>1, <1>2, <2>3, DownloadBase
  <2> QED BY <1>1, <2>1, <2>2, <2>3
<1> QED BY <1>1, <1>2, <1>4, RestBase

(* What a tab that is loaded again leaves to the server. *)
LEMMA ReloadFacts ==
    ASSUME Base, NEW t \in Tab, Reload(t)
    PROVE  /\ UNCHANGED <<gen, live, fresh, jar, blocked, profile, screen, faults, ended, crossed>>
           /\ moves' \in Nat
           /\ store' = [store EXCEPT ![t] = [auth |-> FALSE, loading |-> TRUE]]
           /\ \E m \in Keys, x \in Requests :
                 /\ m.access = 0 /\ m.refresh = 0 /\ m.csrf = Cookies.csrf
                 /\ mem' = [mem EXCEPT ![t] = m]
                 /\ x.tab = t /\ x.kind = "me" /\ x.phase = "sent" /\ ~x.again
                 /\ x.bearer = 0 /\ x.cookies = Cookies /\ x.status = 0 /\ x.won = 0
                 /\ \A d \in calls' :
                       \/ d = x
                       \/ d \in calls /\ d.tab # t
                       \/ \E o \in calls :
                             /\ o.tab = t /\ o.phase = "sent" /\ o.kind \notin Safe
                             /\ d = [o EXCEPT !.tab = "nobody"]
                 /\ \A d \in calls : d.tab # t => d \in calls'
<1>1. PICK m, x : m = [NoKey EXCEPT !.csrf = Cookies.csrf] /\ x = Call(t, "me", m)
  OBVIOUS
<1>2. ServerOK /\ JarOK /\ "me" \in Kinds
  BY KindFacts DEF Base
<1>3. Cookies.csrf \in Gen
  BY <1>2, CookiesFacts DEF Keys
<1>4. m \in Keys /\ m.access = 0 /\ m.refresh = 0 /\ m.csrf = Cookies.csrf
  BY <1>1, <1>3, GenFacts DEF NoKey, Keys
<1>5. /\ x \in Requests /\ x.tab = t /\ x.kind = "me" /\ x.phase = "sent" /\ ~x.again
      /\ x.bearer = 0 /\ x.cookies = Cookies /\ x.status = 0 /\ x.won = 0
  <2>1. x = Call(t, "me", m) /\ m \in Keys
    BY <1>1, <1>4
  <2>2. /\ x \in Requests /\ x.tab = t /\ x.kind = "me" /\ x.phase = "sent" /\ ~x.again
        /\ x.bearer = m.access /\ x.cookies = Cookies /\ x.status = 0 /\ x.won = 0
    BY <1>2, <2>1, CallFacts
  <2> QED BY <1>4, <2>2
<1>6. /\ UNCHANGED <<gen, live, fresh, jar, blocked, profile, screen, faults, ended, crossed>>
      /\ moves' \in Nat
      /\ store' = [store EXCEPT ![t] = [auth |-> FALSE, loading |-> TRUE]]
  BY MovingFacts DEF Reload, server, browser
<1>7. mem' = [mem EXCEPT ![t] = m]
  BY <1>1 DEF Reload
<1>8. calls' = {c \in calls : c.tab # t}
                \cup {[c EXCEPT !.tab = "nobody"] :
                      c \in {d \in calls : d.tab = t /\ d.phase = "sent" /\ d.kind \notin Safe}}
                \cup {x}
  BY <1>1 DEF Reload
<1> HIDE DEF Reload
<1>9. \A d \in calls' :
         \/ d = x
         \/ d \in calls /\ d.tab # t
         \/ \E o \in calls :
               /\ o.tab = t /\ o.phase = "sent" /\ o.kind \notin Safe
               /\ d = [o EXCEPT !.tab = "nobody"]
  BY <1>8
<1>10. \A d \in calls : d.tab # t => d \in calls'
  BY <1>8
<1> QED BY <1>4, <1>5, <1>6, <1>7, <1>9, <1>10

LEMMA NobodyFacts ==
    ASSUME NEW o \in Requests, NEW d, d = [o EXCEPT !.tab = "nobody"]
    PROVE  /\ d \in Requests /\ d.tab = "nobody" /\ d.kind = o.kind /\ d.phase = o.phase
           /\ d.again = o.again /\ d.bearer = o.bearer /\ d.status = o.status /\ d.won = o.won
<1>1. d \in Requests
  BY DEF Requests
<1> QED BY <1>1 DEF Requests

LEMMA ReloadBase == ASSUME Base, NEW t \in Tab, Reload(t) PROVE Base'
<1>1. /\ UNCHANGED <<gen, live, fresh, jar, blocked, profile, screen, faults, ended, crossed>>
      /\ moves' \in Nat
      /\ store' = [store EXCEPT ![t] = [auth |-> FALSE, loading |-> TRUE]]
  BY ReloadFacts
<1>2. PICK m \in Keys, x \in Requests :
          /\ mem' = [mem EXCEPT ![t] = m]
          /\ x.tab = t /\ x.kind = "me" /\ x.phase = "sent" /\ ~x.again /\ x.status = 0 /\ x.won = 0
          /\ \A d \in calls' :
                \/ d = x
                \/ d \in calls /\ d.tab # t
                \/ \E o \in calls :
                      /\ o.tab = t /\ o.phase = "sent" /\ o.kind \notin Safe
                      /\ d = [o EXCEPT !.tab = "nobody"]
          /\ \A d \in calls : d.tab # t => d \in calls'
  BY ReloadFacts
<1>3. /\ profile \in Profile \cup {None} /\ screen \in [Tab -> {"login", "app", "admin"}]
      /\ store \in [Tab -> [auth : BOOLEAN, loading : BOOLEAN]] /\ mem \in [Tab -> Keys]
      /\ ended \in BOOLEAN /\ crossed \in BOOLEAN /\ ServerOK /\ t # "nobody"
  BY ClientAssumption DEF Base, TabsOK, ServerOK
<1>4. ASSUME NEW d \in calls' PROVE \/ d = x
                                    \/ d \in calls /\ d.tab # t
                                    \/ d.tab = "nobody" /\ d.phase = "sent" /\ RequestOK(d)
  <2>1. ASSUME NEW o \in calls, o.tab = t, o.phase = "sent", o.kind \notin Safe,
               d = [o EXCEPT !.tab = "nobody"]
        PROVE  d.tab = "nobody" /\ d.phase = "sent" /\ RequestOK(d)
    <3>1. o \in Requests /\ RequestOK(o)
      BY DEF Base, RequestsOK, RequestOK
    <3>2. /\ d \in Requests /\ d.tab = "nobody" /\ d.kind = o.kind /\ d.phase = o.phase
          /\ d.again = o.again /\ d.bearer = o.bearer /\ d.status = o.status /\ d.won = o.won
      BY <2>1, <3>1, NobodyFacts
    <3> QED BY <2>1, <3>1, <3>2 DEF RequestOK
  <2>2. CASE d = x \/ (d \in calls /\ d.tab # t)
    BY <2>2
  <2>3. CASE ~(d = x \/ (d \in calls /\ d.tab # t))
    <3>1. PICK o \in calls : /\ o.tab = t /\ o.phase = "sent" /\ o.kind \notin Safe
                             /\ d = [o EXCEPT !.tab = "nobody"]
      BY <1>2, <2>3
    <3> QED BY <2>1, <3>1
  <2> QED BY <2>2, <2>3
<1>5. RequestsOK'
  <2>1. \A d : RequestOK(d) => RequestOK(d)'
    BY <1>1 DEF RequestOK
  <2>2. RequestOK(x)'
    BY <1>1, <1>2, <1>3, CallOK
  <2> QED BY <1>4, <2>1, <2>2 DEF RequestsOK, Base
<1>6. Waited'
  <2>1. SUFFICES ASSUME NEW d \in calls', d.phase = "waiting" PROVE Of(d.tab, {"refresh"})' # {}
    BY DEF Waited
  <2>2. d \in calls /\ d.tab # t
    BY <1>2, <1>4, <2>1
  <2>3. PICK r \in calls : r.tab = d.tab /\ r.kind = "refresh"
    BY <2>1, <2>2 DEF Base, Waited, Of
  <2> QED BY <1>2, <2>2, <2>3 DEF Of
<1>7. ASSUME NEW u \in Tab PROVE OneCall(u)' /\ OneRefresh(u)' /\ Busy(u)'
  <2>1. OneCall(u) /\ OneRefresh(u) /\ Busy(u) /\ u # "nobody"
    BY ClientAssumption DEF Base, Singly
  <2>2. CASE u = t
    <3>1. \A K : Of(u, K)' \subseteq {x}
      BY <1>4, <2>1, <2>2 DEF Of
    <3>2. store'[u].loading = TRUE
      BY <1>1, <1>3, <2>2
    <3> QED BY <3>1, <3>2 DEF OneCall, OneRefresh, Busy
  <2>3. CASE u # t
    <3>1. \A K : Of(u, K)' \subseteq Of(u, K)
      BY <1>2, <1>4, <2>1, <2>3 DEF Of
    <3>2. store'[u] = store[u]
      BY <1>1, <1>3, <2>3
    <3> QED BY <2>1, <3>1, <3>2 DEF OneCall, OneRefresh, Busy
  <2> QED BY <2>2, <2>3
<1>8. mem' \in [Tab -> Keys] /\ store' \in [Tab -> [auth : BOOLEAN, loading : BOOLEAN]]
  BY <1>1, <1>2, <1>3
<1> QED BY <1>1, <1>3, <1>5, <1>6, <1>7, <1>8, RestBase DEF Singly

(* The steps that send nothing, but for the check of the administration page. *)
LEMMA RouteBase ==
    ASSUME Base, NEW t \in Tab, OpenAdmin(t) \/ ProtectedRoute(t) \/ SignedInAway(t)
    PROVE  Base'
<1>1. /\ profile \in Profile \cup {None} /\ screen \in [Tab -> {"login", "app", "admin"}]
      /\ store \in [Tab -> [auth : BOOLEAN, loading : BOOLEAN]] /\ mem \in [Tab -> Keys]
      /\ ended \in BOOLEAN /\ crossed \in BOOLEAN /\ moves \in Nat
      /\ RequestsOK /\ Waited /\ Singly
  BY DEF Base, TabsOK, ServerOK
<1>2. /\ moves' \in Nat /\ UNCHANGED <<gen, live, fresh, jar, blocked, faults, ended, crossed>>
      /\ profile' \in Profile \cup {None} /\ screen' \in [Tab -> {"login", "app", "admin"}]
  <2>1. CASE OpenAdmin(t)
    BY <1>1, <2>1, MovingFacts DEF OpenAdmin, server
  <2>2. CASE ProtectedRoute(t)
    BY <1>1, <2>2 DEF ProtectedRoute, server, browser
  <2>3. CASE SignedInAway(t)
    BY <1>1, <2>3 DEF SignedInAway, server, browser
  <2> QED BY <2>1, <2>2, <2>3
<1>3. CASE UNCHANGED <<mem, store, calls>>
  <2>1. RequestsOK' /\ Waited' /\ Singly'
    BY <1>1, <1>2, <1>3 DEF RequestsOK, RequestOK, Waited, Singly, OneCall, OneRefresh, Busy, Of
  <2> QED BY <1>1, <1>2, <1>3, <2>1, RestBase
<1>4. CASE /\ ~store[t].loading /\ Send(t, "me") /\ store' = [store EXCEPT ![t].loading = TRUE]
  <2>1. "me" \in Kinds /\ "me" \in Store
    BY KindFacts
  <2>2. /\ RequestsOK' /\ Waited' /\ Singly' /\ mem' \in [Tab -> Keys]
        /\ store' \in [Tab -> [auth : BOOLEAN, loading : BOOLEAN]]
    BY <1>2, <1>4, <2>1, SendBase
  <2> QED BY <1>1, <1>2, <2>2, RestBase
<1> QED BY <1>3, <1>4 DEF OpenAdmin, ProtectedRoute, SignedInAway

LEMMA BaseInit == Init => Base
<1> SUFFICES ASSUME Init PROVE Base
  OBVIOUS
<1>1. /\ MaxGen \in Nat /\ 0 \in Gen /\ 1 \in Gen /\ NoKey \in Keys /\ KeysOf(1) \in Keys
      /\ NoKey = KeysOf(0) /\ NoKey.access = 0 /\ KeysOf(1).access = 1
      /\ [KeysOf(1) EXCEPT !.csrf = 0] \in Keys
  BY GenFacts, ClientAssumption DEF KeysOf, NoKey, Keys
<1>2. /\ blocked \in BOOLEAN /\ profile = None /\ faults = 0 /\ ended = FALSE /\ crossed = FALSE
  BY DEF Init
<1>3. CASE /\ moves = 1 /\ gen = 0 /\ live = {} /\ fresh = {} /\ jar = NoKey
           /\ mem = [t \in Tab |-> NoKey]
           /\ store = [t \in Tab |-> [auth |-> FALSE, loading |-> TRUE]]
           /\ screen = [t \in Tab |-> "login"]
           /\ calls = {Call(t, "me", NoKey) : t \in Tab}
  <2>1. ServerOK
    BY <1>1, <1>2, <1>3 DEF ServerOK
  <2>2. JarOK
    BY <1>1, <1>2, <1>3 DEF JarOK
  <2>3. TabsOK
    BY <1>1, <1>2, <1>3 DEF TabsOK
  <2>4. ASSUME NEW c \in calls PROVE
            /\ RequestOK(c) /\ c.tab \in Tab /\ c.phase = "sent" /\ c.kind = "me" /\ c = Call(c.tab, "me", NoKey)
    <3>1. PICK t \in Tab : c = Call(t, "me", NoKey)
      BY <1>3
    <3>2. /\ c \in Requests /\ c.tab = t /\ c.kind = "me" /\ c.phase = "sent" /\ ~c.again
          /\ c.status = 0 /\ c.won = 0
      BY <1>1, <2>1, <2>2, <3>1, CallFacts, KindFacts
    <3>3. t # "nobody"
      BY ClientAssumption
    <3> QED BY <1>3, <3>1, <3>2, <3>3 DEF RequestOK
  <2>5. RequestsOK /\ Waited
    BY <2>4 DEF RequestsOK, Waited
  <2>6. ASSUME NEW u \in Tab PROVE OneCall(u) /\ OneRefresh(u) /\ Busy(u)
    <3>1. store[u].loading = TRUE
      BY <1>3
    <3> QED BY <2>4, <3>1 DEF OneCall, OneRefresh, Busy, Of
  <2> QED BY <2>1, <2>2, <2>3, <2>5, <2>6 DEF Base, Singly
<1>4. CASE /\ moves = 0 /\ gen = 1 /\ live = {1} /\ fresh = {1}
           /\ jar = IF blocked THEN NoKey ELSE KeysOf(1)
           /\ mem = [t \in Tab |-> [KeysOf(1) EXCEPT !.csrf = 0]]
           /\ store = [t \in Tab |-> [auth |-> TRUE, loading |-> FALSE]]
           /\ screen = [t \in Tab |-> "app"]
           /\ calls = {}
  <2>1. ServerOK
    <3>1. 1 \in 1..gen /\ gen \in Gen
      BY <1>1, <1>4
    <3>2. live \subseteq 1..gen /\ fresh \subseteq 1..gen
      BY <1>4, <3>1
    <3>3. moves \in Nat /\ faults \in Nat /\ ended \in BOOLEAN /\ crossed \in BOOLEAN
      BY <1>2, <1>4
    <3> QED BY <3>1, <3>2, <3>3 DEF ServerOK
  <2>2. JarOK
    BY <1>1, <1>2, <1>4 DEF JarOK
  <2>3. TabsOK
    BY <1>1, <1>2, <1>4 DEF TabsOK
  <2>4. RequestsOK /\ Waited /\ Singly
    BY <1>4 DEF RequestsOK, Waited, Singly, OneCall, OneRefresh, Busy, Of
  <2> QED BY <2>1, <2>2, <2>3, <2>4 DEF Base
<1> QED BY <1>3, <1>4 DEF Init

LEMMA BaseNext == Base /\ [Next]_vars => Base'
<1> SUFFICES ASSUME Base, [Next]_vars PROVE Base'
  OBVIOUS
<1>1. ASSUME Answer PROVE Base'
  BY <1>1, FinishBase, UnauthorizedBase, RefreshedBase, RefreshFailedBase DEF Answer
<1>2. ASSUME NEW t \in Tab, User(t) \/ Route(t) PROVE Base'
  BY <1>2, PagesBase, UsePageBase, ReloadBase, RouteBase DEF User, Route
<1>3. CASE UNCHANGED vars
  BY <1>3 DEF vars, server, browser, tabs, Base, ServerOK, JarOK, TabsOK, RequestsOK, RequestOK,
              Waited, Singly, OneCall, OneRefresh, Busy, Of
<1> QED BY <1>1, <1>2, <1>3, ServeBase, LoseBase, ExpireBase DEF Next

(* In every reachable state requests, tokens and tabs are in order.        *)
THEOREM BaseInductive == Spec => []Base
BY BaseInit, BaseNext, PTL DEF Spec

(* Every variable of the browser session has its type, and a request that  *)
(* waits has a refresh to wait for, with any number of tabs.               *)
THEOREM TypeCorrect == Spec => []TypeOK
<1>1. Base => TypeOK
  <2> SUFFICES ASSUME Base PROVE TypeOK
    OBVIOUS
  <2>1. jar \in Keys
    BY CookiesFacts DEF Base
  <2>2. ASSUME NEW c \in calls PROVE
            /\ c.tab \in Tab \cup {"nobody"} /\ c.kind \in Store \cup Page \cup Open
            /\ c.phase \in {"sent", "answered", "waiting"}
            /\ c.phase = "waiting" => Of(c.tab, {"refresh"}) # {}
    BY DEF Base, RequestsOK, RequestOK, Requests, Kinds, Waited
  <2> QED BY <2>1, <2>2 DEF Base, ServerOK, TabsOK, TypeOK
<1> QED BY <1>1, BaseInductive, PTL

(* No tab ever runs two calls of its store at once: the flag isLoading is  *)
(* the only lock there is, and every page that calls it respects it.       *)
THEOREM OneCallAtATime == Spec => []OneStoreCall
<1>1. Base => OneStoreCall
  <2> SUFFICES ASSUME Base, NEW t \in Tab PROVE Cardinality(Of(t, Store)) <= 1
    BY DEF OneStoreCall
  <2>1. \A c, d \in Of(t, Store) : c = d
    BY DEF Base, Singly, OneCall
  <2>2. CASE Of(t, Store) = {}
    BY <2>2, FS_EmptySet
  <2>3. ASSUME NEW c \in Of(t, Store) PROVE Cardinality(Of(t, Store)) <= 1
    <3>1. Of(t, Store) = {c}
      BY <2>1, <2>3
    <3>2. Cardinality(Of(t, Store)) = 1
      BY <3>1, FS_Singleton
    <3> QED BY <3>2
  <2> QED BY <2>2, <2>3
<1> QED BY <1>1, BaseInductive, PTL

-----------------------------------------------------------------------------
(***************************************************************************)
(* A browser with one tab, whose sign-ins met nothing of earlier sessions  *)
(* (~crossed).  What its memory, its cookies and its requests then know of *)
(* each other, and of the refresh tokens of the server:                    *)
(***************************************************************************)

Orphans == {c \in calls : c.tab = "nobody"}

(* The tokens in memory are those of the cookies, as far as there are any. *)
Memory(t) ==
    /\ mem[t].refresh = mem[t].access
    /\ ~blocked => mem[t].access \in {0, jar.access}
    /\ mem[t].csrf \in {0, jar.access}
    /\ ~blocked /\ ~store[t].auth /\ mem[t].access # 0 => mem[t].csrf # 0

(* While a tab signs in it holds no tokens, and no refresh is on its way   *)
(* but the one the sign-in itself waits for.                               *)
SignAlone(t) ==
    Of(t, Sign) # {} =>
       /\ Orphans = {} /\ ~store[t].auth
       /\ mem[t].csrf = 0 /\ jar.access \notin fresh
       /\ \A c \in calls : c.kind \in Sign \cup {"reset", "refresh"}
       /\ Of(t, {"refresh"}) # {} => \A c \in Of(t, Sign) : c.phase = "waiting"
       /\ ~blocked => \A c \in Of(t, {"refresh"}) : c.body = 0 /\ c.status # 200

(* While the server may still serve a request that was abandoned, the tab  *)
(* holds no refresh token and gets none.                                   *)
OrphansOK(t) ==
    Orphans # {} =>
       /\ mem[t].refresh = 0
       /\ \A c \in Of(t, {"refresh"}) : c.body = 0 /\ c.status \notin {200, 401}

(* While that request is a sign-in, nobody is signed in. *)
OrphanSign(t) ==
    Of("nobody", Sign) # {} =>
       /\ ~store[t].auth /\ jar.access \notin fresh
       /\ Of(t, Store \ {"me"}) = {}
       /\ \A c \in Of(t, {"me"}) : c.bearer = 0 /\ c.cookies.access = 0 /\ c.status # 200

(* The CSRF header goes with the cookie. *)
HeaderOK(t) ==
    \A c \in calls :
        c.tab = t /\ c.kind \notin Safe \cup Open /\ c.phase = "sent" /\ c.cookies.access # 0 =>
            c.header # 0 /\ c.header = c.cookies.csrf

NotForged == \A c \in calls : c.status # 403

(* A refresh uses the token in memory, unless that has been cleared since. *)
RefreshOK(t) ==
    \A r \in Of(t, {"refresh"}) :
        /\ r.phase = "sent" /\ mem[t].refresh # 0 =>
              /\ r.body = mem[t].refresh
              /\ r.cookies.refresh \in {0, mem[t].refresh}
        /\ r.status = 415 => mem[t].refresh = 0
        /\ r.status = 401 => live = {}

LogoutOK(t) ==
    \A c \in Of(t, {"logout"}) :
        /\ c.status = 200 => live = {}
        /\ c.held /\ faults = 0 => live = {} \/ mem[t].refresh # 0

(* Until the user ends the session, the token in memory can be used, or    *)
(* has just been used by a refresh that was answered.                      *)
TokenOK(t) ==
    ~ended /\ faults = 0 =>
        /\ mem[t].refresh # 0 =>
              mem[t].refresh \in live \/ \E r \in Of(t, {"refresh"}) : r.status = 200
        /\ \A c \in calls : c.won # 0 => c.won \in live
        /\ \A r \in Of(t, {"refresh"}) : r.status = 401 => mem[t].refresh = 0

Orderly(t) ==
    /\ Memory(t) /\ SignAlone(t) /\ OrphansOK(t) /\ OrphanSign(t) /\ HeaderOK(t) /\ NotForged
    /\ RefreshOK(t) /\ LogoutOK(t) /\ TokenOK(t)

LEMMA OneTab ==
    ASSUME NEW t, Tab = {t}, Base
    PROVE  /\ t # "nobody" /\ t \in Tab /\ mem[t] \in Keys /\ OneCall(t) /\ OneRefresh(t)
           /\ store[t] \in [auth : BOOLEAN, loading : BOOLEAN]
           /\ mem[t].access \in Nat /\ mem[t].refresh \in Nat /\ mem[t].csrf \in Nat
           /\ 0 \notin fresh /\ 0 \notin live /\ gen \in Nat /\ faults \in Nat
           /\ jar.access \in 0..gen /\ blocked \in BOOLEAN /\ (blocked => jar.access = 0)
           /\ ended \in BOOLEAN /\ crossed \in BOOLEAN
           /\ \A c \in calls :
                 /\ c \in Requests /\ RequestOK(c) /\ (c.tab = t \/ c.tab = "nobody")
                 /\ c.tab = "nobody" => c.phase = "sent"
                 /\ c.won # 0 => c.status = 200 /\ c.phase = "answered" /\ c.tab = t
                                 /\ c.kind \in Sign \cup {"refresh"}
                 /\ c.phase = "answered" => c.status # 0
                 /\ c.phase # "answered" => c.status = 0 /\ c.won = 0
<1>1. /\ t # "nobody" /\ t \in Tab /\ mem[t] \in Keys /\ OneCall(t) /\ OneRefresh(t)
      /\ store[t] \in [auth : BOOLEAN, loading : BOOLEAN]
  BY ClientAssumption DEF Base, TabsOK, Singly
<1>2. /\ mem[t].access \in Nat /\ mem[t].refresh \in Nat /\ mem[t].csrf \in Nat
  BY <1>1, GenFacts DEF Keys
<1>3. /\ 0 \notin fresh /\ 0 \notin live /\ gen \in Nat /\ faults \in Nat
      /\ jar.access \in 0..gen /\ blocked \in BOOLEAN /\ (blocked => jar.access = 0)
      /\ ended \in BOOLEAN /\ crossed \in BOOLEAN
  BY GenFacts DEF Base, ServerOK, JarOK
<1>4. ASSUME NEW c \in calls
      PROVE  /\ c \in Requests /\ RequestOK(c) /\ (c.tab = t \/ c.tab = "nobody")
             /\ c.tab = "nobody" => c.phase = "sent"
             /\ c.won # 0 => c.status = 200 /\ c.phase = "answered" /\ c.tab = t
                             /\ c.kind \in Sign \cup {"refresh"}
             /\ c.phase = "answered" => c.status # 0
             /\ c.phase # "answered" => c.status = 0 /\ c.won = 0
  <2>1. c \in Requests /\ RequestOK(c)
    BY DEF Base, RequestsOK, RequestOK
  <2>2. c.tab = t \/ c.tab = "nobody"
    BY <2>1 DEF Requests
  <2>3. c.phase = "answered" => c.status # 0
    BY <2>1 DEF RequestOK, Answers
  <2> QED BY <2>1, <2>2, <2>3 DEF RequestOK
<1> QED BY <1>1, <1>2, <1>3, <1>4

(* The CSRF token a request carries is that of the cookies. *)
LEMMA CsrfOfJar ==
    ASSUME NEW t, Tab = {t}, Base, Memory(t)
    PROVE  /\ Csrf(mem[t]) \in {0, jar.access}
           /\ Cookies.access \in {0, jar.access}
           /\ mem[t].csrf # 0 => Csrf(mem[t]) = mem[t].csrf
           /\ Cookies.access # 0 =>
                 Csrf(mem[t]) = Cookies.access /\ Cookies.csrf = Cookies.access
           /\ jar.access \notin fresh => Cookies.access = 0
           /\ jar.access \notin fresh /\ mem[t].csrf = 0 => Csrf(mem[t]) = 0
           /\ Csrf(mem[t]) = 0 => mem[t].csrf = 0 /\ jar.access \notin fresh
<1>1. /\ mem[t] \in Keys /\ 0 \notin fresh /\ ServerOK /\ JarOK
  BY OneTab DEF Base
<1>2. Csrf(mem[t]) = IF mem[t].csrf # 0 THEN mem[t].csrf ELSE Cookies.access
  BY <1>1, CsrfFacts
<1>3. /\ Cookies.csrf = Cookies.access
      /\ Cookies.access = IF jar.access \in fresh THEN jar.access ELSE 0
  BY <1>1, CookiesFacts
<1>4. mem[t].csrf \in {0, jar.access}
  BY DEF Memory
<1> QED BY <1>1, <1>2, <1>3, <1>4

LEMMA ServeOrderly ==
    ASSUME NEW t, Tab = {t}, Base, Serve, Orderly(t)
    PROVE  Orderly(t)'
<1>1. PICK c \in calls :
          /\ c.phase = "sent"
          /\ ServeSign(c) \/ ServeRefresh(c) \/ ServeReset(c) \/ ServeProtected(c)
          /\ UNCHANGED <<browser, tabs, moves, faults, ended, crossed>>
  BY DEF Serve
<1>2. PICK s, w : Served(c, s, w)
  BY <1>1, ServedFacts
<1>3. UNCHANGED <<jar, blocked, mem, store, faults, ended>>
  BY <1>1 DEF browser, tabs
<1>4. /\ t # "nobody" /\ OneCall(t) /\ OneRefresh(t) /\ 0 \notin fresh /\ 0 \notin live /\ gen \in Nat
      /\ jar.access \in 0..gen /\ c.status = 0 /\ c.won = 0
  BY <1>1, OneTab
<1>5. ASSUME NEW d \in calls
      PROVE  /\ d \in Requests /\ (d.tab = t \/ d.tab = "nobody")
             /\ d.won # 0 => d.status = 200 /\ d.phase = "answered" /\ d.tab = t
                             /\ d.kind \in Sign \cup {"refresh"}
  BY OneTab
<1>6. s \in Statuses /\ w \in Gen /\ s \in Answers(c.kind) /\ s # 500
  <2>1. gen' \in Gen
    BY <1>1, ServedFacts DEF ServerOK
  <2>2. 0..gen' \subseteq Gen
    BY <2>1, ClientAssumption DEF Gen
  <2> QED BY <1>2, <2>2 DEF Served, Answers, Statuses
<1>7. PICK x \in Requests :
          /\ calls' = (calls \ {c}) \cup (IF c.tab \in Tab THEN {x} ELSE {})
          /\ x.tab = c.tab /\ x.kind = c.kind /\ x.phase = "answered" /\ x.again = c.again
          /\ x.bearer = 0 /\ x.body = 0 /\ x.cookies = NoKey
          /\ x.held = c.held /\ x.status = s /\ x.won = w
  BY <1>2, <1>6, AnsweredFacts DEF Served
<1>8. \A d \in calls' : \/ d \in calls /\ d # c
                        \/ d = x /\ c.tab = t
  BY <1>5, <1>7
<1>9. \A d \in calls : d # c => d \in calls'
  BY <1>7
<1>10. \A K : Of(t, K)' # {} => Of(t, K) # {}
  BY <1>7, <1>8 DEF Of
<1>11. Orphans' \subseteq Orphans /\ Of("nobody", Sign)' \subseteq Of("nobody", Sign)
  BY <1>4, <1>7, <1>8 DEF Orphans, Of
<1>12. jar.access \notin fresh => jar.access \notin fresh'
  BY <1>2, <1>4 DEF Served
<1>13. Memory(t)'
  BY <1>3 DEF Orderly, Memory
<1>14. SignAlone(t)'
  <2>1. SUFFICES ASSUME Of(t, Sign)' # {} PROVE
           /\ Orphans' = {} /\ ~store'[t].auth
           /\ mem'[t].csrf = 0 /\ jar'.access \notin fresh'
           /\ \A d \in calls' : d.kind \in Sign \cup {"reset", "refresh"}
           /\ Of(t, {"refresh"})' # {} => \A d \in Of(t, Sign)' : d.phase = "waiting"
           /\ ~blocked' => \A d \in Of(t, {"refresh"})' : d.body = 0 /\ d.status # 200
    BY DEF SignAlone
  <2>2. /\ Orphans = {} /\ ~store[t].auth
        /\ mem[t].csrf = 0 /\ jar.access \notin fresh
        /\ \A d \in calls : d.kind \in Sign \cup {"reset", "refresh"}
        /\ Of(t, {"refresh"}) # {} => \A d \in Of(t, Sign) : d.phase = "waiting"
        /\ ~blocked => \A d \in Of(t, {"refresh"}) : d.body = 0 /\ d.status # 200
    BY <1>10, <2>1 DEF Orderly, SignAlone
  <2>3. c.tab = t
    BY <1>5, <2>2 DEF Orphans
  <2>4. \A d \in calls' : d.kind \in Sign \cup {"reset", "refresh"}
    BY <1>7, <1>8, <2>2
  <2>5. ASSUME NEW r \in Of(t, {"refresh"})', NEW d \in Of(t, Sign)' PROVE d.phase = "waiting"
    <3>1. Of(t, {"refresh"}) # {}
      BY <1>10
    <3>2. c.kind \notin Sign
      BY <1>1, <2>2, <2>3, <3>1 DEF Of
    <3> QED BY <1>7, <1>8, <2>2, <3>1, <3>2 DEF Of
  <2>6. ASSUME ~blocked, NEW d \in Of(t, {"refresh"})' PROVE d.body = 0 /\ d.status # 200
    <3>1. CASE d = x
      <4>1. c \in Of(t, {"refresh"}) /\ c.kind = "refresh"
        BY <1>7, <2>3, <3>1 DEF Of
      <4>2. s = 415
        BY <1>2, <2>2, <2>6, <4>1 DEF Served
      <4> QED BY <1>7, <3>1, <4>2
    <3>2. CASE d # x
      BY <1>8, <2>2, <2>6, <3>2 DEF Of
    <3> QED BY <3>1, <3>2
  <2> QED BY <1>3, <1>11, <1>12, <2>2, <2>4, <2>5, <2>6
<1>15. OrphansOK(t)'
  <2>1. SUFFICES ASSUME Orphans # {}, NEW d \in Of(t, {"refresh"})'
                 PROVE  d.body = 0 /\ d.status \notin {200, 401}
    BY <1>3, <1>11 DEF Orderly, OrphansOK
  <2>2. \A r \in Of(t, {"refresh"}) : r.body = 0 /\ r.status \notin {200, 401}
    BY <2>1 DEF Orderly, OrphansOK
  <2>3. CASE d = x /\ c.tab = t
    <3>1. c \in Of(t, {"refresh"}) /\ c.kind = "refresh"
      BY <1>7, <2>3 DEF Of
    <3>2. s = 415
      BY <1>2, <2>2, <3>1 DEF Served
    <3> QED BY <1>7, <2>3, <3>2
  <2> QED BY <1>8, <2>2, <2>3 DEF Of
<1>16. OrphanSign(t)'
  <2>1. SUFFICES ASSUME Of("nobody", Sign) # {} PROVE
           /\ ~store'[t].auth /\ jar'.access \notin fresh'
           /\ Of(t, Store \ {"me"})' = {}
           /\ \A d \in Of(t, {"me"})' : d.bearer = 0 /\ d.cookies.access = 0 /\ d.status # 200
    BY <1>11 DEF OrphanSign
  <2>2. /\ ~store[t].auth /\ jar.access \notin fresh
        /\ Of(t, Store \ {"me"}) = {}
        /\ \A d \in Of(t, {"me"}) : d.bearer = 0 /\ d.cookies.access = 0 /\ d.status # 200
    BY <2>1 DEF Orderly, OrphanSign
  <2>3. ASSUME NEW d \in Of(t, {"me"})' PROVE d.bearer = 0 /\ d.cookies.access = 0 /\ d.status # 200
    <3>1. CASE d = x /\ c.tab = t
      <4>1. c \in Of(t, {"me"}) /\ c.kind = "me"
        BY <1>7, <3>1 DEF Of
      <4>2. ~Identified(c)
        BY <1>4, <2>2, <4>1 DEF Identified
      <4>3. s = 401
        BY <1>2, <4>1, <4>2, KindFacts DEF Served
      <4>4. NoKey.access = 0
        BY DEF NoKey
      <4> QED BY <1>7, <3>1, <4>3, <4>4
    <3> QED BY <1>8, <2>2, <3>1 DEF Of
  <2> QED BY <1>3, <1>10, <1>12, <2>2, <2>3
<1>17. HeaderOK(t)'
  BY <1>7, <1>8 DEF Orderly, HeaderOK
<1>18. NotForged'
  <2>1. SUFFICES ASSUME c.tab = t, s = 403 PROVE FALSE
    BY <1>7, <1>8 DEF Orderly, NotForged
  <2>2. c.kind \notin Open
    BY <1>6, <2>1, KindFacts DEF Answers
  <2>3. Forged(c) /\ Identified(c)
    BY <1>2, <2>1, <2>2 DEF Served
  <2>4. c.kind \notin Safe /\ ~(c.bearer # 0 /\ c.cookies.access = 0)
        /\ (c.header = 0 \/ c.header # c.cookies.csrf)
    BY <2>3 DEF Forged
  <2>5. c.cookies.access = 0
    BY <1>1, <2>1, <2>2, <2>4 DEF Orderly, HeaderOK
  <2> QED BY <1>4, <2>3, <2>4, <2>5 DEF Identified
<1>19. ASSUME live = {} PROVE \/ live' = {}
                              \/ c.kind \in Sign
  BY <1>2, <1>6, <1>19, KindFacts DEF Served, Answers
<1>20. RefreshOK(t)'
  <2>1. SUFFICES ASSUME NEW r \in Of(t, {"refresh"})' PROVE
           /\ r.phase = "sent" /\ mem[t].refresh # 0 =>
                 r.body = mem[t].refresh /\ r.cookies.refresh \in {0, mem[t].refresh}
           /\ r.status = 415 => mem[t].refresh = 0
           /\ r.status = 401 => live' = {}
    BY <1>3 DEF RefreshOK
  <2>2. CASE r = x /\ c.tab = t
    <3>1. c \in Of(t, {"refresh"}) /\ c.kind = "refresh"
      BY <1>7, <2>2 DEF Of
    <3>2. s = 415 => mem[t].refresh = 0
      BY <1>1, <1>2, <3>1 DEF Served, Orderly, RefreshOK
    <3>3. s = 401 => live' = {}
      BY <1>2, <3>1 DEF Served
    <3> QED BY <1>7, <2>2, <3>2, <3>3
  <2>3. CASE r \in calls /\ r # c
    <3>1. r \in Of(t, {"refresh"})
      BY <2>1, <2>3 DEF Of
    <3>2. r.status = 401 => live' = {}
      <4>1. SUFFICES ASSUME r.status = 401, c.kind \in Sign PROVE FALSE
        BY <1>19, <3>1 DEF Orderly, RefreshOK
      <4>2. CASE c.tab = t
        BY <1>1, <3>1, <4>1, <4>2 DEF Orderly, SignAlone, Of
      <4>3. CASE c.tab = "nobody"
        BY <3>1, <4>1, <4>3 DEF Orderly, OrphansOK, Orphans
      <4> QED BY <1>5, <4>2, <4>3
    <3> QED BY <3>1, <3>2 DEF Orderly, RefreshOK
  <2> QED BY <1>8, <2>1, <2>2, <2>3 DEF Of
<1>21. LogoutOK(t)'
  <2>1. SUFFICES ASSUME NEW l \in Of(t, {"logout"})' PROVE
           /\ l.status = 200 => live' = {}
           /\ l.held /\ faults = 0 => live' = {} \/ mem[t].refresh # 0
    BY <1>3 DEF LogoutOK
  <2>2. CASE l = x /\ c.tab = t
    <3>1. c \in Of(t, {"logout"}) /\ c.kind = "logout" /\ c.kind \notin Open
      BY <1>7, <2>2, KindFacts DEF Of
    <3>2. live' = {} \/ live' = live
      BY <1>2, <3>1 DEF Served
    <3>3. s = 200 => live' = {}
      BY <1>2, <3>1 DEF Served
    <3> QED BY <1>7, <2>2, <3>1, <3>2, <3>3 DEF Orderly, LogoutOK
  <2>3. CASE l \in calls /\ l # c
    <3>1. l \in Of(t, {"logout"}) /\ l \in Of(t, Store) /\ l \in Of(t, Store \ {"me"})
      BY <2>1, <2>3, KindFacts DEF Of
    <3>2. c.kind \notin Sign
      <4>1. CASE c.tab = t
        BY <1>4, <2>3, <3>1, <4>1, KindFacts DEF OneCall, Of
      <4>2. CASE c.tab = "nobody"
        BY <3>1, <4>2 DEF Orderly, OrphanSign, Of
      <4> QED BY <1>5, <4>1, <4>2
    <3> QED BY <1>19, <3>1, <3>2 DEF Orderly, LogoutOK
  <2> QED BY <1>8, <2>1, <2>2, <2>3 DEF Of
<1>22. TokenOK(t)'
  <2>1. SUFFICES ASSUME ~ended, faults = 0 PROVE
           /\ mem[t].refresh # 0 =>
                 mem[t].refresh \in live' \/ \E r \in Of(t, {"refresh"})' : r.status = 200
           /\ \A d \in calls' : d.won # 0 => d.won \in live'
           /\ \A r \in Of(t, {"refresh"})' : r.status = 401 => mem[t].refresh = 0
    BY <1>3 DEF TokenOK
  <2>2. /\ mem[t].refresh # 0 =>
              mem[t].refresh \in live \/ \E r \in Of(t, {"refresh"}) : r.status = 200
        /\ \A d \in calls : d.won # 0 => d.won \in live
        /\ \A r \in Of(t, {"refresh"}) : r.status = 401 => mem[t].refresh = 0
    BY <2>1 DEF Orderly, TokenOK
  <2>3. c.kind \notin {"logout", "password", "reset"}
    BY <2>1 DEF Base, RequestsOK, RequestOK
  <2>4. c.kind # "refresh" => live \subseteq live'
    BY <1>2, <2>3, KindFacts DEF Served
  (* A refresh of the tab finds its token. *)
  <2>5. ASSUME c \in Of(t, {"refresh"}), mem[t].refresh # 0 PROVE s = 200
    <3>1. c.body = mem[t].refresh /\ c.cookies.refresh \in {0, mem[t].refresh}
      BY <1>1, <2>5 DEF Orderly, RefreshOK
    <3>2. Token(c) = mem[t].refresh
      BY <3>1 DEF Token
    <3>3. ~ \E r \in Of(t, {"refresh"}) : r.status = 200
      BY <1>4, <2>5 DEF OneRefresh
    <3>4. c.kind = "refresh" /\ Answers(c.kind) = {200, 401, 415, 500}
      BY <2>5, KindFacts DEF Of, Answers
    <3> QED BY <1>2, <1>6, <2>2, <2>5, <3>1, <3>2, <3>3, <3>4 DEF Served
  <2>6. ASSUME mem[t].refresh # 0
        PROVE  mem[t].refresh \in live' \/ \E r \in Of(t, {"refresh"})' : r.status = 200
    <3>1. c.tab = t
      BY <1>5, <2>6 DEF Orderly, OrphansOK, Orphans
    <3>2. CASE \E r \in Of(t, {"refresh"}) : r.status = 200
      BY <1>4, <1>9, <3>2 DEF Of
    <3>3. CASE mem[t].refresh \in live /\ c.kind # "refresh"
      BY <2>4, <3>3
    <3>4. CASE c.kind = "refresh"
      <4>1. x.status = 200
        BY <1>7, <2>5, <2>6, <3>1, <3>4 DEF Of
      <4>2. x \in Of(t, {"refresh"})'
        BY <1>7, <3>1, <3>4 DEF Of
      <4> QED BY <4>1, <4>2
    <3> QED BY <2>2, <2>6, <3>2, <3>3, <3>4
  <2>7. ASSUME NEW d \in calls', d.won # 0 PROVE d.won \in live'
    <3>1. CASE d = x
      BY <1>2, <1>7, <2>7, <3>1 DEF Served
    <3>2. CASE d \in calls /\ d # c
      <4>1. d.won \in live /\ d.status = 200 /\ d.phase = "answered" /\ d.tab = t
            /\ d.kind \in Sign \cup {"refresh"}
        BY <1>5, <2>2, <2>7, <3>2
      <4>2. c.kind # "refresh"
        <5>1. SUFFICES ASSUME c.kind = "refresh" PROVE FALSE
          OBVIOUS
        <5>2. CASE c.tab = "nobody"
          BY <3>2, <4>1, <5>2 DEF Orderly, OrphansOK, SignAlone, Orphans, Of
        <5>3. CASE c.tab = t /\ d.kind = "refresh"
          BY <1>4, <3>2, <4>1, <5>1, <5>3 DEF OneRefresh, Of
        <5>4. CASE c.tab = t /\ d.kind \in Sign
          BY <3>2, <4>1, <5>1, <5>4 DEF Orderly, SignAlone, Of
        <5> QED BY <1>5, <4>1, <5>2, <5>3, <5>4
      <4> QED BY <2>4, <4>1, <4>2
    <3> QED BY <1>8, <3>1, <3>2
  <2>8. ASSUME NEW r \in Of(t, {"refresh"})', r.status = 401 PROVE mem[t].refresh = 0
    <3>1. CASE r = x /\ c.tab = t
      <4>1. c \in Of(t, {"refresh"}) /\ s = 401
        BY <1>7, <2>8, <3>1 DEF Of
      <4> QED BY <2>5, <4>1
    <3>2. CASE r \in calls
      BY <2>2, <2>8, <3>2 DEF Of
    <3> QED BY <1>8, <2>8, <3>1, <3>2 DEF Of
  <2> QED BY <2>6, <2>7, <2>8
<1> QED BY <1>13, <1>14, <1>15, <1>16, <1>17, <1>18, <1>20, <1>21, <1>22 DEF Orderly

LEMMA LoseOrderly ==
    ASSUME NEW t, Tab = {t}, Base, Lose, Orderly(t)
    PROVE  Orderly(t)'
<1>1. PICK c \in calls :
          /\ c.phase # "waiting" /\ c.tab \in Tab /\ faults' = faults + 1
          /\ calls' = (calls \ {c}) \cup {AnswerOf(c, 500, 0)}
          /\ UNCHANGED <<gen, live, fresh, jar, blocked, mem, store, ended>>
  BY DEF Lose, AnswerOf, server, browser, tabs
<1>2. c.tab = t /\ faults' # 0 /\ 500 \in Statuses /\ 0 \in Gen /\ c \in Requests /\ t # "nobody"
  BY <1>1, OneTab, GenFacts DEF Statuses
<1>3. PICK x \in Requests :
          /\ calls' = (calls \ {c}) \cup {x}
          /\ x.tab = t /\ x.kind = c.kind /\ x.phase = "answered"
          /\ x.bearer = 0 /\ x.body = 0 /\ x.cookies.access = 0 /\ x.held = c.held
          /\ x.status = 500 /\ x.won = 0
  <2>1. PICK x : x = AnswerOf(c, 500, 0)
    OBVIOUS
  <2>2. NoKey.access = 0
    BY DEF NoKey
  <2> QED BY <1>1, <1>2, <2>1, <2>2, AnswerFacts
<1>4. \A d \in calls' : d = x \/ (d \in calls /\ d # c)
  BY <1>3
<1>5. \A K : Of(t, K)' # {} => Of(t, K) # {}
  BY <1>2, <1>3 DEF Of
<1>6. Orphans' = Orphans /\ Of("nobody", Sign)' = Of("nobody", Sign)
  BY <1>2, <1>3 DEF Orphans, Of
<1>7. Memory(t)' /\ HeaderOK(t)' /\ NotForged' /\ TokenOK(t)'
  BY <1>1, <1>2, <1>3 DEF Orderly, Memory, HeaderOK, NotForged, TokenOK
<1>8. SignAlone(t)'
  <2>1. SUFFICES ASSUME Of(t, Sign)' # {} PROVE SignAlone(t)'
    BY DEF SignAlone
  <2>2. /\ Orphans = {} /\ ~store[t].auth
        /\ mem[t].csrf = 0 /\ jar.access \notin fresh
        /\ \A d \in calls : d.kind \in Sign \cup {"reset", "refresh"}
        /\ Of(t, {"refresh"}) # {} => \A d \in Of(t, Sign) : d.phase = "waiting"
        /\ ~blocked => \A d \in Of(t, {"refresh"}) : d.body = 0 /\ d.status # 200
    BY <1>5, <2>1 DEF Orderly, SignAlone
  <2>3. Of(t, {"refresh"})' # {} => \A d \in Of(t, Sign)' : d.phase = "waiting"
    BY <1>1, <1>2, <1>3, <1>4, <1>5, <2>2 DEF Of
  <2>4. ~blocked => \A d \in Of(t, {"refresh"})' : d.body = 0 /\ d.status # 200
    BY <1>3, <1>4, <2>2 DEF Of
  <2>5. \A d \in calls' : d.kind \in Sign \cup {"reset", "refresh"}
    BY <1>3, <1>4, <2>2
  <2> QED BY <1>1, <1>6, <2>2, <2>3, <2>4, <2>5 DEF SignAlone
<1>9. OrphansOK(t)'
  BY <1>1, <1>3, <1>4, <1>6 DEF Orderly, OrphansOK, Of
<1>10. OrphanSign(t)'
  BY <1>1, <1>3, <1>4, <1>5, <1>6 DEF Orderly, OrphanSign, Of
<1>11. RefreshOK(t)' /\ LogoutOK(t)'
  BY <1>1, <1>2, <1>3, <1>4 DEF Orderly, RefreshOK, LogoutOK, Of
<1> QED BY <1>7, <1>8, <1>9, <1>10, <1>11 DEF Orderly

LEMMA ExpireOrderly ==
    ASSUME NEW t, Tab = {t}, Expire, Orderly(t)
    PROVE  Orderly(t)'
<1>1. /\ fresh' \subseteq fresh
      /\ UNCHANGED <<live, jar, blocked, mem, store, calls, faults, ended>>
  BY DEF Expire, browser, tabs
<1>2. Memory(t)' /\ HeaderOK(t)' /\ NotForged' /\ RefreshOK(t)' /\ LogoutOK(t)' /\ TokenOK(t)'
  BY <1>1 DEF Orderly, Memory, HeaderOK, NotForged, RefreshOK, LogoutOK, TokenOK, Of
<1>3. SignAlone(t)' /\ OrphansOK(t)' /\ OrphanSign(t)'
  BY <1>1 DEF Orderly, SignAlone, OrphansOK, OrphanSign, Orphans, Of
<1> QED BY <1>2, <1>3 DEF Orderly

LEMMA FinishOrderly ==
    ASSUME NEW t, Tab = {t}, Base, NEW c \in calls, Finish(c), Orderly(t)
    PROVE  Orderly(t)'
<1>1. PICK ok : ok = (c.status = 200)
  OBVIOUS
<1>2. /\ c.phase = "answered" /\ c.kind # "refresh"
      /\ calls' = calls \ {c} /\ jar' = Stored(c)
      /\ mem' = [mem EXCEPT ![c.tab] = MemAfter(mem[c.tab], c.kind, ok, c.won)]
      /\ store' = [store EXCEPT ![c.tab] = StoreAfter(store[c.tab], c.kind, ok)]
      /\ UNCHANGED <<live, fresh, blocked, faults, ended>>
  BY <1>1 DEF Finish, server
<1>3. c.tab = t /\ c \in Requests /\ c.status # 0 /\ RequestOK(c)
  BY <1>2, OneTab
<1>4. /\ mem'[t] = MemAfter(mem[t], c.kind, ok, c.won)
      /\ store'[t] = StoreAfter(store[t], c.kind, ok)
  <2>1. mem \in [Tab -> Keys] /\ store \in [Tab -> [auth : BOOLEAN, loading : BOOLEAN]] /\ t \in Tab
    BY DEF Base, TabsOK
  <2> QED BY <1>2, <1>3, <2>1
<1>0. /\ c.phase = "answered" /\ c.kind # "refresh"
      /\ calls' = calls \ {c} /\ jar' = Stored(c)
      /\ UNCHANGED <<live, fresh, blocked, faults, ended>>
  BY <1>2
<1>13. c.won # 0 <=> ok /\ c.kind \in Sign
  BY <1>0, <1>1, <1>3 DEF RequestOK
<1>5. /\ t # "nobody" /\ OneCall(t) /\ mem[t] \in Keys /\ (blocked => jar.access = 0)
      /\ store[t] \in [auth : BOOLEAN, loading : BOOLEAN]
  BY OneTab
<1>6. \A K : Of(t, K)' = Of(t, K) \ {c}
  BY <1>0 DEF Of
<1>7. Of(t, {"refresh"})' = Of(t, {"refresh"})
  <2>1. c \notin Of(t, {"refresh"})
    BY <1>0 DEF Of
  <2> QED BY <1>6, <2>1
<1>14. /\ Of(t, Store \ {"me"})' \subseteq Of(t, Store \ {"me"})
       /\ Of(t, {"me"})' \subseteq Of(t, {"me"})
  BY <1>0 DEF Of
<1>8. Orphans' = Orphans /\ Of("nobody", Sign)' = Of("nobody", Sign)
  BY <1>0, <1>3, <1>5 DEF Orphans, Of
<1>9. HeaderOK(t)' /\ NotForged'
  BY <1>0 DEF Orderly, HeaderOK, NotForged
<1>10. CASE c.kind \in Sign /\ ok
  <2>1. /\ mem'[t].access = c.won /\ mem'[t].refresh = c.won /\ mem'[t].csrf = mem[t].csrf
        /\ store'[t].auth
    <3>1. mem'[t] = [mem[t] EXCEPT !.access = c.won, !.refresh = c.won]
      BY <1>4, <1>10, KindFacts DEF MemAfter
    <3>2. (store[t].auth \/ ok) = TRUE
      BY <1>10, Zenon
    <3>6. c.kind # "me" /\ c.kind # "logout" /\ c.kind \in Sign
      BY <1>10, KindFacts
    <3>4. store'[t] = [auth |-> store[t].auth \/ ok, loading |-> FALSE]
      BY <1>4, <3>6, Zenon DEF StoreAfter
    <3>5. store'[t] = [auth |-> TRUE, loading |-> FALSE]
      BY <3>2, <3>4, Zenon
    <3>3. store'[t].auth
      BY <3>5
    <3> QED BY <1>5, <3>1, <3>3 DEF Keys
  <2>2. c.won # 0
    BY <1>10, <1>13
  <2>3. (~blocked => jar'.access = c.won) /\ (blocked => jar'.access = 0)
    BY <1>0, <2>2, StoredFacts
  <2>4. c \in Of(t, Sign) /\ c \in Of(t, Store)
    BY <1>3, <1>10, KindFacts DEF Of
  <2>5. /\ Orphans = {} /\ mem[t].csrf = 0
        /\ \A d \in calls : d.kind \in Sign \cup {"reset", "refresh"}
        /\ Of(t, {"refresh"}) = {}
    <3>1. c.phase # "waiting"
      BY <1>0
    <3> QED BY <2>4, <3>1 DEF Orderly, SignAlone
  <2>6. Of(t, Store)' = {} /\ Of(t, Sign)' = {} /\ Of(t, {"logout"})' = {}
    <3>1. Of(t, Store)' = {}
      BY <1>5, <1>6, <2>4 DEF OneCall
    <3> QED BY <3>1, KindFacts DEF Of
  <2>7. Memory(t)'
    BY <1>0, <2>1, <2>3, <2>5 DEF Memory
  <2>8. SignAlone(t)' /\ OrphansOK(t)' /\ OrphanSign(t)' /\ RefreshOK(t)' /\ LogoutOK(t)'
    BY <1>7, <1>8, <2>5, <2>6 DEF SignAlone, OrphansOK, OrphanSign, RefreshOK, LogoutOK, Orphans, Of
  <2>9. TokenOK(t)'
    BY <1>0, <1>7, <2>1, <2>2, <2>5 DEF Orderly, TokenOK
  <2> QED BY <1>9, <2>7, <2>8, <2>9 DEF Orderly
<1>11. CASE ~(c.kind \in Sign /\ ok) /\ c.kind # "logout" /\ ~(c.kind = "me" /\ ~ok)
  <2>1. mem'[t] = mem[t]
    BY <1>4, <1>11 DEF MemAfter
  <2>2. jar'.access = jar.access
    <3>1. c.won = 0 /\ ~(c.kind = "logout" /\ c.status = 200)
      BY <1>11, <1>13
    <3> QED BY <1>0, <1>5, <3>1, StoredFacts
  <2>3. \/ store'[t].auth = store[t].auth
        \/ store'[t].auth = TRUE /\ c.kind = "me" /\ ok
    BY <1>4, <1>5, <1>11, KindFacts DEF StoreAfter
  <2>4. Memory(t)'
    BY <1>0, <2>1, <2>2, <2>3 DEF Orderly, Memory
  <2>5. SignAlone(t)'
    <3>1. ASSUME Of(t, Sign)' # {} PROVE store'[t].auth = store[t].auth
      <4>1. SUFFICES ASSUME c.kind = "me" PROVE FALSE
        BY <2>3
      <4>2. PICK d : d \in Of(t, Sign) /\ d # c
        BY <1>6, <3>1
      <4>3. c \in Of(t, Store) /\ d \in Of(t, Store)
        BY <1>3, <4>1, <4>2, KindFacts DEF Of
      <4> QED BY <1>5, <4>2, <4>3 DEF OneCall
    <3> QED BY <1>0, <1>6, <1>7, <1>8, <2>1, <2>2, <3>1 DEF Orderly, SignAlone
  <2>6. OrphansOK(t)'
    BY <1>7, <1>8, <2>1 DEF Orderly, OrphansOK
  <2>7. OrphanSign(t)'
    <3>1. c.kind = "me" => c \in Of(t, {"me"})
      BY <1>3 DEF Of
    <3>2. SUFFICES ASSUME Of("nobody", Sign) # {} PROVE
             /\ ~store'[t].auth /\ jar'.access \notin fresh'
             /\ Of(t, Store \ {"me"})' = {}
             /\ \A d \in Of(t, {"me"})' : d.bearer = 0 /\ d.cookies.access = 0 /\ d.status # 200
      BY <1>8 DEF OrphanSign
    <3>3. /\ ~store[t].auth /\ jar.access \notin fresh
          /\ Of(t, Store \ {"me"}) = {}
          /\ \A d \in Of(t, {"me"}) : d.bearer = 0 /\ d.cookies.access = 0 /\ d.status # 200
      BY <3>2 DEF Orderly, OrphanSign
    <3>4. ~store'[t].auth
      BY <1>1, <2>3, <3>1, <3>3
    <3> QED BY <1>0, <1>14, <2>2, <3>3, <3>4
  <2>8. RefreshOK(t)' /\ LogoutOK(t)'
    BY <1>0, <1>6, <1>7, <2>1 DEF Orderly, RefreshOK, LogoutOK
  <2>9. TokenOK(t)'
    BY <1>0, <1>7, <2>1 DEF Orderly, TokenOK
  <2> QED BY <1>9, <2>4, <2>5, <2>6, <2>7, <2>8, <2>9 DEF Orderly
<1>12. CASE c.kind = "logout" \/ (c.kind = "me" /\ ~ok)
  <2>1. mem'[t].access = 0 /\ mem'[t].refresh = 0 /\ mem'[t].csrf = 0
    BY <1>4, <1>12, KindFacts DEF MemAfter, NoKey
  <2>2. store'[t].auth = FALSE
    BY <1>4, <1>12, KindFacts DEF StoreAfter
  <2>3. c.kind # "logout" => jar'.access = jar.access
    <3>1. c.won = 0
      BY <1>12, <1>13, KindFacts
    <3> QED BY <1>0, <1>5, <3>1, StoredFacts
  <2>4. c \in Of(t, Store) /\ (c.kind # "me" => c \in Of(t, Store \ {"me"}))
    BY <1>3, <1>12, KindFacts DEF Of
  <2>5. Of(t, Sign)' = {} /\ Of(t, {"logout"})' = {}
    <3>1. Of(t, Store)' = {}
      BY <1>5, <1>6, <2>4 DEF OneCall
    <3> QED BY <3>1, KindFacts DEF Of
  <2>6. Memory(t)' /\ SignAlone(t)' /\ LogoutOK(t)'
    BY <2>1, <2>5 DEF Memory, SignAlone, LogoutOK
  <2>7. OrphansOK(t)'
    BY <1>7, <1>8, <2>1 DEF Orderly, OrphansOK
  <2>8. OrphanSign(t)'
    <3>1. SUFFICES ASSUME Of("nobody", Sign) # {} PROVE
             /\ ~store'[t].auth /\ jar'.access \notin fresh'
             /\ Of(t, Store \ {"me"})' = {}
             /\ \A d \in Of(t, {"me"})' : d.bearer = 0 /\ d.cookies.access = 0 /\ d.status # 200
      BY <1>8 DEF OrphanSign
    <3>2. /\ jar.access \notin fresh
          /\ Of(t, Store \ {"me"}) = {}
          /\ \A d \in Of(t, {"me"}) : d.bearer = 0 /\ d.cookies.access = 0 /\ d.status # 200
      BY <3>1 DEF Orderly, OrphanSign
    <3>3. c.kind # "logout"
      BY <1>12, <2>4, <3>2
    <3> QED BY <1>0, <1>14, <2>2, <2>3, <3>2, <3>3
  <2>9. RefreshOK(t)' /\ TokenOK(t)'
    BY <1>0, <1>7, <2>1 DEF Orderly, RefreshOK, TokenOK
  <2> QED BY <1>9, <2>6, <2>7, <2>8, <2>9 DEF Orderly
<1> QED BY <1>10, <1>11, <1>12

(* A refresh that begins uses the tokens there are. *)
LEMMA RefreshOfJar ==
    ASSUME NEW t, Tab = {t}, Base, Memory(t), NEW r \in Refresh(t)
    PROVE  /\ Refresh(t) = {r} /\ Of(t, {"refresh"}) = {}
           /\ r \in Requests /\ r.tab = t /\ r.kind = "refresh" /\ r.phase = "sent"
           /\ r.status = 0 /\ r.won = 0 /\ r.body = mem[t].refresh
           /\ mem[t].refresh # 0 => r.cookies.refresh \in {0, mem[t].refresh}
<1>1. /\ t \in Tab /\ mem[t].refresh = mem[t].access /\ (blocked => jar.access = 0)
      /\ ~blocked => mem[t].access \in {0, jar.access}
      /\ Cookies.refresh = jar.access
  BY OneTab, CookiesFacts DEF Memory, Base
<1>2. /\ Refresh(t) = {r} /\ Of(t, {"refresh"}) = {}
      /\ r \in Requests /\ r.tab = t /\ r.kind = "refresh" /\ r.phase = "sent"
      /\ r.status = 0 /\ r.won = 0 /\ r.body = mem[t].refresh /\ r.cookies = Cookies
  BY <1>1, RefreshFacts
<1> QED BY <1>1, <1>2

LEMMA UnauthorizedOrderly ==
    ASSUME NEW t, Tab = {t}, Base, NEW c \in calls, Unauthorized(c), Orderly(t)
    PROVE  Orderly(t)'
<1>1. PICK x : x = [c EXCEPT !.phase = "waiting", !.status = 0]
  OBVIOUS
<1>2. /\ c.phase = "answered" /\ c.kind # "refresh" /\ c.status = 401
      /\ calls' = (calls \ {c}) \cup {x} \cup Refresh(c.tab)
      /\ UNCHANGED <<live, fresh, jar, blocked, mem, store, faults, ended>>
  BY <1>1 DEF Unauthorized, server, browser, tabs
<1>3. /\ c.tab = t /\ c \in Requests /\ RequestOK(c) /\ OneCall(t) /\ t # "nobody"
      /\ Memory(t)
  BY <1>2, OneTab DEF Orderly
<1>4. c.won = 0 /\ c.kind # "reset"
  BY <1>2, <1>3, KindFacts DEF RequestOK, Answers
<1>5. /\ x.tab = t /\ x.kind = c.kind /\ x.phase = "waiting" /\ x.status = 0 /\ x.won = 0
      /\ x.bearer = c.bearer /\ x.cookies = c.cookies /\ x.held = c.held
  BY <1>1, <1>3, <1>4 DEF Requests
<1>6. ASSUME NEW r \in Refresh(t)
      PROVE  /\ Of(t, {"refresh"}) = {}
             /\ r.tab = t /\ r.kind = "refresh" /\ r.phase = "sent"
             /\ r.status = 0 /\ r.won = 0 /\ r.body = mem[t].refresh
             /\ mem[t].refresh # 0 => r.cookies.refresh \in {0, mem[t].refresh}
  BY <1>3, RefreshOfJar
<1>7. \A d \in calls' : (d \in calls /\ d # c) \/ d = x \/ d \in Refresh(t)
  BY <1>2, <1>3
<1>8. /\ \A K : Of(t, K)' # {} /\ "refresh" \notin K => Of(t, K) # {}
      /\ \A d \in Of(t, {"refresh"})' : d \in Of(t, {"refresh"}) \/ d \in Refresh(t)
  BY <1>2, <1>3, <1>5, <1>6, <1>7 DEF Of
<1>9. Of(t, {"refresh"}) \subseteq Of(t, {"refresh"})'
  BY <1>2 DEF Of
<1>10. Orphans' = Orphans /\ Of("nobody", Sign)' = Of("nobody", Sign)
  BY <1>2, <1>3, <1>5, <1>6 DEF Orphans, Of
<1>11. Memory(t)' /\ NotForged'
  BY <1>2, <1>5, <1>6, <1>7 DEF Orderly, Memory, NotForged
<1>12. HeaderOK(t)'
  BY <1>5, <1>6, <1>7, KindFacts DEF Orderly, HeaderOK
<1>13. SignAlone(t)'
  <2>1. SUFFICES ASSUME Of(t, Sign)' # {} PROVE SignAlone(t)'
    BY DEF SignAlone
  <2>2. /\ Orphans = {} /\ ~store[t].auth
        /\ mem[t].csrf = 0 /\ jar.access \notin fresh
        /\ \A d \in calls : d.kind \in Sign \cup {"reset", "refresh"}
        /\ ~blocked => \A d \in Of(t, {"refresh"}) : d.body = 0 /\ d.status # 200
    BY <1>8, <2>1, KindFacts DEF Orderly, SignAlone
  <2>3. c.kind \in Sign
    BY <1>2, <1>4, <2>2
  <2>4. \A d \in Of(t, Sign)' : d = x
    BY <1>3, <1>5, <1>6, <1>7, <2>3, KindFacts DEF Of, OneCall
  <2>5. ~blocked => mem[t].refresh = 0
    BY <1>3, <2>2 DEF Memory
  <2>6. ~blocked => \A d \in Of(t, {"refresh"})' : d.body = 0 /\ d.status # 200
    BY <1>6, <1>8, <2>2, <2>5
  <2>7. \A d \in calls' : d.kind \in Sign \cup {"reset", "refresh"}
    BY <1>5, <1>6, <1>7, <2>2
  <2> QED BY <1>2, <1>5, <1>10, <2>2, <2>4, <2>6, <2>7 DEF SignAlone
<1>14. OrphansOK(t)'
  BY <1>2, <1>6, <1>8, <1>10 DEF Orderly, OrphansOK
<1>15. OrphanSign(t)'
  <2>1. SUFFICES ASSUME Of("nobody", Sign) # {} PROVE
           /\ Of(t, Store \ {"me"})' = {}
           /\ \A d \in Of(t, {"me"})' : d.bearer = 0 /\ d.cookies.access = 0 /\ d.status # 200
    BY <1>2, <1>10 DEF Orderly, OrphanSign
  <2>2. /\ Of(t, Store \ {"me"}) = {}
        /\ \A d \in Of(t, {"me"}) : d.bearer = 0 /\ d.cookies.access = 0 /\ d.status # 200
    BY <2>1 DEF Orderly, OrphanSign
  <2>3. Of(t, Store \ {"me"})' = {}
    BY <1>3, <1>5, <1>6, <1>7, <2>2, KindFacts DEF Of
  <2>4. ASSUME NEW d \in Of(t, {"me"})' PROVE d.bearer = 0 /\ d.cookies.access = 0 /\ d.status # 200
    <3>1. CASE d = x
      <4>1. c \in Of(t, {"me"})
        BY <1>3, <1>5, <2>4, <3>1 DEF Of
      <4> QED BY <1>5, <2>2, <3>1, <4>1
    <3>2. CASE d # x
      BY <1>6, <1>7, <2>2, <2>4, <3>2 DEF Of
    <3> QED BY <3>1, <3>2
  <2> QED BY <2>3, <2>4
<1>16. RefreshOK(t)'
  <2>1. ASSUME NEW r \in Of(t, {"refresh"})' PROVE
           /\ r.phase = "sent" /\ mem[t].refresh # 0 =>
                 r.body = mem[t].refresh /\ r.cookies.refresh \in {0, mem[t].refresh}
           /\ r.status = 415 => mem[t].refresh = 0
           /\ r.status = 401 => live = {}
    BY <1>6, <1>8 DEF Orderly, RefreshOK
  <2> QED BY <1>2, <2>1 DEF RefreshOK
<1>17. LogoutOK(t)'
  <2>1. ASSUME NEW l \in Of(t, {"logout"})' PROVE
           /\ l.status = 200 => live = {}
           /\ l.held /\ faults = 0 => live = {} \/ mem[t].refresh # 0
    <3>1. CASE l = x
      <4>1. c \in Of(t, {"logout"})
        BY <1>3, <1>5, <2>1, <3>1 DEF Of
      <4> QED BY <1>5, <3>1, <4>1 DEF Orderly, LogoutOK
    <3>2. CASE l # x
      <4>1. l \in Of(t, {"logout"})
        BY <1>6, <1>7, <2>1, <3>2 DEF Of
      <4> QED BY <4>1 DEF Orderly, LogoutOK
    <3> QED BY <3>1, <3>2
  <2> QED BY <1>2, <2>1 DEF LogoutOK
<1>18. TokenOK(t)'
  BY <1>2, <1>5, <1>6, <1>7, <1>8, <1>9 DEF Orderly, TokenOK
<1> QED BY <1>11, <1>12, <1>13, <1>14, <1>15, <1>16, <1>17, <1>18 DEF Orderly

LEMMA RefreshedOrderly ==
    ASSUME NEW t, Tab = {t}, Base, NEW c \in calls, Refreshed(c), Orderly(t)
    PROVE  Orderly(t)'
<1>1. /\ c.tab = t /\ c.phase = "answered" /\ c.kind = "refresh" /\ c.status = 200
      /\ c.won # 0 /\ jar' = Stored(c)
      /\ UNCHANGED <<live, fresh, blocked, store, faults, ended>>
  BY RefreshedFacts
<1>2. PICK m \in Keys :
          /\ m.access = c.won /\ m.refresh = c.won /\ m.csrf = Stored(c).access
          /\ mem' = [mem EXCEPT ![c.tab] = m]
          /\ calls' = (calls \ ({c} \cup Waiting(c.tab)))
                         \cup {Resent(c, w, m) : w \in Waiting(c.tab)}
  BY RefreshedFacts
<1>3. PICK a : a = Stored(c).access
  OBVIOUS
<1>4. /\ mem'[t] = m /\ m.csrf = a /\ jar'.access = a
      /\ (~blocked => a = c.won) /\ (blocked => a = 0)
  <2>1. mem \in [Tab -> Keys] /\ t \in Tab
    BY DEF Base, TabsOK
  <2> QED BY <1>1, <1>2, <1>3, <2>1, StoredFacts
<1>5. t # "nobody" /\ OneRefresh(t) /\ 0 \notin fresh /\ c \in Of(t, {"refresh"})
  BY <1>1, OneTab DEF Of
<1>6. ASSUME NEW w \in Waiting(t), NEW x, x = Resent(c, w, m)
      PROVE  /\ w \in calls /\ w.tab = t /\ w.kind # "refresh"
             /\ x.tab = t /\ x.kind = w.kind /\ x.phase = "sent" /\ x.status = 0 /\ x.won = 0
             /\ x.kind \notin Safe /\ x.cookies.access # 0 =>
                   x.header # 0 /\ x.header = x.cookies.csrf
  <2>1. w \in calls /\ w.tab = t /\ w.kind # "refresh"
    BY OneTab DEF Waiting, RequestOK
  <2>2. /\ x.tab = t /\ x.kind = w.kind /\ x.phase = "sent" /\ x.status = 0 /\ x.won = 0
        /\ x.cookies.csrf = x.cookies.access
        /\ a \in fresh => x.cookies.access = a
        /\ a \notin fresh => x.cookies.access = 0
        /\ w.kind \notin Safe => x.header = Csrf(m)
    BY <1>1, <1>3, <1>6, ResentFacts
  <2>3. a # 0 => Csrf(m) = a
    BY <1>4, CsrfFacts DEF Base
  <2> QED BY <1>5, <2>1, <2>2, <2>3
<1>7. ASSUME NEW d \in calls'
      PROVE  \/ d \in calls /\ d # c /\ d.phase # "waiting"
             \/ \E w \in Waiting(t) : d = Resent(c, w, m)
  <2>1. d \in calls => d.tab = t \/ (d.tab = "nobody" /\ d.phase # "waiting")
    BY OneTab
  <2>2. d \in calls /\ d.tab = t /\ d.phase = "waiting" => d \in Waiting(t)
    BY DEF Waiting
  <2> QED BY <1>1, <1>2, <2>1, <2>2
<1>8. Orphans' = {}
  <2>1. Orphans = {}
    BY <1>1, <1>5 DEF Orderly, OrphansOK
  <2> QED BY <1>5, <1>6, <1>7, <2>1 DEF Orphans
<1>9. Of(t, {"refresh"})' = {}
  BY <1>5, <1>6, <1>7 DEF Of, OneRefresh
<1>10. Memory(t)'
  BY <1>1, <1>2, <1>4 DEF Memory
<1>11. SignAlone(t)'
  <2>1. SUFFICES ASSUME NEW s \in Of(t, Sign)' PROVE SignAlone(t)'
    BY DEF SignAlone
  <2>2. Of(t, Sign) # {}
    BY <1>6, <1>7, <2>1 DEF Of
  <2>3. /\ ~store[t].auth /\ \A d \in calls : d.kind \in Sign \cup {"reset", "refresh"}
        /\ blocked
    BY <1>1, <1>5, <2>2 DEF Orderly, SignAlone
  <2>4. \A d \in calls' : d.kind \in Sign \cup {"reset", "refresh"}
    BY <1>6, <1>7, <2>3
  <2> QED BY <1>1, <1>4, <1>5, <1>8, <1>9, <2>3, <2>4 DEF SignAlone
<1>12. OrphansOK(t)' /\ OrphanSign(t)'
  BY <1>8 DEF OrphansOK, OrphanSign, Orphans, Of
<1>13. HeaderOK(t)' /\ NotForged'
  BY <1>6, <1>7 DEF Orderly, HeaderOK, NotForged
<1>14. RefreshOK(t)'
  BY <1>9 DEF RefreshOK
<1>15. LogoutOK(t)'
  <2>1. ASSUME NEW l \in Of(t, {"logout"})', l.status = 200 PROVE live = {}
    BY <1>6, <1>7, <2>1 DEF Orderly, LogoutOK, Of
  <2> QED BY <1>1, <1>2, <1>4, <2>1 DEF LogoutOK
<1>16. TokenOK(t)'
  BY <1>1, <1>2, <1>4, <1>6, <1>7, <1>9 DEF Orderly, TokenOK
<1> QED BY <1>10, <1>11, <1>12, <1>13, <1>14, <1>15, <1>16 DEF Orderly

LEMMA RefreshFailedOrderly ==
    ASSUME NEW t, Tab = {t}, Base, NEW c \in calls, RefreshFailed(c), Orderly(t)
    PROVE  Orderly(t)'
<1>1. /\ c.phase = "answered" /\ c.kind = "refresh" /\ c.status # 200
      /\ calls' = calls \ ({c} \cup Waiting(c.tab))
      /\ mem' = [mem EXCEPT ![c.tab] = NoKey]
      /\ UNCHANGED <<live, fresh, jar, blocked, faults, ended>>
  BY DEF RefreshFailed, server, browser
<1>2. PICK l : store' = [store EXCEPT ![c.tab] = [auth |-> FALSE, loading |-> l]]
  BY DEF RefreshFailed
<1>3. c.tab = t /\ RequestOK(c) /\ t # "nobody" /\ OneRefresh(t)
  BY <1>1, OneTab
<1>4. /\ mem'[t].access = 0 /\ mem'[t].refresh = 0 /\ mem'[t].csrf = 0 /\ ~store'[t].auth
  <2>1. mem \in [Tab -> Keys] /\ store \in [Tab -> [auth : BOOLEAN, loading : BOOLEAN]] /\ t \in Tab
    BY DEF Base, TabsOK
  <2> QED BY <1>1, <1>2, <1>3, <2>1 DEF NoKey
<1>5. c \in Of(t, {"refresh"})
  BY <1>1, <1>3 DEF Of
<1>6. \A d \in calls' : d \in calls /\ d # c /\ d \notin Waiting(t)
  BY <1>1, <1>3
<1>7. \A K : Of(t, K)' \subseteq Of(t, K)
  BY <1>6 DEF Of
<1>8. Of(t, {"refresh"})' = {}
  BY <1>3, <1>5, <1>6 DEF Of, OneRefresh
<1>9. Orphans' = Orphans /\ Of("nobody", Sign)' = Of("nobody", Sign)
  BY <1>1, <1>3 DEF Orphans, Of, Waiting
<1>10. Memory(t)' /\ HeaderOK(t)' /\ NotForged' /\ OrphansOK(t)' /\ RefreshOK(t)'
  BY <1>1, <1>4, <1>6, <1>8 DEF Orderly, Memory, HeaderOK, NotForged, OrphansOK, RefreshOK
<1>11. SignAlone(t)'
  <2>1. Of(t, Sign)' = {}
    <3>1. SUFFICES ASSUME NEW s \in Of(t, Sign)' PROVE FALSE
      OBVIOUS
    <3>2. s \in Of(t, Sign) /\ s \notin Waiting(t)
      BY <1>6, <1>7 DEF Of
    <3>3. s.phase = "waiting"
      BY <1>5, <3>2 DEF Orderly, SignAlone
    <3> QED BY <3>2, <3>3 DEF Waiting, Of
  <2> QED BY <2>1 DEF SignAlone
<1>12. OrphanSign(t)'
  <2>1. SUFFICES ASSUME Of("nobody", Sign) # {} PROVE
           /\ Of(t, Store \ {"me"})' = {} /\ jar.access \notin fresh
           /\ \A d \in Of(t, {"me"})' : d.bearer = 0 /\ d.cookies.access = 0 /\ d.status # 200
    BY <1>1, <1>4, <1>9 DEF OrphanSign
  <2>2. /\ Of(t, Store \ {"me"}) = {} /\ jar.access \notin fresh
        /\ \A d \in Of(t, {"me"}) : d.bearer = 0 /\ d.cookies.access = 0 /\ d.status # 200
    BY <2>1 DEF Orderly, OrphanSign
  <2> QED BY <1>6, <2>2 DEF Of
<1>13. LogoutOK(t)'
  <2>1. SUFFICES ASSUME NEW o \in Of(t, {"logout"})' PROVE
           /\ o.status = 200 => live = {}
           /\ o.held /\ faults = 0 => live = {}
    BY <1>1 DEF LogoutOK
  <2>2. /\ o.status = 200 => live = {}
        /\ o.held /\ faults = 0 => live = {} \/ mem[t].refresh # 0
    BY <1>7 DEF Orderly, LogoutOK
  <2>3. c.status \in {401, 415, 500} /\ (c.status = 500 => faults # 0)
    BY <1>1, <1>3, KindFacts DEF RequestOK, Answers
  <2>4. (c.status = 415 => mem[t].refresh = 0) /\ (c.status = 401 => live = {})
    BY <1>5 DEF Orderly, RefreshOK
  <2> QED BY <2>2, <2>3, <2>4
<1>14. TokenOK(t)'
  BY <1>1, <1>4, <1>6, <1>8 DEF Orderly, TokenOK
<1> QED BY <1>10, <1>11, <1>12, <1>13, <1>14 DEF Orderly

(* A request that the user or the router sends, other than a sign-in. *)
LEMMA SendOrderly ==
    ASSUME NEW t, Tab = {t}, Base, Orderly(t), NEW kind \in Kinds,
           kind # "refresh", kind \notin Sign, Send(t, kind),
           UNCHANGED <<live, fresh, jar, blocked, faults>>, store'[t].auth = store[t].auth,
           store[t].auth \/ kind = "reset", ended => ended'
    PROVE  Orderly(t)'
<1>1. t \in Tab /\ t # "nobody" /\ 0 \notin fresh /\ mem \in [Tab -> Keys]
  BY OneTab DEF Base, TabsOK
<1>2. PICK x \in Requests, m \in Keys :
          /\ x.tab = t /\ x.kind = kind /\ x.phase = "sent" /\ x.cookies = Cookies
          /\ (kind \notin Safe => x.header = Csrf(mem[t]))
          /\ x.held = (mem[t].refresh # 0) /\ x.status = 0 /\ x.won = 0
          /\ calls' = calls \cup {x} /\ mem' = [mem EXCEPT ![t] = m]
          /\ m.access = mem[t].access /\ m.refresh = mem[t].refresh
          /\ (kind \in Safe => m.csrf = mem[t].csrf)
          /\ (kind \notin Safe => m.csrf = Csrf(mem[t]))
  BY <1>1, SendFacts
<1>3. /\ mem'[t].access = mem[t].access /\ mem'[t].refresh = mem[t].refresh
      /\ mem'[t].csrf \in {mem[t].csrf, Csrf(mem[t])}
  BY <1>1, <1>2
<1>4. /\ Csrf(mem[t]) \in {0, jar.access}
      /\ mem[t].csrf # 0 => Csrf(mem[t]) = mem[t].csrf
      /\ Cookies.access # 0 => Csrf(mem[t]) = Cookies.access /\ Cookies.csrf = Cookies.access
      /\ jar.access \notin fresh /\ mem[t].csrf = 0 => Csrf(mem[t]) = 0
  BY CsrfOfJar DEF Orderly
<1>5. /\ Of(t, Sign)' = Of(t, Sign) /\ Of(t, {"refresh"})' = Of(t, {"refresh"})
      /\ Orphans' = Orphans /\ Of("nobody", Sign)' = Of("nobody", Sign)
  BY <1>1, <1>2 DEF Of, Orphans
<1>6. Memory(t)'
  BY <1>3, <1>4 DEF Orderly, Memory
<1>7. SignAlone(t)'
  <2>1. SUFFICES ASSUME Of(t, Sign) # {} PROVE SignAlone(t)'
    BY <1>5 DEF SignAlone
  <2>2. /\ Orphans = {} /\ ~store[t].auth
        /\ mem[t].csrf = 0 /\ jar.access \notin fresh
        /\ \A d \in calls : d.kind \in Sign \cup {"reset", "refresh"}
        /\ Of(t, {"refresh"}) # {} => \A d \in Of(t, Sign) : d.phase = "waiting"
        /\ ~blocked => \A d \in Of(t, {"refresh"}) : d.body = 0 /\ d.status # 200
    BY <2>1 DEF Orderly, SignAlone
  <2>3. kind = "reset" /\ mem'[t].csrf = 0
    BY <1>3, <1>4, <2>2
  <2>4. \A d \in calls' : d.kind \in Sign \cup {"reset", "refresh"}
    BY <1>2, <2>2, <2>3
  <2> QED BY <1>5, <2>2, <2>3, <2>4 DEF SignAlone
<1>8. OrphansOK(t)'
  BY <1>3, <1>5 DEF Orderly, OrphansOK
<1>9. OrphanSign(t)'
  <2>1. SUFFICES ASSUME Of("nobody", Sign) # {} PROVE OrphanSign(t)'
    BY <1>5 DEF OrphanSign
  <2>2. kind = "reset" /\ kind # "me" /\ kind \notin Store
    BY <2>1, KindFacts DEF Orderly, OrphanSign
  <2>3. Of(t, Store \ {"me"})' = Of(t, Store \ {"me"}) /\ Of(t, {"me"})' = Of(t, {"me"})
    BY <1>2, <2>2 DEF Of
  <2>4. /\ ~store[t].auth /\ jar.access \notin fresh
        /\ Of(t, Store \ {"me"}) = {}
        /\ \A d \in Of(t, {"me"}) : d.bearer = 0 /\ d.cookies.access = 0 /\ d.status # 200
    BY <2>1 DEF Orderly, OrphanSign
  <2>5. ~store'[t].auth /\ jar'.access \notin fresh'
    BY <2>4
  <2>6. \A d \in Of(t, {"me"})' : d.bearer = 0 /\ d.cookies.access = 0 /\ d.status # 200
    BY <2>3, <2>4
  <2>7. Of(t, Store \ {"me"})' = {}
    BY <2>3, <2>4
  <2> QED BY <2>5, <2>6, <2>7 DEF OrphanSign
<1>10. HeaderOK(t)' /\ NotForged'
  BY <1>2, <1>4 DEF Orderly, HeaderOK, NotForged
<1>11. RefreshOK(t)'
  BY <1>3, <1>5 DEF Orderly, RefreshOK
<1>12. LogoutOK(t)'
  <2>1. ASSUME NEW l \in Of(t, {"logout"})' PROVE
           /\ l.status = 200 => live = {}
           /\ l.held /\ faults = 0 => live = {} \/ mem[t].refresh # 0
    <3>1. CASE l = x
      <4>1. x.held = (mem[t].refresh # 0)
        BY <1>2
      <4>2. x.held => mem[t].refresh # 0
        BY <4>1, Zenon
      <4> QED BY <1>2, <3>1, <4>2
    <3>2. CASE l # x
      <4>1. l \in Of(t, {"logout"})
        BY <1>2, <3>2 DEF Of
      <4> QED BY <4>1 DEF Orderly, LogoutOK
    <3> QED BY <3>1, <3>2
  <2> QED BY <1>3, <2>1 DEF LogoutOK
<1>13. TokenOK(t)'
  BY <1>2, <1>3, <1>5 DEF Orderly, TokenOK
<1> QED BY <1>6, <1>7, <1>8, <1>9, <1>10, <1>11, <1>12, <1>13 DEF Orderly

LEMMA DownloadOrderly ==
    ASSUME NEW t, Tab = {t}, Base, Orderly(t), Download(t), store[t].auth,
           UNCHANGED <<live, fresh, jar, blocked, faults, store, ended>>
    PROVE  Orderly(t)'
<1>1. PICK x, y, n : /\ n = mem[t] /\ x = Call(t, "download", n)
                     /\ y = [Bare(x) EXCEPT !.phase = "waiting"]
  OBVIOUS
<1>2. /\ mem' = mem
      /\ calls' = calls \cup {x} \/ calls' = calls \cup ({y} \cup Refresh(t))
  BY <1>1 DEF Download
<1>3. n \in Keys /\ "download" \in Kinds /\ ServerOK /\ JarOK /\ t # "nobody" /\ t \in Tab /\ Memory(t)
  BY <1>1, OneTab, KindFacts DEF Base, Orderly
<1>4. x \in Requests /\ x.tab = t /\ x.kind = "download" /\ x.status = 0 /\ x.won = 0
  BY <1>1, <1>3, CallFacts
<1>5. y.tab = t /\ y.kind = "download" /\ y.status = 0 /\ y.won = 0
  <2>1. y = [x EXCEPT !.bearer = 0, !.header = 0, !.body = 0, !.cookies = NoKey, !.phase = "waiting"]
    BY <1>1, <1>4 DEF Bare, Requests
  <2> QED BY <1>4, <2>1 DEF Requests
<1>6. ASSUME NEW r \in Refresh(t)
      PROVE  /\ Of(t, {"refresh"}) = {}
             /\ r.tab = t /\ r.kind = "refresh" /\ r.phase = "sent"
             /\ r.status = 0 /\ r.won = 0 /\ r.body = mem[t].refresh
             /\ mem[t].refresh # 0 => r.cookies.refresh \in {0, mem[t].refresh}
  BY <1>3, RefreshOfJar
<1>7. \A d \in calls' : \/ d \in calls \/ d \in Refresh(t)
                        \/ d.tab = t /\ d.kind = "download" /\ d.status = 0 /\ d.won = 0
  BY <1>2, <1>4, <1>5
<1>8. /\ calls \subseteq calls'
      /\ \A d \in Of(t, {"refresh"})' : d \in Of(t, {"refresh"}) \/ d \in Refresh(t)
      /\ Of(t, {"refresh"}) \subseteq Of(t, {"refresh"})'
      /\ Of(t, {"logout"})' = Of(t, {"logout"}) /\ Of(t, Sign)' = Of(t, Sign)
      /\ Orphans' = Orphans /\ Of("nobody", Sign)' = Of("nobody", Sign)
  <2>1. calls \subseteq calls'
    BY <1>2
  <2> QED BY <1>3, <1>6, <1>7, <2>1, KindFacts DEF Of, Orphans
<1>9. Memory(t)' /\ LogoutOK(t)'
  BY <1>2, <1>8 DEF Orderly, Memory, LogoutOK
<1>10. SignAlone(t)' /\ OrphanSign(t)'
  BY <1>8 DEF Orderly, SignAlone, OrphanSign
<1>11. OrphansOK(t)'
  BY <1>2, <1>6, <1>8 DEF Orderly, OrphansOK
<1>12. HeaderOK(t)' /\ NotForged'
  BY <1>6, <1>7, KindFacts DEF Orderly, HeaderOK, NotForged
<1>13. RefreshOK(t)'
  <2>1. ASSUME NEW r \in Of(t, {"refresh"})' PROVE
           /\ r.phase = "sent" /\ mem[t].refresh # 0 =>
                 r.body = mem[t].refresh /\ r.cookies.refresh \in {0, mem[t].refresh}
           /\ r.status = 415 => mem[t].refresh = 0
           /\ r.status = 401 => live = {}
    BY <1>6, <1>8 DEF Orderly, RefreshOK
  <2> QED BY <1>2, <2>1 DEF RefreshOK
<1>14. TokenOK(t)'
  BY <1>2, <1>6, <1>7, <1>8 DEF Orderly, TokenOK
<1> QED BY <1>9, <1>10, <1>11, <1>12, <1>13, <1>14 DEF Orderly

(* A sign-in that meets nothing is alone. *)
LEMMA SignOrderly ==
    ASSUME NEW t, Tab = {t}, Base, Orderly(t), NEW kind \in Sign, Send(t, kind), ~Meets(t),
           UNCHANGED <<live, fresh, jar, blocked, faults, ended>>, store'[t].auth = store[t].auth,
           ~store[t].auth
    PROVE  Orderly(t)'
<1>1. t \in Tab /\ t # "nobody" /\ mem \in [Tab -> Keys] /\ kind \in Kinds /\ kind \notin Safe
  BY OneTab, KindFacts DEF Base, TabsOK
<1>2. PICK x \in Requests, m \in Keys :
          /\ x.tab = t /\ x.kind = kind /\ x.phase = "sent" /\ x.status = 0 /\ x.won = 0
          /\ calls' = calls \cup {x} /\ mem' = [mem EXCEPT ![t] = m]
          /\ m.access = mem[t].access /\ m.refresh = mem[t].refresh /\ m.csrf = Csrf(mem[t])
  BY <1>1, SendFacts
<1>3. calls = {} /\ Csrf(mem[t]) = 0
  BY OneTab DEF Meets
<1>4. mem[t].csrf = 0 /\ jar.access \notin fresh
  BY <1>3, CsrfOfJar DEF Orderly
<1>5. /\ mem'[t].access = mem[t].access /\ mem'[t].refresh = mem[t].refresh
      /\ mem'[t].csrf = 0 /\ calls' = {x}
  BY <1>1, <1>2, <1>3
<1>6. Memory(t)'
  BY <1>4, <1>5 DEF Orderly, Memory
<1>7. Orphans' = {} /\ Of("nobody", Sign)' = {} /\ Of(t, {"refresh"})' = {} /\ Of(t, {"logout"})' = {}
  BY <1>1, <1>2, <1>5, KindFacts DEF Orphans, Of
<1>8. SignAlone(t)'
  BY <1>2, <1>4, <1>5, <1>7 DEF SignAlone
<1>9. OrphansOK(t)' /\ OrphanSign(t)' /\ RefreshOK(t)' /\ LogoutOK(t)'
  BY <1>7 DEF OrphansOK, OrphanSign, RefreshOK, LogoutOK
<1>10. HeaderOK(t)' /\ NotForged'
  BY <1>2, <1>5, KindFacts DEF HeaderOK, NotForged
<1>11. TokenOK(t)'
  BY <1>2, <1>3, <1>5, <1>7 DEF Orderly, TokenOK, Of
<1> QED BY <1>6, <1>8, <1>9, <1>10, <1>11 DEF Orderly

LEMMA ReloadOrderly ==
    ASSUME NEW t, Tab = {t}, Base, Orderly(t), Reload(t)
    PROVE  Orderly(t)'
<1>1. /\ UNCHANGED <<live, fresh, jar, blocked, faults, ended>>
      /\ store' = [store EXCEPT ![t] = [auth |-> FALSE, loading |-> TRUE]]
  BY OneTab, ReloadFacts
<1>2. PICK m \in Keys, x \in Requests :
          /\ m.access = 0 /\ m.refresh = 0 /\ m.csrf = Cookies.csrf
          /\ mem' = [mem EXCEPT ![t] = m]
          /\ x.tab = t /\ x.kind = "me" /\ x.bearer = 0 /\ x.cookies = Cookies
          /\ x.status = 0 /\ x.won = 0
          /\ \A d \in calls' :
                \/ d = x
                \/ d \in calls /\ d.tab # t
                \/ \E o \in calls :
                      /\ o.tab = t /\ o.phase = "sent" /\ o.kind \notin Safe
                      /\ d = [o EXCEPT !.tab = "nobody"]
  BY OneTab, ReloadFacts
<1>3. /\ t # "nobody" /\ mem'[t].access = 0 /\ mem'[t].refresh = 0
      /\ mem'[t].csrf \in {0, jar.access} /\ ~store'[t].auth
      /\ jar.access \notin fresh => Cookies.access = 0
  <2>1. /\ mem \in [Tab -> Keys] /\ store \in [Tab -> [auth : BOOLEAN, loading : BOOLEAN]]
        /\ t \in Tab /\ t # "nobody"
    BY OneTab DEF Base, TabsOK
  <2>2. /\ Cookies.csrf = Cookies.access /\ Cookies.access \in {0, jar.access}
        /\ jar.access \notin fresh => Cookies.access = 0
    BY CsrfOfJar, CookiesFacts DEF Orderly, Base
  <2>3. mem'[t] = m /\ store'[t].auth = FALSE
    BY <1>1, <1>2, <2>1
  <2> QED BY <1>2, <2>1, <2>2, <2>3
<1>4. ASSUME NEW d \in calls'
      PROVE  \/ d = x
             \/ d \in calls /\ d.tab # t
             \/ \E o \in calls : /\ o.tab = t /\ o.phase = "sent" /\ d.tab = "nobody"
                                 /\ d.kind = o.kind /\ d.status = o.status /\ d.won = o.won
  <2>1. ASSUME NEW o \in calls, d = [o EXCEPT !.tab = "nobody"]
        PROVE  d.tab = "nobody" /\ d.kind = o.kind /\ d.status = o.status /\ d.won = o.won
    <3>1. o \in Requests
      BY OneTab
    <3> QED BY <2>1, <3>1, NobodyFacts
  <2> QED BY <1>2, <2>1
<1>5. \A d \in calls' : d.tab = t => d = x
  BY <1>3, <1>4
<1>6. Of(t, Sign)' = {} /\ Of(t, {"refresh"})' = {} /\ Of(t, Store \ {"me"})' = {}
      /\ Of(t, {"logout"})' = {} /\ Of(t, {"me"})' \subseteq {x}
  BY <1>2, <1>5, KindFacts DEF Of
<1>7. Memory(t)' /\ SignAlone(t)' /\ OrphansOK(t)' /\ RefreshOK(t)' /\ LogoutOK(t)'
  BY <1>1, <1>3, <1>6 DEF Memory, SignAlone, OrphansOK, RefreshOK, LogoutOK
<1>8. HeaderOK(t)'
  BY <1>2, <1>5, KindFacts DEF HeaderOK
<1>9. NotForged'
  BY <1>2, <1>4 DEF Orderly, NotForged
<1>10. OrphanSign(t)'
  <2>1. SUFFICES ASSUME NEW d \in Of("nobody", Sign)' PROVE OrphanSign(t)'
    BY DEF OrphanSign
  <2>2. d \in calls' /\ d.tab = "nobody" /\ d.kind \in Sign
    BY DEF Of
  <2>3. d # x
    BY <1>2, <1>3, <2>2
  <2>4. Of("nobody", Sign) # {} \/ Of(t, Sign) # {}
    <3>1. CASE d \in calls
      BY <2>2, <3>1 DEF Of
    <3>2. CASE d \notin calls
      <4>1. PICK o \in calls : o.tab = t /\ d.kind = o.kind
        BY <1>4, <2>2, <2>3, <3>2
      <4> QED BY <2>2, <4>1 DEF Of
    <3> QED BY <3>1, <3>2
  <2>5. jar.access \notin fresh
    BY <2>4 DEF Orderly, OrphanSign, SignAlone
  <2>6. jar'.access \notin fresh'
    BY <1>1, <2>5
  <2>7. \A e \in Of(t, {"me"})' : e.bearer = 0 /\ e.cookies.access = 0 /\ e.status # 200
    BY <1>2, <1>3, <1>6, <2>5
  <2> QED BY <1>3, <1>6, <2>6, <2>7 DEF OrphanSign
<1>11. TokenOK(t)'
  BY <1>1, <1>2, <1>3, <1>4, <1>6 DEF Orderly, TokenOK
<1> QED BY <1>7, <1>8, <1>9, <1>10, <1>11 DEF Orderly

LEMMA StutterOrderly ==
    ASSUME NEW t, Orderly(t), UNCHANGED <<live, fresh, jar, blocked, mem, store, calls, faults, ended>>
    PROVE  Orderly(t)'
<1>1. /\ Memory(t)' /\ HeaderOK(t)' /\ NotForged' /\ RefreshOK(t)' /\ LogoutOK(t)' /\ TokenOK(t)'
  BY DEF Orderly, Memory, HeaderOK, NotForged, RefreshOK, LogoutOK, TokenOK, Of
<1>2. SignAlone(t)' /\ OrphansOK(t)' /\ OrphanSign(t)'
  BY DEF Orderly, SignAlone, OrphansOK, OrphanSign, Orphans, Of
<1> QED BY <1>1, <1>2 DEF Orderly

LEMMA OrderlyInit == ASSUME NEW t, Tab = {t}, Init PROVE Orderly(t)
<1>1. /\ NoKey.access = 0 /\ NoKey.refresh = 0 /\ NoKey.csrf = 0 /\ KeysOf(1).access = 1
      /\ [KeysOf(1) EXCEPT !.csrf = 0].access = 1 /\ [KeysOf(1) EXCEPT !.csrf = 0].refresh = 1
      /\ [KeysOf(1) EXCEPT !.csrf = 0].csrf = 0
  BY DEF NoKey, KeysOf
<1>2. Base /\ t # "nobody"
  BY BaseInit, ClientAssumption
<1>3. CASE /\ live = {} /\ fresh = {} /\ jar = NoKey /\ mem = [u \in Tab |-> NoKey]
           /\ calls = {Call(u, "me", NoKey) : u \in Tab}
  <2>1. ASSUME NEW c \in calls PROVE c.tab = t /\ c.kind = "me" /\ c.status = 0 /\ c.won = 0
    <3>1. PICK x : x = Call(t, "me", NoKey)
      OBVIOUS
    <3>2. x.tab = t /\ x.kind = "me" /\ x.status = 0 /\ x.won = 0
      BY <1>2, <3>1, CallFacts, GenFacts, KindFacts DEF Base
    <3> QED BY <1>3, <3>1, <3>2
  <2>2. /\ Of(t, Sign) = {} /\ Of(t, {"refresh"}) = {} /\ Of(t, {"logout"}) = {} /\ Orphans = {}
        /\ Of("nobody", Sign) = {}
    BY <1>2, <2>1, KindFacts DEF Of, Orphans
  <2>3. mem[t].access = 0 /\ mem[t].refresh = 0 /\ mem[t].csrf = 0
    BY <1>1, <1>3
  <2>4. HeaderOK(t) /\ NotForged
    BY <2>1, KindFacts DEF HeaderOK, NotForged
  <2> QED BY <2>1, <2>2, <2>3, <2>4
          DEF Orderly, Memory, SignAlone, OrphansOK, OrphanSign, RefreshOK, LogoutOK, TokenOK
<1>4. CASE /\ live = {1} /\ fresh = {1} /\ jar = IF blocked THEN NoKey ELSE KeysOf(1)
           /\ mem = [u \in Tab |-> [KeysOf(1) EXCEPT !.csrf = 0]]
           /\ store = [u \in Tab |-> [auth |-> TRUE, loading |-> FALSE]]
           /\ calls = {}
  <2>1. mem[t].access = 1 /\ mem[t].refresh = 1 /\ mem[t].csrf = 0 /\ store[t].auth
    BY <1>1, <1>4
  <2>2. ~blocked => jar.access = 1
    BY <1>1, <1>4
  <2>3. Memory(t)
    BY <2>1, <2>2 DEF Memory
  <2>4. \A u, K : Of(u, K) = {}
    BY <1>4 DEF Of
  <2>5. Orphans = {}
    BY <1>4 DEF Orphans
  <2>6. SignAlone(t) /\ OrphansOK(t) /\ OrphanSign(t) /\ RefreshOK(t) /\ LogoutOK(t)
    BY <2>4, <2>5 DEF SignAlone, OrphansOK, OrphanSign, RefreshOK, LogoutOK
  <2>7. HeaderOK(t) /\ NotForged
    BY <1>4 DEF HeaderOK, NotForged
  <2>8. TokenOK(t)
    BY <1>4, <2>1 DEF TokenOK, Of
  <2> QED BY <2>3, <2>6, <2>7, <2>8 DEF Orderly
<1> QED BY <1>3, <1>4 DEF Init

LEMMA UserOrderly ==
    ASSUME NEW t, Tab = {t}, Base, ~crossed => Orderly(t), User(t) \/ Route(t), ~crossed'
    PROVE  Orderly(t)'
<1>1. crossed \in BOOLEAN /\ Meets(t) \in BOOLEAN /\ t \in Tab
  BY DEF Base, ServerOK, Meets
<1>2. ~crossed
  BY <1>1 DEF User, Route, LoginPage, RegisterPage, ResetPage, HeaderLogout, ChangePassword, UsePage,
              OpenAdmin, Reload, ProtectedRoute, SignedInAway
<1>3. Orderly(t) /\ store \in [Tab -> [auth : BOOLEAN, loading : BOOLEAN]]
  BY <1>2 DEF Base, TabsOK
<1>4. store' = [store EXCEPT ![t].loading = TRUE] => store'[t].auth = store[t].auth
  BY <1>1, <1>3
<1>5. /\ \A k \in {"reset", "logout", "password", "read", "write", "me"} :
            k \in Kinds /\ k # "refresh" /\ k \notin Sign
      /\ "login" \in Sign /\ "register" \in Sign
  BY KindFacts
<1>6. CASE LoginPage(t) \/ RegisterPage(t)
  <2>1. PICK k \in Sign :
            /\ Send(t, k) /\ ~store[t].auth /\ crossed' = (crossed \/ Meets(t)) /\ ended' = ended
            /\ store' = [store EXCEPT ![t].loading = TRUE]
            /\ UNCHANGED <<live, fresh, jar, blocked, faults>>
    BY <1>5, <1>6 DEF LoginPage, RegisterPage, Calling, server, browser
  <2>2. ~Meets(t)
    BY <1>1, <2>1
  <2> QED BY <1>3, <1>4, <2>1, <2>2, SignOrderly
<1>7. CASE ResetPage(t) \/ HeaderLogout(t) \/ ChangePassword(t)
  <2>1. PICK k \in {"reset", "logout", "password"} :
            /\ Send(t, k) /\ ended' = TRUE /\ (store[t].auth \/ k = "reset")
            /\ store' = store \/ store' = [store EXCEPT ![t].loading = TRUE]
            /\ UNCHANGED <<live, fresh, jar, blocked, faults>>
    BY <1>7 DEF ResetPage, HeaderLogout, ChangePassword, Shown, Calling, server, browser
  <2> QED BY <1>3, <1>4, <1>5, <2>1, SendOrderly
<1>8. CASE UsePage(t)
  <2>1. /\ Send(t, "read") \/ Send(t, "write") \/ Download(t)
        /\ store[t].auth /\ UNCHANGED <<live, fresh, jar, blocked, faults, store, ended>>
    BY <1>8 DEF UsePage, Shown, server, browser
  <2> QED BY <1>3, <1>5, <2>1, SendOrderly, DownloadOrderly
<1>9. CASE OpenAdmin(t) \/ SignedInAway(t)
  BY <1>3, <1>9, StutterOrderly DEF OpenAdmin, SignedInAway, server, browser
<1>10. CASE Reload(t)
  BY <1>3, <1>10, ReloadOrderly
<1>11. CASE ProtectedRoute(t)
  <2>1. /\ UNCHANGED <<live, fresh, jar, blocked, faults, ended>>
        /\ \/ UNCHANGED <<mem, store, calls>>
           \/ /\ Send(t, "me") /\ store[t].auth
              /\ store' = [store EXCEPT ![t].loading = TRUE]
    BY <1>11 DEF ProtectedRoute, server, browser
  <2> QED BY <1>3, <1>4, <1>5, <2>1, SendOrderly, StutterOrderly
<1> QED BY <1>6, <1>7, <1>8, <1>9, <1>10, <1>11 DEF User, Route

LEMMA OrderlyNext ==
    ASSUME NEW t, Tab = {t}, Base, ~crossed => Orderly(t), [Next]_vars
    PROVE  ~crossed' => Orderly(t)'
<1> SUFFICES ASSUME ~crossed' PROVE Orderly(t)'
  OBVIOUS
<1>1. CASE Serve
  BY <1>1, ServeOrderly DEF Serve
<1>2. CASE Lose
  <2>1. crossed' = crossed
    BY <1>2 DEF Lose
  <2> QED BY <1>2, <2>1, LoseOrderly
<1>3. CASE Expire
  BY <1>3, ExpireOrderly DEF Expire
<1>4. CASE Answer
  <2>1. PICK c \in calls : Finish(c) \/ Unauthorized(c) \/ Refreshed(c) \/ RefreshFailed(c)
    BY <1>4 DEF Answer
  <2>2. Orderly(t)
    BY <2>1 DEF Finish, Unauthorized, Refreshed, RefreshFailed
  <2> QED BY <2>1, <2>2, FinishOrderly, UnauthorizedOrderly, RefreshedOrderly, RefreshFailedOrderly
<1>5. CASE \E u \in Tab : User(u) \/ Route(u)
  BY <1>5, UserOrderly
<1>6. CASE UNCHANGED vars
  BY <1>6, StutterOrderly DEF vars, server, browser, tabs
<1> QED BY <1>1, <1>2, <1>3, <1>4, <1>5, <1>6 DEF Next

(* What holds in every reachable state of a browser with one tab: a tab    *)
(* whose sign-ins met nothing of an earlier session has its tokens, its    *)
(* cookies, its requests and the refresh tokens of the server in order.    *)
THEOREM OneTabInductive == ASSUME NEW t, Tab = {t} PROVE Spec => [](~crossed => Orderly(t))
<1>1. Init => (~crossed => Orderly(t))
  BY OrderlyInit
<1>2. Base /\ (~crossed => Orderly(t)) /\ [Next]_vars => (~crossed => Orderly(t))'
  BY OrderlyNext
<1> QED BY <1>1, <1>2, BaseInductive, PTL DEF Spec

(* In a browser with one tab no request is ever refused for its CSRF       *)
(* token, unless a sign-in met what an earlier session had left.           *)
THEOREM NeverForged == ASSUME NEW t, Tab = {t} PROVE Spec => []NoForgedCall
<1>1. (~crossed => Orderly(t)) => NoForgedCall
  BY DEF Orderly, NotForged, NoForgedCall
<1>2. Spec => [](~crossed => Orderly(t))
  BY OneTabInductive
<1> QED BY <1>1, <1>2, PTL

(* In a browser with one tab a sign-out that ends, and began with a        *)
(* refresh token in memory, leaves the server no refresh token that could  *)
(* be used; unless a request failed, or a sign-in met an earlier session.  *)
THEOREM SignOutIsComplete == ASSUME NEW t, Tab = {t} PROVE Spec => SignOutRevokes
<1>1. ASSUME Base, ~crossed => Orderly(t), NEW c \in calls, Ends(c), c.kind = "logout", c.held
      PROVE  live = {} \/ crossed \/ faults > 0
  <2>1. SUFFICES ASSUME ~crossed, faults = 0 PROVE live = {}
    BY <1>1, OneTab
  <2>2. RequestOK(c) /\ (c.tab = "nobody" => c.phase = "sent") /\ (c.tab = t \/ c.tab = "nobody")
    BY <1>1, OneTab
  <2>3. CASE Finish(c)
    <3>1. c.phase = "answered" /\ (c.status # 401 \/ c.again)
      BY <2>3 DEF Finish
    <3>2. c.status # 401 /\ c.status # 500
      BY <1>1, <2>1, <2>2, <3>1, KindFacts DEF RequestOK
    <3>3. c.status = 200
      BY <1>1, <2>1, <2>2, <3>1, <3>2, KindFacts DEF RequestOK, Answers, Orderly, NotForged
    <3>4. c \in Of(t, {"logout"})
      BY <1>1, <2>2, <3>1 DEF Of
    <3> QED BY <1>1, <2>1, <3>3, <3>4 DEF Orderly, LogoutOK
  <2>4. CASE c \in Waiting(c.tab) /\ \E r \in Of(c.tab, {"refresh"}) : RefreshFailed(r)
    <3>1. c.tab = t
      BY <2>2, <2>4 DEF Waiting
    <3>2. PICK r \in Of(t, {"refresh"}) : RefreshFailed(r)
      BY <2>4, <3>1
    <3>3. r.phase = "answered" /\ r.status # 200 /\ r.kind = "refresh" /\ RequestOK(r)
      BY <1>1, <3>2, OneTab DEF RefreshFailed, Of
    <3>4. r.status \in {401, 415}
      BY <2>1, <3>3, KindFacts DEF RequestOK, Answers
    <3>5. (r.status = 401 => live = {}) /\ (r.status = 415 => mem[t].refresh = 0)
      BY <1>1, <2>1 DEF Orderly, RefreshOK
    <3>6. live = {} \/ mem[t].refresh # 0
      BY <1>1, <2>1, <3>1 DEF Orderly, LogoutOK, Of
    <3> QED BY <3>4, <3>5, <3>6
  <2> QED BY <1>1, <2>3, <2>4 DEF Ends
<1>2. Base /\ (~crossed => Orderly(t)) =>
          [\A c \in calls : Ends(c) /\ c.kind = "logout" /\ c.held =>
               live = {} \/ crossed \/ faults > 0]_vars
  BY <1>1
<1>3. Spec => [](~crossed => Orderly(t))
  BY OneTabInductive
<1> QED BY <1>2, <1>3, BaseInductive, PTL DEF SignOutRevokes

(* In a browser with one tab a user who did nothing to end the session,    *)
(* and none of whose requests failed, stays signed in as long as the tab   *)
(* remembers a refresh token: requests that fail together share a refresh, *)
(* so that no token is used twice.                                         *)
THEOREM SessionLasts == ASSUME NEW tab, Tab = {tab} PROVE Spec => StaysSignedIn
<1> DEFINE Lasts(t) ==
        store[t].auth /\ store'[t] = [auth |-> FALSE, loading |-> FALSE] =>
            ended \/ crossed \/ faults > 0 \/ mem[t].refresh = 0
<1>1. ASSUME Base, ~crossed => Orderly(tab), [Next]_vars, store[tab].auth,
             store'[tab] = [auth |-> FALSE, loading |-> FALSE],
             ~ended, ~crossed, faults = 0, mem[tab].refresh # 0
      PROVE  FALSE
  <2>1. store'[tab].auth = FALSE /\ store'[tab].loading = FALSE
    BY <1>1
  <2>2. store \in [Tab -> [auth : BOOLEAN, loading : BOOLEAN]] /\ tab \in Tab
    BY <1>1 DEF Base, TabsOK
  <2>3. store' # store /\ store' # [store EXCEPT ![tab].loading = TRUE]
        /\ store' # [store EXCEPT ![tab] = [auth |-> FALSE, loading |-> TRUE]]
    BY <1>1, <2>1, <2>2
  <2>4. ~Serve /\ ~Lose /\ ~Expire /\ ~(UNCHANGED vars)
    BY <2>3 DEF Serve, Lose, Expire, vars, tabs
  <2>5. ASSUME NEW u \in Tab PROVE ~(User(u) \/ Route(u))
    BY <2>3 DEF User, Route, LoginPage, RegisterPage, ResetPage, HeaderLogout, ChangePassword, UsePage,
                OpenAdmin, Reload, ProtectedRoute, SignedInAway, Calling
  <2>6. PICK c \in calls : Finish(c) \/ RefreshFailed(c)
    BY <1>1, <2>3, <2>4, <2>5 DEF Next, Answer, Unauthorized, Refreshed, tabs
  <2>7. c.tab = tab /\ RequestOK(c) /\ c.phase = "answered"
    BY <1>1, <2>6, OneTab DEF Finish, RefreshFailed
  <2>8. c.status # 500
    BY <1>1, <2>7 DEF RequestOK
  <2>9. CASE Finish(c)
    <3>1. PICK ok : ok = (c.status = 200)
      OBVIOUS
    <3>2. store'[tab] = StoreAfter(store[tab], c.kind, ok)
      BY <2>2, <2>7, <2>9, <3>1 DEF Finish
    <3>3. c.kind \notin Sign
      BY <1>1, <2>7 DEF Orderly, SignAlone, Of
    <3>4. c.kind # "logout"
      BY <1>1, <2>7 DEF RequestOK
    <3>5. c.kind = "me" /\ ~ok
      BY <1>1, <2>1, <3>2, <3>3, <3>4 DEF StoreAfter
    <3>6. c.status # 401
      BY <2>7, <2>9, <3>5, KindFacts DEF Finish, RequestOK
    <3>7. c.status = 403
      BY <2>7, <2>8, <3>1, <3>5, <3>6, KindFacts DEF RequestOK, Answers
    <3> QED BY <1>1, <3>7 DEF Orderly, NotForged
  <2>10. CASE RefreshFailed(c)
    <3>1. c.status # 200 /\ c.kind = "refresh" /\ c \in Of(tab, {"refresh"})
      BY <2>7, <2>10 DEF RefreshFailed, Of
    <3>2. c.status \in {401, 415}
      BY <2>7, <2>8, <3>1, KindFacts DEF RequestOK, Answers
    <3> QED BY <1>1, <3>1, <3>2 DEF Orderly, RefreshOK, TokenOK
  <2> QED BY <2>6, <2>9, <2>10
<1>2. Base /\ (~crossed => Orderly(tab)) /\ [Next]_vars =>
          [\A t \in Tab : Lasts(t)]_vars
  BY <1>1, OneTab
<1>3. Spec => [](~crossed => Orderly(tab))
  BY OneTabInductive
<1> QED BY <1>2, <1>3, BaseInductive, PTL DEF Spec, StaysSignedIn

=============================================================================
