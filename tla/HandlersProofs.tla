--------------------------- MODULE HandlersProofs ---------------------------
(***************************************************************************)
(* Proofs about Handlers for any values of its constants, a component at a *)
(* time: an invariant of the component, that its initial states have it,   *)
(* that its steps keep it, and the property that follows.  The last part   *)
(* puts the component in focus.                                            *)
(***************************************************************************)
EXTENDS Handlers, FiniteSetTheorems, WellFoundedInduction, TLAPS

-----------------------------------------------------------------------------
(* Least elements, and the choices that are made by score.                 *)

LEMMA LeastNatural ==
  ASSUME NEW T \in SUBSET Nat, T # {}
  PROVE  \E x \in T : \A y \in T : x <= y
<1>1. \E x \in T : \A y \in T : ~ (<<y, x>> \in OpToRel(<, Nat))
  BY Zenon, NatLessThanWellFounded, WFMin
<1>2. PICK x \in T : \A y \in T : ~ (<<y, x>> \in OpToRel(<, Nat))
  BY Zenon, <1>1
<1>3. \A y \in T : ~(y < x)
  BY <1>2 DEF OpToRel
<1> QED
  BY <1>3

\* Of finitely many with a score some have the best.
LEMMA BestExists ==
  ASSUME NEW ps, IsFiniteSet(ps), ps # {}, NEW f \in [ps -> Nat]
  PROVE  \E p \in ps : \A q \in ps : f[q] <= f[p]
<1> DEFINE Above(p) == {q \in ps : f[q] > f[p]}
           ranks    == {Cardinality(Above(p)) : p \in ps}
<1>1. \A p \in ps : IsFiniteSet(Above(p)) /\ Cardinality(Above(p)) \in Nat
  BY FS_Subset, FS_CardinalityType
<1>2. PICK n \in ranks : \A m \in ranks : n <= m
  <2>1. ranks \in SUBSET Nat /\ ranks # {}
    BY <1>1
  <2> QED
    BY <2>1, LeastNatural
<1>3. PICK p \in ps : n = Cardinality(Above(p))
  BY <1>2
<1>4. ASSUME NEW q \in ps, f[q] > f[p] PROVE FALSE
  <2>1. Above(q) \subseteq Above(p) /\ q \in Above(p) /\ q \notin Above(q)
    BY <1>4
  <2>2. IsFiniteSet(Above(p)) /\ IsFiniteSet(Above(q))
    BY <1>1
  <2> HIDE DEF Above
  <2>3. /\ Cardinality(Above(q)) <= Cardinality(Above(p))
        /\ Cardinality(Above(q)) # Cardinality(Above(p))
    BY <2>1, <2>2, FS_Subset
  <2>4. Cardinality(Above(p)) <= Cardinality(Above(q))
    BY <1>2, <1>3
  <2> QED
    BY <1>1, <2>3, <2>4
<1> QED
  BY <1>4


\* By how many elements come before it, each element of a finite total order has a
\* place of its own, and no place is left out.
LEMMA PlacesTaken ==
  ASSUME NEW S, IsFiniteSet(S), NEW ahead \in [S -> SUBSET S],
         \A x \in S : x \notin ahead[x],
         \A x, y \in S : y \in ahead[x] => ahead[y] \subseteq ahead[x],
         \A x, y \in S : x # y => x \in ahead[y] \/ y \in ahead[x]
  PROVE  /\ Cardinality(S) \in Nat
         /\ \A x \in S : Cardinality(ahead[x]) \in 0..Cardinality(S) - 1
         /\ \A x, y \in S : y \in ahead[x] <=> Cardinality(ahead[y]) < Cardinality(ahead[x])
         /\ \A i \in 0..Cardinality(S) - 1 : \E x \in S : Cardinality(ahead[x]) = i
<1> DEFINE n == Cardinality(S)
           place == [x \in S |-> Cardinality(ahead[x])]
<1>1. n \in Nat /\ \A x \in S : IsFiniteSet(ahead[x]) /\ Cardinality(ahead[x]) \in Nat
  BY FS_CardinalityType, FS_Subset
<1>2. ASSUME NEW x \in S, NEW y \in S, y \in ahead[x] PROVE place[y] < place[x]
  <2>1. ahead[y] \in SUBSET ahead[x] /\ ahead[y] # ahead[x]
    BY <1>2
  <2>2. /\ Cardinality(ahead[y]) <= Cardinality(ahead[x])
        /\ Cardinality(ahead[y]) # Cardinality(ahead[x])
    BY <1>1, <2>1, FS_Subset
  <2> QED
    BY <1>1, <2>2
<1>3. ASSUME NEW x \in S PROVE place[x] < n
  <2>1. Cardinality(ahead[x]) <= n /\ (Cardinality(ahead[x]) = n => ahead[x] = S)
    BY FS_Subset
  <2> QED
    BY <1>1, <2>1
<1>4. place \in Injection(S, 0..n - 1)
  <2>1. place \in [S -> 0..n - 1]
    BY <1>1, <1>3
  <2>2. \A x, y \in S : place[x] = place[y] => x = y
    BY <1>1, <1>2
  <2> QED
    BY <2>1, <2>2 DEF Injection, IsInjective
<1>5. IsFiniteSet(0..n - 1) /\ Cardinality(0..n - 1) = n
  <2> HIDE DEF n
  <2>1. n - 1 \in Int
    BY <1>1
  <2>2. IsFiniteSet(0..n - 1)
        /\ Cardinality(0..n - 1) = IF 0 > n - 1 THEN 0 ELSE n - 1 - 0 + 1
    BY <2>1, FS_Interval, SMTT(30)
  <2> QED
    BY <1>1, <2>2
<1> HIDE DEF n, place
<1>6. place \in Surjection(S, 0..n - 1)
  BY <1>4, <1>5, FS_Injection DEF n
<1>7. \A x, y \in S : y \in ahead[x] <=> place[y] < place[x]
  <2> SUFFICES ASSUME NEW x \in S, NEW y \in S, place[y] < place[x] PROVE y \in ahead[x]
    BY <1>2
  <2>1. place[x] \in Nat /\ place[y] \in Nat
    BY <1>1 DEF place
  <2>2. x # y /\ x \notin ahead[y]
    BY <1>2, <2>1
  <2> QED
    BY <2>2
<1> QED
  BY <1>1, <1>3, <1>6, <1>7 DEF place, n, Surjection

\* So exactly k have fewer than k before them.
LEMMA PlacesCount ==
  ASSUME NEW S, IsFiniteSet(S), NEW ahead \in [S -> SUBSET S],
         \A x \in S : x \notin ahead[x],
         \A x, y \in S : y \in ahead[x] => ahead[y] \subseteq ahead[x],
         \A x, y \in S : x # y => x \in ahead[y] \/ y \in ahead[x],
         NEW k \in Nat, k <= Cardinality(S)
  PROVE  Cardinality({x \in S : Cardinality(ahead[x]) < k}) = k
<1> DEFINE n == Cardinality(S)
           place == [x \in S |-> Cardinality(ahead[x])]
           first == {x \in S : Cardinality(ahead[x]) < k}
           f == [x \in first |-> place[x]]
<1>1. /\ n \in Nat
      /\ \A x \in S : place[x] \in 0..n - 1
      /\ \A x, y \in S : y \in ahead[x] <=> place[y] < place[x]
      /\ \A i \in 0..n - 1 : \E x \in S : place[x] = i
  BY PlacesTaken
<1>2. \A x \in S : x \in first <=> place[x] \in 0..k - 1
  BY <1>1
<1> HIDE DEF place, first
<1>3. first \subseteq S /\ f \in [first -> 0..k - 1]
  BY <1>2 DEF first
<1>4. \A x, y \in first : f[x] = f[y] => x = y
  BY <1>1, <1>3
<1>5. \A i \in 0..k - 1 : \E x \in first : f[x] = i
  BY <1>1, <1>2 DEF n
<1>6. f \in Bijection(first, 0..k - 1)
  BY <1>3, <1>4, <1>5 DEF Bijection, Injection, Surjection, IsInjective
<1>7. Cardinality(first) = Cardinality(0..k - 1)
  <2>1. IsFiniteSet(first)
    BY <1>3, FS_Subset
  <2> QED
    BY <1>6, <2>1, FS_Bijection DEF ExistsBijection
<1> QED
  BY <1>7, FS_Interval DEF first

\* If each of finitely many owners owns at least c things, they own c apiece or more.
LEMMA OwnersCount ==
  ASSUME NEW P, IsFiniteSet(P), NEW T, IsFiniteSet(T), NEW owns \in [P -> SUBSET T],
         \A p, q \in P : p # q => owns[p] \intersect owns[q] = {},
         NEW c \in Nat, \A p \in P : c <= Cardinality(owns[p])
  PROVE  Cardinality(P) * c <= Cardinality(T)
<1>1. ASSUME NEW p \in P PROVE \E g : g \in Injection(1..c, owns[p])
  <2> DEFINE m == Cardinality(owns[p])
  <2>1. IsFiniteSet(owns[p])
    BY FS_Subset
  <2>2. m \in Nat /\ ExistsBijection(1..m, owns[p])
    BY <2>1, FS_CardinalityType
  <2>3. c <= m
    OBVIOUS
  <2> HIDE DEF m
  <2>4. PICK b : b \in Bijection(1..m, owns[p])
    BY <2>2 DEF ExistsBijection
  <2>5. b \in [1..m -> owns[p]] /\ \A i, j \in 1..m : b[i] = b[j] => i = j
    BY <2>4 DEF Bijection, Injection, IsInjective
  <2> DEFINE g == [i \in 1..c |-> b[i]]
  <2>6. \A i \in 1..c : i \in 1..m
    BY <2>2, <2>3
  <2>7. g \in Injection(1..c, owns[p])
    BY <2>5, <2>6 DEF Injection, IsInjective
  <2> QED
    BY <2>7
<1> DEFINE pick == [p \in P |-> CHOOSE g : g \in Injection(1..c, owns[p])]
<1>2. \A p \in P : pick[p] \in Injection(1..c, owns[p])
  BY <1>1
<1> HIDE DEF pick
<1> DEFINE f == [x \in P \X (1..c) |-> pick[x[1]][x[2]]]
<1>3. f \in Injection(P \X (1..c), T)
  <2>1. \A p \in P : \A i \in 1..c : pick[p][i] \in owns[p]
    BY <1>2 DEF Injection
  <2>2. \A p \in P : \A i, j \in 1..c : pick[p][i] = pick[p][j] => i = j
    BY <1>2 DEF Injection, IsInjective
  <2>3. f \in [P \X (1..c) -> T]
    BY <2>1
  <2>4. ASSUME NEW x \in P \X (1..c), NEW y \in P \X (1..c), f[x] = f[y] PROVE x = y
    <3>1. f[x] \in owns[x[1]] /\ f[y] \in owns[y[1]]
      BY <2>1
    <3>2. x[1] = y[1]
      BY <2>4, <3>1
    <3>3. x[2] = y[2]
      BY <2>2, <2>4, <3>2
    <3> QED
      BY <3>2, <3>3
  <2> QED
    BY <2>3, <2>4 DEF Injection, IsInjective
<1>4. IsFiniteSet(1..c) /\ Cardinality(1..c) = c
  BY FS_Interval
<1>5. Cardinality(P \X (1..c)) = Cardinality(P) * Cardinality(1..c)
  BY <1>4, FS_Product
<1>6. Cardinality(P \X (1..c)) <= Cardinality(T)
  BY <1>3, FS_Injection
<1> QED
  BY <1>4, <1>5, <1>6
-----------------------------------------------------------------------------
(***************************************************************************)
(* The requests for details.  The invariant adds to DetailsRight what a    *)
(* call under way knows: that one that waits for its next attempt has one, *)
(* and how many proxies have failed it, by the loop counters: all the      *)
(* switches of the tokens before, and those of this one.                   *)
(***************************************************************************)
UnderWay == {"attempt", "sent", "backoff"}

AllSwitches == (ProxySwitches + 1) * (TokenSwitches + 1)

Call ==
  [pc: {"idle", "plan", "attempt", "sent", "backoff", "done"},
   left: Nat, failed: Nat, turn: 0..TokenSwitches, tries: 0..ProxySwitches, att: 0..Retries,
   caches: BOOLEAN, last: Requests!Outcomes \union {"none", "token"}, limited: BOOLEAN,
   result: Requests!Results]

CallRight(q) ==
  /\ q \in Call
  /\ q.limited => q.pc = "done" /\ q.result = "rate_limit"
  /\ q.pc = "done" /\ q.last \in {"proxy_auth", "unreachable", "broken", "open"} =>
       q.left = 0 \/ q.failed = AllSwitches
  /\ q.pc = "plan" => q.failed = 0 /\ q.turn = 0 /\ q.tries = 0
  /\ q.pc \in UnderWay => q.failed = (ProxySwitches + 1) * q.turn + q.tries
  /\ q.pc = "backoff" => q.att < Retries

BreakerRight ==
  /\ breaker \in [state: {"closed", "open", "half"}, trial: BOOLEAN,
                  by: {"none", "proxy", "pixiv"}]
  /\ breaker.by # "proxy"

StatsRight == stats \in [fires: Nat, failures: Nat]

DetailInv ==
  /\ call \in [Callers -> Call] /\ \A c \in Callers : CallRight(call[c])
  /\ BreakerRight /\ StatsRight
  /\ cached \in {"none", "detail"} /\ calls \in 0..MaxCalls

LEMMA DetailInvGives == DetailInv => Requests!TypeOK /\ Requests!DetailsRight
<1> SUFFICES ASSUME DetailInv PROVE Requests!TypeOK /\ Requests!DetailsRight
  OBVIOUS
<1> USE DEF DetailInv
<1>1. Requests!TypeOK
  BY DEF Requests!TypeOK, Call, BreakerRight, StatsRight, Requests!Answers
<1>2. Requests!DetailsRight
  BY DEF CallRight, Call, AllSwitches, BreakerRight, Requests!DetailsRight, Requests!OpensForPixivOnly,
         Requests!LimitHeeded, Requests!NoProxyLeft, Requests!OnlyDetailsCached
<1> QED
  BY <1>1, <1>2

LEMMA RequestConstants ==
  /\ Retries \in Nat /\ MaxCalls \in Nat
  /\ Pools \subseteq Nat /\ ProxySwitches \in Nat /\ TokenSwitches \in Nat
BY RequestsAssumption DEF Requests!DetailAssumption

LEMMA IdleCallRight ==
  /\ Requests!Idle \in Call /\ CallRight(Requests!Idle)
  /\ ~Requests!Idle.limited /\ Requests!Idle.left = 0 /\ Requests!Idle.failed = 0
  /\ Requests!Idle.turn = 0 /\ Requests!Idle.tries = 0
BY RequestConstants
   DEF Requests!Idle, Call, CallRight, UnderWay, Requests!Results

LEMMA InitDetailInv == Requests!Init => DetailInv
<1> SUFFICES ASSUME Requests!Init PROVE DetailInv
  OBVIOUS
<1> USE DEF Requests!Init
<1>1. call \in [Callers -> Call] /\ \A c \in Callers : CallRight(call[c])
  BY IdleCallRight
<1>2. BreakerRight /\ StatsRight
  BY DEF BreakerRight, StatsRight, Requests!NoStats
<1> QED
  BY <1>1, <1>2, RequestConstants DEF DetailInv

\* A turn of the outer loop: the switches of the next token come after those of this one.
LEMMA OneTurnMore ==
  ASSUME NEW turn \in Nat
  PROVE  /\ (ProxySwitches + 1) * turn + ProxySwitches + 1 = (ProxySwitches + 1) * (turn + 1)
         /\ (ProxySwitches + 1) * turn \in Nat
BY RequestConstants, SMTT(30)

\* What a call goes on with after an attempt failed is right.
LEMMA AfterFailureRight ==
  ASSUME NEW c \in Callers, CallRight(call[c]), call[c].pc \in {"attempt", "sent"},
         NEW o \in Requests!Outcomes, NEW r \in Requests!AfterFailure(c, o)
  PROVE  CallRight(r)
<1> DEFINE q == call[c]
           limited == q.limited \/ o = "rate_limit"
           n == [q EXCEPT !.limited = limited]
           end(l, f) == [Requests!Ends(c, o, Requests!Told(o)) EXCEPT
                           !.limited = limited, !.left = l, !.failed = f]
           told == end(q.left, q.failed)
           left == q.left - 1
           failed == q.failed + 1
           finished == [told EXCEPT !.left = left, !.failed = failed]
           noToken == [finished EXCEPT !.last = "token", !.result = "network"]
           next == [n EXCEPT !.pc = "attempt", !.left = left, !.failed = failed, !.att = 0]
           again == q.att < Retries /\ Requests!ShouldRetry(c, o)
           other == q.left > 0 /\ Requests!ProxyClass(Requests!Classify(o, TRUE))
<1>1. q \in Call /\ ~q.limited /\ limited = (o = "rate_limit") /\ q.left \in Nat /\ q.failed \in Nat
      /\ q.turn \in 0..TokenSwitches /\ q.tries \in 0..ProxySwitches /\ limited \in BOOLEAN
      /\ q.failed = (ProxySwitches + 1) * q.turn + q.tries
  BY Zenon DEF CallRight, Call, UnderWay
<1>2. Requests!Told(o) \in Requests!Results /\ (o = "rate_limit" => Requests!Told(o) = "rate_limit")
  BY DEF Requests!Told, Requests!Results
<1>3. ASSUME NEW l \in Nat, NEW f \in Nat
      PROVE  /\ end(l, f) \in Call /\ end(l, f).pc = "done"
             /\ end(l, f).limited = (o = "rate_limit") /\ end(l, f).left = l
             /\ end(l, f).failed = f /\ end(l, f).last = o
             /\ end(l, f).result = Requests!Told(o)
  <2> HIDE DEF limited, left, failed
  <2> DEFINE ends == Requests!Ends(c, o, Requests!Told(o))
             t == [ends EXCEPT !.limited = limited, !.left = l, !.failed = f]
  <2>1. ends \in Call /\ ends.pc = "done" /\ ends.last = o /\ ends.result = Requests!Told(o)
    <3> DEFINE told1 == Requests!Told(o)
               idle == Requests!Idle
               m == [idle EXCEPT !.pc = "done", !.limited = q.limited]
               e == [m EXCEPT !.last = o, !.result = told1]
    <3>1. ends = e
      BY DEF Requests!Ends
    <3>2. idle \in Call
      BY IdleCallRight
    <3> HIDE DEF idle, told1
    <3>3. m \in Call /\ m.pc = "done"
      BY <1>1, <3>2 DEF Call
    <3> HIDE DEF m
    <3>4. told1 \in Requests!Results /\ o \in Requests!Outcomes
      BY <1>2 DEF told1
    <3>5. e \in Call /\ e.pc = "done" /\ e.last = o /\ e.result = told1
      BY <3>3, <3>4 DEF Call
    <3> QED
      BY <3>1, <3>5 DEF told1
  <2> HIDE DEF ends
  <2>2. t \in Call /\ t.pc = "done" /\ t.last = o /\ t.result = Requests!Told(o)
        /\ t.left = l /\ t.failed = f /\ t.limited = limited
    BY <1>1, <2>1 DEF Call
  <2> QED
    BY <1>1, <2>2 DEF t, ends
<1>4. CASE again
  <2>1. r = [n EXCEPT !.pc = "backoff"]
    BY <1>4 DEF Requests!AfterFailure
  <2>2. o # "rate_limit" /\ q.att < Retries
    BY <1>4 DEF Requests!ShouldRetry
  <2>3. ~limited
    BY <1>1, <2>2
  <2> HIDE DEF limited, q
  <2>4. r \in Call /\ r.pc = "backoff" /\ ~r.limited /\ r.att = q.att /\ r.failed = q.failed
        /\ r.turn = q.turn /\ r.tries = q.tries
    BY <1>1, <2>1, <2>3 DEF Call
  <2> QED
    BY <1>1, <2>2, <2>4 DEF CallRight, UnderWay
<1>5. CASE ~again /\ ~other
  <2>1. r = told
    BY <1>1, <1>5 DEF Requests!AfterFailure, Requests!UsesProxy
  <2>2. o \in {"proxy_auth", "unreachable", "broken", "open"} =>
          Requests!ProxyClass(Requests!Classify(o, TRUE))
    BY DEF Requests!Classify, Requests!ProxyClass
  <2> HIDE DEF end
  <2>3. told \in Call /\ told.pc = "done" /\ told.limited = (o = "rate_limit") /\ told.left = q.left
        /\ told.last = o /\ told.result = Requests!Told(o)
    BY <1>1, <1>3
  <2> HIDE DEF told, q, again
  <2>4. o \in {"proxy_auth", "unreachable", "broken", "open"} => q.left = 0
    <3>1. o \in {"proxy_auth", "unreachable", "broken", "open"} => ~(q.left > 0)
      BY <1>5, <2>2, Zenon
    <3> QED
      BY <1>1, <3>1
  <2> QED
    BY <1>2, <2>1, <2>3, <2>4 DEF CallRight, UnderWay
<1>6. ASSUME ~again, other PROVE CallRight(r)
  <2>1. o # "rate_limit" /\ ~limited /\ left \in Nat /\ failed \in Nat /\ q.left # 0
    BY <1>1, <1>6 DEF Requests!Classify, Requests!ProxyClass
  <2>2. CASE left > 0 /\ q.tries < ProxySwitches
    <3>1. r = [next EXCEPT !.tries = q.tries + 1]
      <4>1. r \in {[next EXCEPT !.tries = @ + 1]}
        BY <1>6, <2>2 DEF Requests!AfterFailure, Requests!UsesProxy
      <4>2. next.tries = q.tries
        BY <1>1 DEF Call
      <4> QED
        BY <1>1, <4>1, <4>2 DEF Call
    <3> DEFINE tries == q.tries + 1
    <3>2. tries \in 0..ProxySwitches /\ failed = (ProxySwitches + 1) * q.turn + tries
      <4> DEFINE sofar == (ProxySwitches + 1) * q.turn
      <4>1. sofar \in Nat
        BY <1>1, OneTurnMore, RequestConstants
      <4>2. q.failed = sofar + q.tries
        BY <1>1
      <4> HIDE DEF sofar
      <4>3. failed = sofar + tries /\ tries \in 0..ProxySwitches
        BY <1>1, <2>2, <4>1, <4>2, RequestConstants
      <4> QED
        BY <4>3 DEF sofar
    <3> HIDE DEF limited, left, failed, tries
    <3>3. next \in Call /\ next.pc = "attempt" /\ ~next.limited /\ next.failed = failed
          /\ next.turn = q.turn
      <4> DEFINE m == [q EXCEPT !.limited = limited, !.pc = "attempt", !.left = left]
      <4>1. next = [m EXCEPT !.failed = failed, !.att = 0]
        BY <1>1 DEF Call
      <4>2. m \in Call /\ m.pc = "attempt" /\ ~m.limited /\ m.turn = q.turn
        BY <1>1, <2>1 DEF Call
      <4>3. 0 \in 0..Retries /\ failed \in Nat
        BY <2>1, RequestConstants
      <4> HIDE DEF m, next, q
      <4> QED
        BY <4>1, <4>2, <4>3 DEF Call
    <3> HIDE DEF next
    <3>4. r \in Call /\ r.pc = "attempt" /\ ~r.limited /\ r.failed = failed /\ r.turn = q.turn
          /\ r.tries = tries
      BY <3>1, <3>2, <3>3 DEF Call, tries
    <3> QED
      BY <3>2, <3>4 DEF CallRight, UnderWay
  <2>3. CASE ~(left > 0 /\ q.tries < ProxySwitches)
    <3>1. r \in {noToken, finished}
             \/ (left # 0 /\ q.turn # TokenSwitches /\ r = [next EXCEPT !.tries = 0, !.turn = q.turn + 1])
      <4>1. next.turn = q.turn
        BY <1>1 DEF Call
      <4>2. [next EXCEPT !.tries = 0, !.turn = @ + 1] = [next EXCEPT !.tries = 0, !.turn = q.turn + 1]
        BY <1>1, <4>1 DEF Call
      <4>3. \/ r \in {noToken, finished}
            \/ left # 0 /\ q.turn # TokenSwitches /\ r = [next EXCEPT !.tries = 0, !.turn = @ + 1]
        BY <1>6, <2>3 DEF Requests!AfterFailure, Requests!UsesProxy
      <4> HIDE DEF next
      <4> QED
        BY <4>2, <4>3
    <3>2. r = finished /\ left # 0 => q.turn = TokenSwitches
      <4>1. CASE q.turn = TokenSwitches
        BY <4>1
      <4>2. CASE q.turn # TokenSwitches /\ left # 0
        <5>1. r \in {noToken, [next EXCEPT !.tries = 0, !.turn = @ + 1]}
          BY <1>6, <2>3, <4>2 DEF Requests!AfterFailure, Requests!UsesProxy
        <5>2. r.pc = "attempt" \/ r.last = "token"
          BY <1>1, <5>1 DEF Requests!Ends, Call, Requests!Idle
        <5>3. finished.pc = "done" /\ finished.last = o /\ o # "token"
          BY <1>1 DEF Requests!Ends, Requests!Idle, Requests!Outcomes, Requests!Answers,
                      Requests!Refusals, Requests!Silences
        <5> QED
          BY <5>2, <5>3
      <4> QED
        BY <4>1, <4>2
    <3>3. finished \in Call /\ finished.pc = "done" /\ ~finished.limited /\ finished.left = left
          /\ finished.failed = failed /\ finished.last = o
      <4>1. finished = end(left, failed)
        BY DEF Requests!Ends, Requests!Idle
      <4> HIDE DEF finished, left, failed, end
      <4> QED
        BY <1>3, <2>1, <4>1
    <3>4. CASE r = finished
      <4>1. left = 0 \/ failed = AllSwitches
        <5> SUFFICES ASSUME left # 0 PROVE failed = AllSwitches
          OBVIOUS
        <5>1. q.turn = TokenSwitches /\ q.tries = ProxySwitches
          BY <1>1, <2>1, <2>3, <3>2, <3>4, RequestConstants
        <5>2. failed = (ProxySwitches + 1) * TokenSwitches + ProxySwitches + 1
          <6> DEFINE sofar == (ProxySwitches + 1) * TokenSwitches
          <6>1. q.failed = sofar + ProxySwitches /\ sofar \in Nat
            BY <1>1, <5>1, OneTurnMore, RequestConstants
          <6> HIDE DEF sofar
          <6> QED
            BY <6>1, RequestConstants DEF sofar
        <5> QED
          BY <5>2, OneTurnMore, RequestConstants DEF AllSwitches
      <4> HIDE DEF finished, left, failed
      <4> QED
        BY <3>3, <3>4, <4>1 DEF CallRight, UnderWay
    <3>5. CASE r = noToken
      <4> HIDE DEF finished
      <4>1. r \in Call /\ r.pc = "done" /\ r.last = "token" /\ ~r.limited
        BY <3>3, <3>5 DEF Call, Requests!Results
      <4> QED
        BY <4>1 DEF CallRight, UnderWay
    <3>6. CASE left # 0 /\ q.turn # TokenSwitches /\ r = [next EXCEPT !.tries = 0, !.turn = q.turn + 1]
      <4>1. q.turn + 1 \in 0..TokenSwitches /\ 0 \in 0..ProxySwitches /\ 0 \in 0..Retries
        BY <1>1, <3>6, RequestConstants
      <4>2. failed = (ProxySwitches + 1) * (q.turn + 1) + 0
        <5>1. q.tries = ProxySwitches
          BY <1>1, <2>1, <2>3, <3>6, RequestConstants
        <5>2. q.turn \in Nat
          BY <1>1, RequestConstants
        <5> DEFINE sofar == (ProxySwitches + 1) * q.turn
                   onward == (ProxySwitches + 1) * (q.turn + 1)
        <5>3. sofar + ProxySwitches + 1 = onward /\ sofar \in Nat /\ q.failed = sofar + q.tries
          BY <1>1, <5>2, OneTurnMore
        <5> HIDE DEF sofar, onward
        <5>4. failed = onward + 0
          BY <1>1, <5>1, <5>3, RequestConstants
        <5> QED
          BY <5>4 DEF onward
      <4> DEFINE m == [q EXCEPT !.limited = limited, !.pc = "attempt", !.left = left]
                 k == [m EXCEPT !.failed = failed, !.att = 0]
                 turn == q.turn + 1
      <4> HIDE DEF limited, left, failed
      <4>3. r = [k EXCEPT !.tries = 0, !.turn = turn]
        BY <1>1, <3>6 DEF Call
      <4>4. m \in Call /\ m.pc = "attempt" /\ ~m.limited
        BY <1>1, <2>1 DEF Call
      <4> HIDE DEF m, turn
      <4>5. k \in Call /\ k.pc = "attempt" /\ ~k.limited /\ k.failed = failed
        BY <2>1, <4>1, <4>4 DEF Call
      <4> HIDE DEF k
      <4>6. r \in Call /\ r.pc = "attempt" /\ ~r.limited /\ r.failed = failed /\ r.turn = turn
            /\ r.tries = 0
        BY <4>1, <4>3, <4>5 DEF Call, turn
      <4> QED
        BY <4>2, <4>6 DEF CallRight, UnderWay, turn
    <3> QED
      BY <3>1, <3>4, <3>5, <3>6
  <2> QED
    BY <2>2, <2>3
<1> QED
  BY <1>4, <1>5, <1>6

\* The breaker does not open for a proxy: errorFilter leaves out what a proxy failed in.
LEMMA SettledRight ==
  ASSUME BreakerRight, StatsRight, NEW o \in Requests!Outcomes, NEW used \in BOOLEAN,
         Requests!Settled(o, used)
  PROVE  BreakerRight' /\ StatsRight'
<1>1. CASE Requests!CountsAsFailure(o, used)
  <2>1. ~Requests!ProxyClass(Requests!Classify(o, used))
    BY <1>1 DEF Requests!CountsAsFailure
  <2>2. Requests!Culprit(o, used) = "pixiv"
    BY <2>1 DEF Requests!Culprit, Requests!ProxyClass, Requests!Classify
  <2>3. stats' = [stats EXCEPT !.failures = @ + 1]
    BY <1>1 DEF Requests!Settled
  <2>4. \/ breaker' = [state |-> "open", trial |-> FALSE, by |-> "pixiv"]
        \/ breaker' = breaker
    BY <1>1, <2>2 DEF Requests!Settled
  <2>5. StatsRight'
    BY <2>3 DEF StatsRight
  <2>6. BreakerRight'
    <3>1. CASE breaker' = breaker
      BY <3>1 DEF BreakerRight
    <3>2. CASE breaker' = [state |-> "open", trial |-> FALSE, by |-> "pixiv"]
      BY <3>2 DEF BreakerRight
    <3> QED
      BY <2>4, <3>1, <3>2
  <2> QED
    BY <2>5, <2>6
<1>2. CASE ~Requests!CountsAsFailure(o, used)
  <2>1. stats' = stats /\ (breaker' = breaker \/ breaker' = [state |-> "closed", trial |-> FALSE, by |-> "none"])
    BY <1>2 DEF Requests!Settled
  <2>2. CASE breaker' = breaker
    BY <2>1, <2>2 DEF BreakerRight, StatsRight
  <2>3. CASE breaker' = [state |-> "closed", trial |-> FALSE, by |-> "none"]
    BY <2>1, <2>3 DEF BreakerRight, StatsRight
  <2> QED
    BY <2>1, <2>2, <2>3
<1> QED
  BY <1>1, <1>2

\* A step of one call leaves the others.
LEMMA OneCall ==
  ASSUME DetailInv, NEW c \in Callers, NEW q, CallRight(q), call' = [call EXCEPT ![c] = q]
  PROVE  call' \in [Callers -> Call] /\ \A d \in Callers : CallRight(call'[d])
<1>1. q \in Call
  BY DEF CallRight
<1> QED
  BY <1>1 DEF DetailInv

LEMMA NextDetailInv == DetailInv /\ Requests!Next => DetailInv'
<1> SUFFICES ASSUME DetailInv, Requests!Next PROVE DetailInv'
  OBVIOUS
<1>1. /\ call \in [Callers -> Call] /\ \A d \in Callers : CallRight(call[d])
      /\ BreakerRight /\ StatsRight
      /\ cached \in {"none", "detail"} /\ calls \in 0..MaxCalls
  BY DEF DetailInv
<1>2. ASSUME NEW c \in Callers, Requests!Begin(c) PROVE DetailInv'
  <2>1. calls' \in 0..MaxCalls
    BY <1>1, <1>2, RequestConstants, SMTT(30) DEF Requests!Begin
  <2>2. PICK caches \in BOOLEAN :
          LET started == [Requests!Idle EXCEPT !.pc = "plan", !.caches = caches] IN
          \/ call' = [call EXCEPT ![c] = started]
          \/ /\ caches /\ cached # "none"
             /\ call' = [call EXCEPT ![c] =
                  [started EXCEPT !.pc = "done", !.last = cached, !.result = "data"]]
    BY Zenon, <1>2 DEF Requests!Begin
  <2> DEFINE started == [Requests!Idle EXCEPT !.pc = "plan", !.caches = caches]
             hit == [started EXCEPT !.pc = "done", !.last = cached, !.result = "data"]
  <2>3. CallRight(started)
    BY IdleCallRight DEF CallRight, Call, UnderWay
  <2>4. cached # "none" => CallRight(hit)
    <3>1. cached # "none" => cached = "detail" /\ "detail" \in Requests!Outcomes
      BY <1>1 DEF Requests!Outcomes, Requests!Answers
    <3>2. started \in Call /\ ~started.limited /\ started.left = 0
      BY IdleCallRight DEF Call
    <3> HIDE DEF started
    <3> QED
      BY <3>1, <3>2 DEF CallRight, Call, UnderWay, Requests!Results
  <2>5. call' \in [Callers -> Call] /\ \A d \in Callers : CallRight(call'[d])
    BY <2>2, <2>3, <2>4, OneCall
  <2> QED
    BY <1>1, <1>2, <2>1, <2>5
       DEF Requests!Begin, DetailInv, BreakerRight, StatsRight
<1>3. ASSUME NEW c \in Callers, Requests!Plan(c) PROVE DetailInv'
  <2>1. call[c].pc = "plan" /\ CallRight(call[c])
    BY Zenon, <1>1, <1>3 DEF Requests!Plan
  <2>2. \/ call' = [call EXCEPT ![c] = Requests!Ends(c, "none", "proxy_required")]
        \/ call' = [call EXCEPT ![c] = Requests!Ends(c, "token", "network")]
        \/ \E n \in Nat : call' = [call EXCEPT ![c] = [call[c] EXCEPT !.pc = "attempt", !.left = n]]
    BY Zenon, <1>1, <1>3, RequestConstants DEF Requests!Plan
  <2> DEFINE ends(last, result) ==
               [Requests!Idle EXCEPT !.pc = "done", !.limited = call[c].limited, !.last = last,
                                     !.result = result]
  <2>3. ASSUME NEW last \in {"none", "token"}, NEW result \in Requests!Results
        PROVE  CallRight(ends(last, result))
    <3> DEFINE m == [Requests!Idle EXCEPT !.pc = "done", !.limited = call[c].limited]
    <3>1. m \in Call /\ ~m.limited
      BY <2>1, IdleCallRight DEF CallRight, Call
    <3> HIDE DEF m
    <3>2. [m EXCEPT !.last = last, !.result = result] \in Call
      BY <3>1 DEF Call
    <3> DEFINE q == [m EXCEPT !.last = last, !.result = result]
    <3>3. q.last = last /\ q.pc = m.pc /\ ~q.limited
      BY <3>1 DEF Call
    <3>4. m.pc = "done"
      BY IdleCallRight DEF m, Call
    <3> HIDE DEF q
    <3>5. CallRight(q)
      BY <3>2, <3>3, <3>4 DEF CallRight, UnderWay, q
    <3> QED
      BY <3>5 DEF m, q
  <2>4. ASSUME NEW n \in Nat
        PROVE  CallRight([call[c] EXCEPT !.pc = "attempt", !.left = n])
    <3> DEFINE q == [call[c] EXCEPT !.pc = "attempt", !.left = n]
    <3>1. q \in Call /\ q.pc = "attempt" /\ ~q.limited /\ q.failed = 0 /\ q.turn = 0 /\ q.tries = 0
      BY <2>1 DEF CallRight, Call
    <3>2. 0 = (ProxySwitches + 1) * 0 + 0
      BY RequestConstants
    <3> HIDE DEF q
    <3> QED
      BY <3>1, <3>2 DEF CallRight, UnderWay, q
  <2>5. PICK q : call' = [call EXCEPT ![c] = q] /\ CallRight(q)
    BY Zenon, <2>2, <2>3, <2>4 DEF Requests!Ends, Requests!Results
  <2>6. call' \in [Callers -> Call] /\ \A d \in Callers : CallRight(call'[d])
    BY <2>5, OneCall
  <2> QED
    BY <1>1, <1>3, <2>6, Zenon DEF Requests!Plan, DetailInv, BreakerRight, StatsRight
<1>4. ASSUME NEW c \in Callers, Requests!Fire(c) PROVE DetailInv'
  <2>1. call[c].pc = "attempt" /\ CallRight(call[c]) /\ "open" \in Requests!Outcomes
    BY <1>1, <1>4 DEF Requests!Fire, Requests!Outcomes
  <2>2. CallRight([call[c] EXCEPT !.pc = "sent"])
    BY <2>1 DEF CallRight, Call, UnderWay
  <2>3. \/ call' = [call EXCEPT ![c] = [call[c] EXCEPT !.pc = "sent"]]
        \/ \E r \in Requests!AfterFailure(c, "open") : call' = [call EXCEPT ![c] = r]
    BY <1>1, <1>4 DEF Requests!Fire
  <2>4. PICK q : call' = [call EXCEPT ![c] = q] /\ CallRight(q)
    BY <2>1, <2>2, <2>3, AfterFailureRight
  <2>5. call' \in [Callers -> Call] /\ \A d \in Callers : CallRight(call'[d])
    BY <2>4, OneCall
  <2>6. StatsRight'
    BY <1>1, <1>4 DEF Requests!Fire, StatsRight
  <2>7. BreakerRight'
    BY <1>1, <1>4 DEF Requests!Fire, BreakerRight
  <2> QED
    BY <1>1, <1>4, <2>5, <2>6, <2>7 DEF Requests!Fire, DetailInv
<1>5. ASSUME NEW c \in Callers, Requests!Retry(c) PROVE DetailInv'
  <2> DEFINE q == [call[c] EXCEPT !.pc = "attempt", !.att = @ + 1]
  <2>1. call' = [call EXCEPT ![c] = q]
    BY <1>1, <1>5 DEF Requests!Retry
  <2>2. call[c] \in Call /\ call[c].att < Retries /\ ~call[c].limited
        /\ call[c].failed = (ProxySwitches + 1) * call[c].turn + call[c].tries
    BY <1>1, <1>5 DEF Requests!Retry, CallRight, UnderWay
  <2>3. q \in Call
    <3> DEFINE m == [call[c] EXCEPT !.pc = "attempt"]
               att == call[c].att + 1
    <3>1. m \in Call /\ att \in 0..Retries
      BY <2>2, RequestConstants DEF Call
    <3>2. q = [m EXCEPT !.att = att]
      BY <2>2 DEF Call
    <3> HIDE DEF m, att, q
    <3> QED
      BY <3>1, <3>2 DEF Call
  <2>4. CallRight(q)
    BY <2>2, <2>3 DEF CallRight, UnderWay, Call
  <2> HIDE DEF q
  <2>5. call' \in [Callers -> Call] /\ \A d \in Callers : CallRight(call'[d])
    BY <2>1, <2>4, OneCall
  <2> QED
    BY <1>1, <1>5, <2>5 DEF Requests!Retry, DetailInv, BreakerRight, StatsRight
<1>6. ASSUME NEW c \in Callers, NEW o \in Requests!Answers, Requests!Answered(c, o)
      PROVE  DetailInv'
  <2>1. call[c].pc = "sent" /\ CallRight(call[c]) /\ o \in Requests!Outcomes
    BY <1>1, <1>6 DEF Requests!Answered, Requests!Outcomes
  <2> DEFINE m == [Requests!Idle EXCEPT !.pc = "done", !.limited = call[c].limited]
             q == [m EXCEPT !.last = o, !.result = "data"]
  <2>2. call' = [call EXCEPT ![c] = q]
    BY <1>6 DEF Requests!Answered, Requests!Ends
  <2>3. m \in Call /\ ~m.limited
    BY <2>1, IdleCallRight DEF CallRight, Call
  <2>4. o \notin {"proxy_auth", "unreachable", "broken", "open"}
    BY DEF Requests!Answers
  <2> HIDE DEF m
  <2>5. q \in Call
    BY <2>1, <2>3 DEF Call, Requests!Results
  <2>6. q.last = o /\ q.pc = m.pc /\ ~q.limited
    BY <2>3 DEF Call
  <2>7. m.pc = "done"
    BY IdleCallRight DEF m, Call
  <2> HIDE DEF q
  <2>8. CallRight(q)
    BY <2>4, <2>5, <2>6, <2>7 DEF CallRight, UnderWay
  <2>9. call' \in [Callers -> Call] /\ \A d \in Callers : CallRight(call'[d])
    BY <2>2, <2>8, OneCall
  <2>10. BreakerRight' /\ StatsRight'
    <3>1. Requests!UsesProxy(c) \in BOOLEAN
      BY DEF Requests!UsesProxy
    <3>2. Requests!Settled(o, Requests!UsesProxy(c))
      BY <1>6 DEF Requests!Answered
    <3> QED
      BY <1>1, <2>1, <3>1, <3>2, SettledRight
  <2>11. cached' \in {"none", "detail"}
    BY <1>1, <1>6 DEF Requests!Answered
  <2> QED
    BY <1>1, <1>6, <2>9, <2>10, <2>11 DEF Requests!Answered, DetailInv
<1>7. ASSUME NEW c \in Callers, NEW o \in Requests!Refusals \union Requests!Silences,
             Requests!Fails(c, o)
      PROVE  DetailInv'
  <2>1. call[c].pc = "sent" /\ CallRight(call[c]) /\ o \in Requests!Outcomes
    BY <1>1, <1>7 DEF Requests!Fails, Requests!Outcomes
  <2>2. PICK q \in Requests!AfterFailure(c, o) : call' = [call EXCEPT ![c] = q]
    BY <1>7 DEF Requests!Fails
  <2>3. CallRight(q)
    BY <2>1, <2>2, AfterFailureRight
  <2>4. call' \in [Callers -> Call] /\ \A d \in Callers : CallRight(call'[d])
    BY <2>2, <2>3, OneCall
  <2>5. BreakerRight' /\ StatsRight'
    <3>1. Requests!UsesProxy(c) \in BOOLEAN
      BY DEF Requests!UsesProxy
    <3>2. Requests!Settled(o, Requests!UsesProxy(c))
      BY <1>7 DEF Requests!Fails
    <3> QED
      BY <1>1, <2>1, <3>1, <3>2, SettledRight
  <2> QED
    BY <1>1, <1>7, <2>4, <2>5 DEF Requests!Fails, DetailInv
<1>8. CASE Requests!HalfOpens \/ Requests!WindowPasses \/ Requests!CacheExpires
  <2>1. CASE Requests!HalfOpens
    <3>1. BreakerRight'
      BY <1>1, <2>1 DEF Requests!HalfOpens, BreakerRight
    <3> QED
      BY <1>1, <2>1, <3>1 DEF Requests!HalfOpens, DetailInv, StatsRight
  <2>2. CASE Requests!WindowPasses
    BY <1>1, <2>2 DEF Requests!WindowPasses, Requests!NoStats, DetailInv, BreakerRight, StatsRight
  <2>3. CASE Requests!CacheExpires
    BY <1>1, <2>3 DEF Requests!CacheExpires, DetailInv, BreakerRight, StatsRight
  <2> QED
    BY <1>8, <2>1, <2>2, <2>3
<1>9. ASSUME NEW c \in Callers,
              \/ Requests!Begin(c) \/ Requests!Plan(c) \/ Requests!Fire(c) \/ Requests!Retry(c)
              \/ \E o \in Requests!Answers : Requests!Answered(c, o)
              \/ \E o \in Requests!Refusals \union Requests!Silences : Requests!Fails(c, o)
       PROVE  DetailInv'
  BY <1>2, <1>3, <1>4, <1>5, <1>6, <1>7, <1>9
<1> QED
  BY <1>8, <1>9 DEF Requests!Next

LEMMA SameDetailInv == DetailInv /\ UNCHANGED requests => DetailInv'
BY DEF requests, DetailInv, BreakerRight, StatsRight

-----------------------------------------------------------------------------
(***************************************************************************)
(* The bindings.  ChoiceSticks needs to know of an override that is about  *)
(* to write only that its row may be there by now; the types add that a    *)
(* post finds the pool before it reads, and has a primary before it makes  *)
(* a row.                                                                  *)
(***************************************************************************)
Posted ==
  [pc: {"idle", "check", "pool", "create", "again", "prev", "pick", "write"},
   kind: {"none", "rebind", "override", "clear"}, token: Tokens \union {Bindings!Nobody},
   proxy: Proxies \union {Bindings!Nobody}, clear: BOOLEAN, prev: Bindings!Bindings]

PostedRight(q) ==
  /\ q \in Posted
  /\ q.pc # "idle" => q.token \in Tokens
  /\ q.kind \in {"rebind", "override"} => q.proxy \in Proxies
  /\ q.pc = "write" /\ q.kind = "override" => q.prev.primary # Bindings!Nobody

BoundRight(b) ==
  /\ b \in Bindings!Bindings
  /\ b.override = Bindings!Nobody => ~b.live
  /\ b.primary = Bindings!Nobody => b = Bindings!NoBinding

Tables == UNION {[T -> Bindings!Shown] : T \in SUBSET Tokens}
PageRight ==
  page \in [pc: {"tokens", "proxies", "bindings", "ready", "posting"},
            read: [tokens: SUBSET Tokens, proxies: SUBSET Proxies], shown: Tables]

PoolRight ==
  /\ pool \in BOOLEAN
  /\ \A t \in Tokens : Bindings!Bound(t) => pool
  /\ \A r \in Bindings!Clients : req[r].pc \in {"prev", "pick", "write"} => pool

BindingsInv ==
  /\ tokens \subseteq Tokens /\ proxies \subseteq Proxies
  /\ binding \in [Tokens -> Bindings!Bindings] /\ \A t \in Tokens : BoundRight(binding[t])
  /\ req \in [Bindings!Clients -> Posted] /\ \A r \in Bindings!Clients : PostedRight(req[r])
  /\ PoolRight /\ PageRight
  /\ posts \in 0..MaxPosts /\ faults \in 0..MaxFaults /\ toggles \in 0..MaxToggles
  /\ chosen \in [Tokens -> Proxies \union {Bindings!Nobody}]
  /\ Bindings!ChoiceSticks

LEMMA BindingConstants ==
  /\ Tokens \subseteq Nat \ {0} /\ Proxies \subseteq Nat \ {0} /\ Proxies # {}
  /\ IsFiniteSet(Tokens) /\ IsFiniteSet(Proxies)
  /\ "page" \notin Others
  /\ Score \in [Tokens \X Proxies -> Nat]
  /\ MaxPosts \in Nat /\ MaxFaults \in Nat /\ MaxToggles \in Nat
<1>1. \A S : Bindings!IsFiniteSet(S) <=> IsFiniteSet(S)
  BY DEF Bindings!IsFiniteSet, IsFiniteSet
<1> QED
  BY <1>1, BindingsAssumption DEF Bindings!BindingsAssumption

LEMMA BindingsInvGives == BindingsInv => Bindings!TypeOK /\ Bindings!ChoiceSticks
<1> SUFFICES ASSUME BindingsInv PROVE Bindings!TypeOK
  BY DEF BindingsInv
<1> USE DEF BindingsInv
<1>1. \A r \in Bindings!Clients :
        /\ req[r].pc \in {"idle", "check", "pool", "create", "again", "prev", "pick", "write"}
        /\ req[r].kind \in {"none", "rebind", "override", "clear"}
        /\ req[r].pc # "idle" => req[r].token \in Tokens
        /\ req[r].kind \in {"rebind", "override"} => req[r].proxy \in Proxies
        /\ req[r].prev \in Bindings!Bindings
  BY DEF PostedRight, Posted
<1>2. \A t \in Tokens : /\ Bindings!Bound(t) => pool
                        /\ binding[t].override = Bindings!Nobody => ~binding[t].live
                        /\ ~Bindings!Bound(t) => binding[t] = Bindings!NoBinding
  BY Zenon DEF BoundRight, PoolRight, Bindings!Bound
<1>3. /\ page.pc \in {"tokens", "proxies", "bindings", "ready", "posting"}
      /\ page.read.tokens \subseteq Tokens /\ page.read.proxies \subseteq Proxies
      /\ page.shown \in Tables
  BY DEF PageRight
<1>4. DOMAIN page.shown \subseteq Tokens /\ \A t \in DOMAIN page.shown : page.shown[t] \in Bindings!Shown
  BY <1>3 DEF Tables
<1> QED
  BY <1>1, <1>2, <1>3, <1>4 DEF Bindings!TypeOK, PoolRight

\* The primary that is picked is one of those to pick from.
LEMMA RendezvousChooses ==
  ASSUME NEW t \in Tokens, NEW ps \in SUBSET Proxies, ps # {}
  PROVE  Bindings!Rendezvous(t, ps) \in ps
<1> DEFINE best == {p \in ps : \A q \in ps : Score[t, q] <= Score[t, p]}
           f == [p \in ps |-> Score[t, p]]
<1>1. f \in [ps -> Nat] /\ IsFiniteSet(ps)
  BY Zenon, BindingConstants, FS_Subset
<1>2. \E p \in ps : \A q \in ps : f[q] <= f[p]
  <2> HIDE DEF f
  <2> QED
    BY <1>1, BestExists
<1>3. best # {} /\ best \subseteq ps /\ best \in SUBSET Nat
  BY Zenon, <1>2, BindingConstants
<1> HIDE DEF best
<1>4. \E x \in best : \A y \in best : x <= y
  BY <1>3, LeastNatural
<1>5. Bindings!Min(best) \in best
  BY <1>4 DEF Bindings!Min
<1>6. Bindings!Rendezvous(t, ps) = Bindings!Min(best)
  BY DEF Bindings!Rendezvous, best
<1> QED
  BY <1>3, <1>5, <1>6

LEMMA InitBindingsInv == Bindings!Init => BindingsInv
<1> SUFFICES ASSUME Bindings!Init PROVE BindingsInv
  OBVIOUS
<1> USE BindingConstants
<1>1. Bindings!NoBinding \in Bindings!Bindings /\ BoundRight(Bindings!NoBinding)
  BY DEF Bindings!NoBinding, Bindings!Bindings, BoundRight
<1>2. Bindings!Idle \in Posted /\ PostedRight(Bindings!Idle) /\ Bindings!Idle.pc = "idle"
  BY <1>1 DEF Bindings!Idle, Posted, PostedRight
<1>3. PageRight
  <2> DEFINE s == [t \in Tokens |-> [row |-> Bindings!NoBinding, effective |-> Bindings!Nobody,
                                     suggested |-> Bindings!Rendezvous(t, Proxies)]]
  <2>1. s \in [Tokens -> Bindings!Shown]
    BY <1>1, RendezvousChooses DEF Bindings!Shown
  <2>2. s \in Tables
    BY Zenon, <2>1 DEF Tables
  <2> HIDE DEF s
  <2>3. page = [pc |-> "ready", read |-> [tokens |-> {}, proxies |-> {}], shown |-> s]
    BY DEF s, Bindings!Init
  <2> DEFINE e == [tokens |-> {}, proxies |-> {}]
  <2>4. e \in [tokens: SUBSET Tokens, proxies: SUBSET Proxies]
    OBVIOUS
  <2>5. page = [pc |-> "ready", read |-> e, shown |-> s]
    BY <2>3
  <2> HIDE DEF e
  <2> QED
    BY <2>2, <2>4, <2>5 DEF PageRight
<1>4. PoolRight
  BY <1>2 DEF Bindings!Init, PoolRight, Bindings!Bound, Bindings!NoBinding
<1>5. Bindings!ChoiceSticks
  BY DEF Bindings!Init, Bindings!ChoiceSticks
<1>6. chosen \in [Tokens -> Proxies \union {Bindings!Nobody}]
  BY DEF Bindings!Init, Bindings!Nobody
<1> QED
  BY <1>1, <1>2, <1>3, <1>4, <1>5, <1>6 DEF Bindings!Init, BindingsInv

LEMMA IdlePosted ==
  /\ Bindings!Idle \in Posted /\ PostedRight(Bindings!Idle) /\ Bindings!Idle.pc = "idle"
  /\ Bindings!NoBinding \in Bindings!Bindings /\ BoundRight(Bindings!NoBinding)
<1>1. Bindings!NoBinding \in Bindings!Bindings /\ BoundRight(Bindings!NoBinding)
  BY DEF Bindings!NoBinding, Bindings!Bindings, BoundRight
<1>2. Bindings!Idle \in Posted /\ PostedRight(Bindings!Idle) /\ Bindings!Idle.pc = "idle"
  BY <1>1 DEF Bindings!Idle, Posted, PostedRight
<1> QED
  BY <1>1, <1>2

PostsRight == req \in [Bindings!Clients -> Posted] /\ \A r \in Bindings!Clients : PostedRight(req[r])

\* A step that changes one post, to one that is right, keeps them right.
LEMMA OnePost ==
  ASSUME PostsRight, NEW r \in Bindings!Clients, NEW q, PostedRight(q),
         req' = [req EXCEPT ![r] = q]
  PROVE  PostsRight' /\ \A c \in Bindings!Clients : req'[c] = IF c = r THEN q ELSE req[c]
BY DEF PostsRight, PostedRight

LEMMA AnswerRight ==
  ASSUME PostsRight, PageRight, NEW r \in Bindings!Clients, Bindings!Answer(r)
  PROVE  /\ PostsRight' /\ PageRight'
         /\ \A c \in Bindings!Clients : c # r => req'[c] = req[c]
         /\ req'[r].pc = "idle"
<1>1. PostsRight' /\ \A c \in Bindings!Clients : req'[c] = IF c = r THEN Bindings!Idle ELSE req[c]
  BY IdlePosted, OnePost DEF Bindings!Answer
<1>2. PageRight'
  BY DEF Bindings!Answer, PageRight
<1> QED
  BY <1>1, <1>2, IdlePosted

\* A post goes on, without a primary of its own when it writes an override.
LEMMA GotoRight ==
  ASSUME PostsRight, NEW r \in Bindings!Clients, req[r].pc # "idle",
         NEW pc \in {"pool", "create", "again", "prev"}, Bindings!Goto(r, pc)
  PROVE  /\ PostsRight'
         /\ \A c \in Bindings!Clients : c # r => req'[c] = req[c]
         /\ req'[r].pc = pc
<1> DEFINE q == [req[r] EXCEPT !.pc = pc]
<1>1. PostedRight(req[r]) /\ req[r] \in Posted
  BY DEF PostsRight
<1>2. PostedRight(q) /\ q.pc = pc
  BY <1>1 DEF PostedRight, Posted
<1>3. req' = [req EXCEPT ![r] = q]
  BY <1>1 DEF PostsRight, Bindings!Goto
<1> HIDE DEF q
<1>4. PostsRight' /\ \A c \in Bindings!Clients : req'[c] = IF c = r THEN q ELSE req[c]
  BY <1>2, <1>3, OnePost
<1> QED
  BY <1>2, <1>4

\* As long as the pool stays and no row is written, what was bound has a pool.
LEMMA PoolStays ==
  ASSUME PoolRight, NEW r \in Bindings!Clients, pool' \in BOOLEAN, pool => pool',
         binding' = binding,
         \A c \in Bindings!Clients : c # r => req'[c] = req[c],
         req'[r].pc \in {"prev", "pick", "write"} => pool'
  PROVE  PoolRight'
BY DEF PoolRight, Bindings!Bound

\* The reads of a post.
LEMMA PostReads ==
  ASSUME BindingsInv, NEW r \in Bindings!Clients,
         \/ Bindings!Check(r) \/ Bindings!FindPool(r) \/ Bindings!CreatePool(r)
         \/ Bindings!CreateFails(r) \/ Bindings!FindPoolAgain(r) \/ Bindings!QueryFails(r)
  PROVE  BindingsInv'
<1> USE BindingConstants
<1>1. PostsRight /\ PageRight /\ PoolRight
  BY DEF BindingsInv, PostsRight
<1>2. pool \in BOOLEAN
  BY <1>1 DEF PoolRight
<1>3. ASSUME PostsRight', PageRight', PoolRight', UNCHANGED <<tokens, proxies, binding, chosen>>,
             posts' \in 0..MaxPosts, faults' \in 0..MaxFaults, toggles' \in 0..MaxToggles
      PROVE  BindingsInv'
  BY <1>3 DEF BindingsInv, PostsRight, Bindings!ChoiceSticks
<1>4. posts \in 0..MaxPosts /\ faults \in 0..MaxFaults /\ toggles \in 0..MaxToggles
  BY DEF BindingsInv
<1>5. CASE Bindings!Check(r)
  <2>1. CASE Bindings!Goto(r, "pool") /\ UNCHANGED page
    <3>1. PostsRight' /\ PageRight' /\ PoolRight'
      BY <1>1, <1>2, <1>5, <2>1, GotoRight, PoolStays DEF Bindings!Check, PageRight, Bindings!rows
    <3> QED
      BY <1>3, <1>4, <1>5, <3>1 DEF Bindings!Check, Bindings!rows, Bindings!bound
  <2>2. CASE Bindings!Answer(r)
    <3>1. PostsRight' /\ PageRight' /\ PoolRight'
      BY <1>1, <1>2, <1>5, <2>2, AnswerRight, PoolStays DEF Bindings!Check, Bindings!rows
    <3> QED
      BY <1>3, <1>4, <1>5, <3>1 DEF Bindings!Check, Bindings!rows, Bindings!bound
  <2> QED
    BY <1>5, <2>1, <2>2 DEF Bindings!Check
<1>6. CASE Bindings!FindPool(r)
  <2>1. CASE pool /\ Bindings!Goto(r, "prev")
    <3>1. PostsRight' /\ PageRight' /\ PoolRight'
      BY <1>1, <1>2, <1>6, <2>1, GotoRight, PoolStays
         DEF Bindings!FindPool, PageRight, Bindings!rows
    <3> QED
      BY <1>3, <1>4, <1>6, <3>1 DEF Bindings!FindPool, Bindings!rows, Bindings!bound
  <2>2. CASE ~pool /\ Bindings!Goto(r, "create")
    <3>1. PostsRight' /\ PageRight' /\ PoolRight'
      BY <1>1, <1>2, <1>6, <2>2, GotoRight, PoolStays
         DEF Bindings!FindPool, PageRight, Bindings!rows
    <3> QED
      BY <1>3, <1>4, <1>6, <3>1 DEF Bindings!FindPool, Bindings!rows, Bindings!bound
  <2> QED
    BY <1>2, <1>6, <2>1, <2>2 DEF Bindings!FindPool
<1>7. CASE Bindings!CreatePool(r)
  <2>1. CASE pool /\ Bindings!Goto(r, "again")
    <3>1. PostsRight' /\ PageRight' /\ PoolRight'
      BY <1>1, <1>7, <2>1, GotoRight, PoolStays DEF Bindings!CreatePool, PageRight
    <3> QED
      BY <1>3, <1>4, <1>7, <3>1 DEF Bindings!CreatePool, Bindings!bound
  <2>2. CASE ~pool /\ Bindings!Goto(r, "prev")
    <3>1. PostsRight' /\ PageRight' /\ PoolRight'
      BY <1>1, <1>7, <2>2, GotoRight, PoolStays DEF Bindings!CreatePool, PageRight
    <3> QED
      BY <1>3, <1>4, <1>7, <3>1 DEF Bindings!CreatePool, Bindings!bound
  <2> QED
    BY <1>2, <1>7, <2>1, <2>2 DEF Bindings!CreatePool
<1>8. CASE Bindings!CreateFails(r)
  <2>1. PostsRight' /\ PageRight' /\ PoolRight'
    BY <1>1, <1>2, <1>8, GotoRight, PoolStays DEF Bindings!CreateFails, PageRight, Bindings!rows
  <2> QED
    BY <1>3, <1>4, <1>8, <2>1 DEF Bindings!CreateFails, Bindings!Fault, Bindings!rows
<1>9. CASE Bindings!FindPoolAgain(r)
  <2>1. CASE pool /\ Bindings!Goto(r, "prev") /\ UNCHANGED page
    <3>1. PostsRight' /\ PageRight' /\ PoolRight'
      BY <1>1, <1>2, <1>9, <2>1, GotoRight, PoolStays
         DEF Bindings!FindPoolAgain, PageRight, Bindings!rows
    <3> QED
      BY <1>3, <1>4, <1>9, <3>1 DEF Bindings!FindPoolAgain, Bindings!rows, Bindings!bound
  <2>2. CASE Bindings!Answer(r)
    <3>1. PostsRight' /\ PageRight' /\ PoolRight'
      BY <1>1, <1>2, <1>9, <2>2, AnswerRight, PoolStays DEF Bindings!FindPoolAgain, Bindings!rows
    <3> QED
      BY <1>3, <1>4, <1>9, <3>1 DEF Bindings!FindPoolAgain, Bindings!rows, Bindings!bound
  <2> QED
    BY <1>9, <2>1, <2>2 DEF Bindings!FindPoolAgain
<1>10. CASE Bindings!QueryFails(r)
  <2> DEFINE q == Bindings!Idle
  <2>1. PostedRight(q) /\ req' = [req EXCEPT ![r] = q]
    BY <1>10, IdlePosted DEF Bindings!QueryFails
  <2> HIDE DEF q
  <2>2. PostsRight' /\ \A c \in Bindings!Clients : req'[c] = IF c = r THEN q ELSE req[c]
    BY <1>1, <2>1, OnePost
  <2>3. PostsRight' /\ \A c \in Bindings!Clients : req'[c] = IF c = r THEN Bindings!Idle ELSE req[c]
    BY <2>2 DEF q
  <2>4. PageRight'
    BY <1>1, <1>10 DEF Bindings!QueryFails, PageRight
  <2>5. PoolRight'
    BY <1>1, <1>2, <1>10, <2>3, IdlePosted, PoolStays DEF Bindings!QueryFails, Bindings!rows
  <2> QED
    BY <1>3, <1>4, <1>10, <2>3, <2>4, <2>5 DEF Bindings!QueryFails, Bindings!Fault, Bindings!rows
<1> QED
  BY <1>5, <1>6, <1>7, <1>8, <1>9, <1>10

\* ensurePrimaryProxyId, and the row before the write.
LEMMA PostPicks ==
  ASSUME BindingsInv, NEW r \in Bindings!Clients, Bindings!ReadPrev(r) \/ Bindings!PickPrimary(r)
  PROVE  BindingsInv'
<1>1. PostsRight /\ PageRight /\ PoolRight /\ PostedRight(req[r]) /\ req[r] \in Posted
  BY DEF BindingsInv, PostsRight
<1>2. pool \in BOOLEAN /\ (req[r].pc \in {"prev", "pick", "write"} => pool)
  BY <1>1 DEF PoolRight
<1>3. UNCHANGED <<tokens, proxies, pool, binding, posts, faults, toggles, chosen>>
  BY DEF Bindings!ReadPrev, Bindings!PickPrimary, Bindings!rows, Bindings!bound
<1>4. ASSUME PostsRight', PageRight', PoolRight' PROVE BindingsInv'
  BY <1>3, <1>4 DEF BindingsInv, PostsRight, Bindings!ChoiceSticks
<1>5. CASE Bindings!Answer(r)
  <2>1. PostsRight' /\ PageRight' /\ PoolRight'
    BY <1>1, <1>2, <1>3, <1>5, AnswerRight, PoolStays
  <2> QED
    BY <1>4, <2>1
<1>6. ASSUME NEW q, PostedRight(q), req' = [req EXCEPT ![r] = q], UNCHANGED page, pool
      PROVE  BindingsInv'
  <2>1. PostsRight' /\ \A c \in Bindings!Clients : req'[c] = IF c = r THEN q ELSE req[c]
    BY <1>1, <1>6, OnePost
  <2>2. PoolRight'
    BY <1>1, <1>2, <1>3, <1>6, <2>1, PoolStays
  <2>3. PageRight'
    BY <1>1, <1>6 DEF PageRight
  <2> QED
    BY <1>4, <2>1, <2>2, <2>3
<1>7. CASE Bindings!ReadPrev(r) /\ ~Bindings!Answer(r)
  <2> DEFINE b == binding[req[r].token]
             pc == IF req[r].kind = "override" /\ b = Bindings!NoBinding THEN "pick" ELSE "write"
             q == [req[r] EXCEPT !.prev = b, !.pc = pc]
  <2>1. req[r].token \in Tokens /\ req[r].pc = "prev"
    BY <1>1, <1>7 DEF PostedRight, Bindings!ReadPrev
  <2>2. b \in Bindings!Bindings /\ BoundRight(b)
    BY <2>1 DEF BindingsInv
  <2>3. req' = [req EXCEPT ![r] = q] /\ UNCHANGED page
    BY <1>1, <1>7 DEF Bindings!ReadPrev, PostsRight
  <2>4. q.pc = pc /\ q.prev = b /\ q.kind = req[r].kind /\ q.token = req[r].token
        /\ q.proxy = req[r].proxy
    BY <1>1 DEF Posted
  <2>5. pc \in {"pick", "write"} /\ (pc = "write" /\ req[r].kind = "override" => b # Bindings!NoBinding)
    OBVIOUS
  <2> HIDE DEF b, pc
  <2>6. q \in Posted
    BY <1>1, <2>2, <2>5 DEF Posted
  <2> HIDE DEF q
  <2>7. PostedRight(q)
    BY <1>1, <2>1, <2>2, <2>4, <2>5, <2>6 DEF PostedRight, BoundRight
  <2> QED
    BY <1>2, <1>6, <2>1, <2>3, <2>7
<1>8. CASE Bindings!PickPrimary(r) /\ ~Bindings!Answer(r)
  <2> DEFINE best == Bindings!Rendezvous(req[r].token, proxies)
             b == [req[r].prev EXCEPT !.primary = best]
             q == [req[r] EXCEPT !.pc = "write", !.prev = b]
  <2>1. req[r].token \in Tokens /\ req[r].pc = "pick" /\ proxies # {} /\ UNCHANGED page
        /\ req' = [req EXCEPT ![r].pc = "write", ![r].prev.primary = best]
    BY <1>1, <1>8 DEF PostedRight, Bindings!PickPrimary
  <2>2. best \in Proxies /\ best # Bindings!Nobody
    <3>1. proxies \in SUBSET Proxies
      BY DEF BindingsInv
    <3> QED
      BY <2>1, <3>1, RendezvousChooses, BindingConstants DEF Bindings!Nobody
  <2> HIDE DEF best
  <2>3. b \in Bindings!Bindings /\ b.primary = best
    BY <1>1, <2>2 DEF Posted, Bindings!Bindings
  <2>4. req' = [req EXCEPT ![r] = q]
    <3>1. req[r] \in Posted /\ req \in [Bindings!Clients -> Posted]
      BY <1>1 DEF PostsRight
    <3> QED
      BY <2>1, <3>1 DEF Posted
  <2> HIDE DEF b
  <2>5. q \in Posted /\ q.pc = "write" /\ q.prev = b /\ q.kind = req[r].kind
        /\ q.token = req[r].token /\ q.proxy = req[r].proxy
    BY <1>1, <2>3 DEF Posted
  <2> HIDE DEF q
  <2>6. PostedRight(q)
    BY <1>1, <2>1, <2>2, <2>3, <2>5 DEF PostedRight
  <2> QED
    BY <1>2, <1>6, <2>1, <2>4, <2>6, Zenon
<1> QED
  BY <1>5, <1>7, <1>8

\* A row is written as a whole, and right.
LEMMA OneRow ==
  ASSUME BindingsInv, NEW t \in Tokens, NEW b, BoundRight(b),
         binding' = [binding EXCEPT ![t] = b]
  PROVE  /\ binding' \in [Tokens -> Bindings!Bindings] /\ \A u \in Tokens : BoundRight(binding'[u])
         /\ \A u \in Tokens : binding'[u] = IF u = t THEN b ELSE binding[u]
BY DEF BindingsInv, BoundRight

LEMMA PostWrites ==
  ASSUME BindingsInv, NEW r \in Bindings!Clients, Bindings!Write(r)
  PROVE  BindingsInv'
<1> DEFINE q == req[r]
           t == q.token
           row0 == binding[t]
<1>1. PostsRight /\ PageRight /\ PoolRight /\ PostedRight(q) /\ q \in Posted
  BY DEF BindingsInv, PostsRight
<1>2. q.pc = "write" /\ t \in Tokens /\ pool = TRUE /\ Bindings!Answer(r)
      /\ UNCHANGED <<tokens, proxies, pool, posts, faults, toggles>>
  BY <1>1 DEF PostedRight, Bindings!Write, PoolRight, Bindings!bound
<1>3. row0 \in Bindings!Bindings /\ BoundRight(row0)
  BY <1>2 DEF BindingsInv
<1>4. PostsRight' /\ PageRight' /\ \A c \in Bindings!Clients : c # r => req'[c] = req[c]
      /\ req'[r].pc = "idle"
  BY <1>1, <1>2, AnswerRight
<1>5. chosen \in [Tokens -> Proxies \union {Bindings!Nobody}] /\ Bindings!ChoiceSticks
  BY DEF BindingsInv
<1>6. ASSUME NEW b, BoundRight(b), binding' = [binding EXCEPT ![t] = b],
             chosen' \in [Tokens -> Proxies \union {Bindings!Nobody}],
             \A u \in Tokens : u # t => chosen'[u] = chosen[u],
             chosen'[t] # Bindings!Nobody => b.primary = chosen'[t]
      PROVE  BindingsInv'
  <2>1. /\ binding' \in [Tokens -> Bindings!Bindings]
        /\ \A u \in Tokens : BoundRight(binding'[u])
        /\ \A u \in Tokens : binding'[u] = IF u = t THEN b ELSE binding[u]
    <3> HIDE DEF t
    <3> QED
      BY <1>2, <1>6, OneRow
  <2>2. Bindings!ChoiceSticks'
    BY <1>5, <1>6, <2>1 DEF Bindings!ChoiceSticks
  <2>3. PoolRight'
    BY <1>2 DEF PoolRight
  <2> QED
    BY <1>2, <1>4, <1>6, <2>1, <2>2, <2>3 DEF BindingsInv, PostsRight
<1>7. CASE q.kind = "rebind" /\ binding' = [binding EXCEPT ![t] = Bindings!Rebound(q, @)]
  <2> DEFINE b == Bindings!Rebound(q, row0)
  <2>1. q.proxy \in Proxies /\ q.proxy # Bindings!Nobody
    BY <1>1, <1>7, BindingConstants DEF PostedRight, Bindings!Nobody
  <2>2. b \in Bindings!Bindings /\ b.primary = q.proxy /\ (b.override = Bindings!Nobody => ~b.live)
    BY <1>3, <2>1 DEF BoundRight, Bindings!Bindings, Bindings!Rebound
  <2>3. binding' = [binding EXCEPT ![t] = b] /\ chosen' = [chosen EXCEPT ![t] = q.proxy]
    BY <1>7 DEF Bindings!Write, BindingsInv
  <2> HIDE DEF b
  <2>4. BoundRight(b)
    BY <2>1, <2>2 DEF BoundRight
  <2> HIDE DEF q, t
  <2>5. /\ chosen' \in [Tokens -> Proxies \union {Bindings!Nobody}]
        /\ \A u \in Tokens : u # t => chosen'[u] = chosen[u]
        /\ chosen'[t] = q.proxy
    BY <1>2, <1>5, <2>1, <2>3
  <2> QED
    BY <1>6, <2>2, <2>3, <2>4, <2>5
<1>8. CASE q.kind = "override" /\ binding' = [binding EXCEPT ![t] = Bindings!Overridden(q, @)]
  <2> DEFINE b == Bindings!Overridden(q, row0)
  <2>1. q.proxy \in Proxies /\ q.proxy # Bindings!Nobody
        /\ q.prev.primary \in Proxies /\ q.prev.primary # Bindings!Nobody
    BY <1>1, <1>2, <1>8, BindingConstants DEF PostedRight, Posted, Bindings!Bindings, Bindings!Nobody
  <2>2. b.override = q.proxy /\ b.primary # Bindings!Nobody /\ b \in Bindings!Bindings
        /\ (row0 # Bindings!NoBinding => b.primary = row0.primary)
    BY <1>3, <2>1 DEF BoundRight, Bindings!Bindings, Bindings!Overridden
  <2>3. binding' = [binding EXCEPT ![t] = b] /\ chosen' = chosen
    BY <1>8 DEF Bindings!Write, BindingsInv
  <2>4. chosen[t] # Bindings!Nobody => row0.primary = chosen[t] /\ row0 # Bindings!NoBinding
    BY <1>2, <1>5 DEF Bindings!ChoiceSticks, Bindings!NoBinding
  <2> HIDE DEF b
  <2>5. BoundRight(b)
    BY <2>1, <2>2 DEF BoundRight
  <2> QED
    BY <1>5, <1>6, <2>2, <2>3, <2>4, <2>5
<1>9. CASE q.kind = "clear" /\ binding' = [binding EXCEPT ![t] = Bindings!Cleared(q, @)]
  <2> DEFINE b == Bindings!Cleared(q, row0)
  <2>1. b \in Bindings!Bindings /\ b.primary = row0.primary /\ b.override = Bindings!Nobody /\ ~b.live
    BY <1>3 DEF Bindings!Bindings, Bindings!Cleared
  <2>2. b.primary = Bindings!Nobody => b = Bindings!NoBinding
    BY <1>3, <2>1 DEF BoundRight, Bindings!Bindings, Bindings!NoBinding
  <2>3. binding' = [binding EXCEPT ![t] = b] /\ chosen' = chosen
    BY <1>9 DEF Bindings!Write, BindingsInv
  <2>4. chosen[t] # Bindings!Nobody => row0.primary = chosen[t]
    BY <1>2, <1>5 DEF Bindings!ChoiceSticks
  <2> HIDE DEF b
  <2>5. BoundRight(b)
    BY <2>1, <2>2 DEF BoundRight
  <2> QED
    BY <1>5, <1>6, <2>1, <2>3, <2>4, <2>5
<1> QED
  BY <1>7, <1>8, <1>9 DEF Bindings!Write

LEMMA AskedRight ==
  ASSUME NEW ask \in Bindings!Demands
  PROVE  PostedRight(Bindings!Asked(ask)) /\ Bindings!Asked(ask).pc = "check"
<1>1. /\ ask.kind \in {"rebind", "override", "clear"} /\ ask.token \in Tokens
      /\ ask.proxy \in Proxies \union {Bindings!Nobody} /\ ask.clear \in BOOLEAN
      /\ ask.kind \in {"rebind", "override"} => ask.proxy \in Proxies
  BY DEF Bindings!Demands
<1>2. Bindings!Asked(ask) \in Posted
  BY <1>1, IdlePosted DEF Bindings!Asked, Posted
<1> QED
  BY <1>1, <1>2 DEF PostedRight, Bindings!Asked

\* A new post of anybody.
LEMMA AskKeeps ==
  ASSUME PostsRight, PoolRight, NEW r \in Bindings!Clients,
         \E ask \in Bindings!Demands : req' = [req EXCEPT ![r] = Bindings!Asked(ask)],
         UNCHANGED <<pool, binding>>
  PROVE  PostsRight' /\ PoolRight'
<1>1. PICK ask \in Bindings!Demands : req' = [req EXCEPT ![r] = Bindings!Asked(ask)]
  OBVIOUS
<1> DEFINE q == Bindings!Asked(ask)
<1>2. PostedRight(q) /\ q.pc = "check" /\ req' = [req EXCEPT ![r] = q]
  BY <1>1, AskedRight
<1> HIDE DEF q
<1>3. PostsRight' /\ \A c \in Bindings!Clients : req'[c] = IF c = r THEN q ELSE req[c]
  BY <1>2, OnePost, ZenonT(30)
<1>4. pool \in BOOLEAN
  BY DEF PoolRight
<1>5. PoolRight'
  BY <1>2, <1>3, <1>4, PoolStays
<1> QED
  BY <1>3, <1>5

LEMMA EmptyTable == << >> \in Tables
<1>1. << >> \in [{} -> Bindings!Shown]
  OBVIOUS
<1> QED
  BY <1>1 DEF Tables

\* What the handler shows of the rows.
LEMMA ListedRight ==
  ASSUME BindingsInv, Bindings!ListBindings
  PROVE  PageRight'
<1> DEFINE Suggested(t) == IF page.read.proxies = {} THEN Bindings!Nobody
                           ELSE Bindings!Rendezvous(t, page.read.proxies)
           Row(t) == [row |-> binding[t], effective |-> Bindings!Effective(binding[t]),
                      suggested |-> Suggested(t)]
           table == [t \in page.read.tokens |-> Row(t)]
<1>1. page.read.tokens \in SUBSET Tokens /\ page.read.proxies \in SUBSET Proxies /\ PageRight
  BY DEF BindingsInv, PageRight
<1>2. ASSUME NEW t \in page.read.tokens PROVE Row(t) \in Bindings!Shown
  <2>1. t \in Tokens
    BY <1>1
  <2>2. binding[t] \in Bindings!Bindings
    BY <2>1 DEF BindingsInv
  <2>3. Suggested(t) \in Proxies \union {Bindings!Nobody}
    BY <1>1, <2>1, RendezvousChooses
  <2>4. Bindings!Effective(binding[t]) \in Proxies \union {Bindings!Nobody}
    BY <2>2 DEF Bindings!Effective, Bindings!Bindings
  <2> HIDE DEF Suggested
  <2> QED
    BY <2>2, <2>3, <2>4 DEF Bindings!Shown
<1>3. page' = [page EXCEPT !.pc = "ready", !.shown = table,
                           !.read = [tokens |-> {}, proxies |-> {}]]
  BY DEF Bindings!ListBindings
<1> HIDE DEF Row
<1>4. table \in [page.read.tokens -> Bindings!Shown]
  BY <1>2
<1> HIDE DEF table
<1>5. table \in Tables
  BY <1>1, <1>4 DEF Tables
<1> QED
  BY <1>1, <1>3, <1>5 DEF PageRight

LEMMA PageSteps ==
  ASSUME BindingsInv,
         \/ Bindings!ListTokens \/ Bindings!ListProxies \/ Bindings!ListBindings
         \/ Bindings!LoadFails \/ Bindings!Refresh
  PROVE  BindingsInv'
<1>1. PostsRight /\ PageRight /\ PoolRight /\ tokens \in SUBSET Tokens /\ proxies \in SUBSET Proxies
  BY DEF BindingsInv, PostsRight
<1>2. UNCHANGED <<tokens, proxies, pool, binding, req, posts, toggles, chosen>>
  BY DEF Bindings!ListTokens, Bindings!ListProxies, Bindings!ListBindings, Bindings!LoadFails,
         Bindings!Refresh, Bindings!rows, Bindings!bound
<1>3. faults' \in 0..MaxFaults
  BY BindingConstants
     DEF BindingsInv, Bindings!ListTokens, Bindings!ListProxies, Bindings!ListBindings,
         Bindings!LoadFails, Bindings!Refresh, Bindings!Fault, Bindings!bound
<1>4. PageRight'
  <2>1. CASE Bindings!ListTokens
    BY <1>1, <2>1 DEF Bindings!ListTokens, PageRight
  <2>2. CASE Bindings!ListProxies
    BY <1>1, <2>2 DEF Bindings!ListProxies, PageRight
  <2>3. CASE Bindings!ListBindings
    BY <2>3, ListedRight
  <2>4. CASE Bindings!LoadFails
    <3> DEFINE e == [tokens |-> {}, proxies |-> {}]
               none == << >>
    <3>1. page' = [page EXCEPT !.pc = "ready", !.shown = none, !.read = e]
      BY <2>4 DEF Bindings!LoadFails
    <3>2. e \in [tokens: SUBSET Tokens, proxies: SUBSET Proxies] /\ none \in Tables
      BY EmptyTable
    <3> HIDE DEF e, none
    <3> QED
      BY <1>1, <3>1, <3>2 DEF PageRight
  <2>5. CASE Bindings!Refresh
    BY <1>1, <2>5 DEF Bindings!Refresh, PageRight
  <2> QED
    BY <2>1, <2>2, <2>3, <2>4, <2>5
<1>5. PoolRight'
  BY <1>1, <1>2 DEF PoolRight, Bindings!Bound
<1> QED
  BY <1>2, <1>3, <1>4, <1>5 DEF BindingsInv, Bindings!ChoiceSticks

LEMMA NextBindingsInv == BindingsInv /\ Bindings!Next => BindingsInv'
<1> SUFFICES ASSUME BindingsInv, Bindings!Next PROVE BindingsInv'
  OBVIOUS
<1> USE BindingConstants
<1>1. PostsRight /\ PageRight /\ PoolRight
  BY DEF BindingsInv, PostsRight
<1>2. ASSUME NEW r \in Others, Bindings!Post(r) PROVE BindingsInv'
  <2>1. r \in Bindings!Clients
    BY DEF Bindings!Clients
  <2>2. PostsRight' /\ PoolRight'
    BY <1>1, <1>2, <2>1, AskKeeps DEF Bindings!Post, Bindings!rows
  <2>3. UNCHANGED <<tokens, proxies, pool, binding, page, faults, toggles, chosen>>
        /\ posts' \in 0..MaxPosts
    BY <1>2 DEF BindingsInv, Bindings!Post, Bindings!rows
  <2> QED
    BY <1>1, <2>2, <2>3 DEF BindingsInv, PostsRight, PageRight, Bindings!ChoiceSticks
<1>3. CASE Bindings!Click
  <2>1. "page" \in Bindings!Clients
    BY DEF Bindings!Clients
  <2>2. PostsRight' /\ PoolRight'
    BY <1>1, <1>3, <2>1, AskKeeps DEF Bindings!Click, Bindings!rows
  <2>3. UNCHANGED <<tokens, proxies, pool, binding, faults, toggles, chosen>>
        /\ posts' \in 0..MaxPosts
    BY <1>3 DEF BindingsInv, Bindings!Click, Bindings!rows
  <2>4. PageRight'
    BY <1>1, <1>3 DEF PageRight, Bindings!Click
  <2> QED
    BY <1>1, <2>2, <2>3, <2>4 DEF BindingsInv, PostsRight, Bindings!ChoiceSticks
<1>4. ASSUME NEW r \in Bindings!Clients, Bindings!Handle(r) PROVE BindingsInv'
  BY <1>4, PostReads, PostPicks, PostWrites DEF Bindings!Handle
<1>5. CASE \/ Bindings!ListTokens \/ Bindings!ListProxies \/ Bindings!ListBindings
           \/ Bindings!LoadFails \/ Bindings!Refresh
  BY <1>5, PageSteps
<1>6. ASSUME NEW t \in Tokens, Bindings!Expire(t) PROVE BindingsInv'
  <2> DEFINE b == [binding[t] EXCEPT !.live = FALSE]
  <2>1. binding[t] \in Bindings!Bindings /\ BoundRight(binding[t]) /\ binding[t].live
    BY <1>6 DEF BindingsInv, Bindings!Expire
  <2>2. binding[t] # Bindings!NoBinding
    BY <2>1 DEF Bindings!NoBinding
  <2>3. b \in Bindings!Bindings /\ b.primary = binding[t].primary /\ ~b.live
    BY <2>1 DEF Bindings!Bindings
  <2>4. binding' = [binding EXCEPT ![t] = b]
    BY <1>6 DEF Bindings!Expire, BindingsInv
  <2>5. UNCHANGED <<tokens, proxies, pool, req, page, posts, faults, toggles, chosen>>
    BY <1>6 DEF Bindings!Expire, Bindings!bound
  <2> HIDE DEF b
  <2>6. BoundRight(b)
    BY <2>1, <2>2, <2>3 DEF BoundRight
  <2>7. /\ binding' \in [Tokens -> Bindings!Bindings] /\ \A u \in Tokens : BoundRight(binding'[u])
        /\ \A u \in Tokens : binding'[u] = IF u = t THEN b ELSE binding[u]
    BY <2>4, <2>6, OneRow
  <2>8. \A u \in Tokens : binding'[u].primary = binding[u].primary
    BY <2>3, <2>7
  <2>9. PoolRight'
    BY <1>1, <2>5, <2>8 DEF PoolRight, Bindings!Bound
  <2>10. Bindings!ChoiceSticks'
    BY <2>5, <2>8 DEF BindingsInv, Bindings!ChoiceSticks
  <2> QED
    BY <1>1, <2>5, <2>7, <2>9, <2>10 DEF BindingsInv, PageRight
<1>7. CASE Bindings!Toggle
  <2>1. tokens' \subseteq Tokens /\ proxies' \subseteq Proxies
    BY <1>7 DEF BindingsInv, Bindings!Toggle, Bindings!SymDiff
  <2>2. toggles' \in 0..MaxToggles /\ UNCHANGED <<pool, binding, req, page, posts, faults, chosen>>
    BY <1>7 DEF BindingsInv, Bindings!Toggle
  <2> QED
    BY <1>1, <2>1, <2>2 DEF BindingsInv, PoolRight, Bindings!Bound, PageRight, Bindings!ChoiceSticks
<1> QED
  BY <1>2, <1>3, <1>4, <1>5, <1>6, <1>7 DEF Bindings!Next

LEMMA SameBindingsInv ==
  BindingsInv /\ UNCHANGED <<bindings, page, posts, faults>> => BindingsInv'
BY DEF bindings, BindingsInv, PoolRight, Bindings!Bound, PageRight, Bindings!ChoiceSticks

-----------------------------------------------------------------------------
(***************************************************************************)
(* The probes.  ReportsTrue needs that whatever has answered in the check  *)
(* in flight, is ok in the last report, or is shown as ok, has worked at   *)
(* the date of that or later, which stays true as endpoints change and     *)
(* time passes; and that a token's test, which is ok when Pixiv says so,   *)
(* is no endpoint's.  The types need that there is a number left for every *)
(* test that was ordered.                                                  *)
(***************************************************************************)
Test ==
  [pc: {"none", "sending", "created", "row", "exchange", "wait", "done"},
   thing: Probes!Things \union {Probes!Nobody},
   result: {"none", "unsent", "refused", "ok", "bad", "timeout"}, at: Probes!Dates]

TestRight(q, w) ==
  /\ q \in Test
  /\ q.pc = "exchange" => q.thing \in Secrets
  /\ q.result = "ok" /\ q.thing \in Endpoints => w[q.thing] >= q.at

TestsRight == job \in [Probes!Jobs -> Test] /\ \A j \in Probes!Jobs : TestRight(job[j], worked)

\* Each of these endpoints has worked at this date, or later.
Since(S, date, w) == \A e \in S : w[e] >= date

WorldRight ==
  /\ up \in SUBSET Endpoints /\ worked \in [Endpoints -> Probes!Dates]
  /\ \A e \in Endpoints : worked[e] <= now
  /\ \A e \in up : worked[e] = now

CheckRight ==
  /\ check \in [stage: {"none", "load", "probe"}, members: SUBSET Endpoints,
                todo: SUBSET Endpoints, answered: SUBSET Endpoints, at: Nat]
  /\ check.todo \subseteq check.members /\ check.answered \subseteq check.members
  /\ check.at <= now
  /\ Since(check.answered, check.at, worked)

ReportRight ==
  /\ report \in [at: Probes!Dates, ok: SUBSET Endpoints]
  /\ report.at = Probes!Never => report.ok = {}
  /\ Since(report.ok, report.at, worked)

OverviewRight ==
  /\ overview \in [pc: {"closed", "rows", "refresh", "ready"}, at: Nat, dated: Probes!Dates,
                   shown: SUBSET Endpoints, stale: BOOLEAN]
  /\ overview.dated = Probes!Never => overview.shown = {}
  /\ Since(overview.shown, overview.dated, worked)
  /\ overview.pc = "ready" /\ overview.dated # Probes!Never /\ ~overview.stale =>
       overview.at - overview.dated <= Cutoff

FormRight ==
  /\ form \in [pc: {"closed", "row", "send"}, thing: Probes!Things \union {Probes!Nobody},
               job: Probes!Jobs \union {Probes!Nobody}]
  /\ form.pc = "row" => form.thing \in Probes!Things

Ordered == {j \in Probes!Jobs : job[j].pc # "none"}
Numbered == Cardinality(Ordered) + (IF form.pc = "row" THEN 1 ELSE 0) <= events

ProbesInv ==
  /\ row \in [Probes!Things -> {"none", "off", "on"}]
  /\ WorldRight /\ TestsRight /\ CheckRight /\ ReportRight /\ OverviewRight /\ FormRight
  /\ Numbered /\ now \in 0..MaxTime /\ events \in 0..MaxEvents

LEMMA ProbeConstants ==
  Endpoints \intersect Secrets = {} /\ Cutoff \in Nat /\ MaxTime \in Nat /\ MaxEvents \in Nat
BY ProbesAssumption DEF Probes!ProbesAssumption

LEMMA ProbesInvGives == ProbesInv => Probes!TypeOK /\ Probes!ReportsTrue
<1> SUFFICES ASSUME ProbesInv PROVE Probes!TypeOK /\ Probes!ReportsTrue
  OBVIOUS
<1>1. Probes!ReportsTrue
  <2>1. ASSUME NEW j \in Probes!Jobs, job[j].result = "ok", job[j].thing \in Endpoints
        PROVE  worked[job[j].thing] >= job[j].at
    BY <2>1 DEF ProbesInv, TestsRight, TestRight
  <2>2. ASSUME overview.pc = "ready", ~overview.stale, NEW e \in overview.shown
        PROVE  worked[e] >= overview.at - Cutoff
    <3>1. OverviewRight /\ WorldRight
      BY DEF ProbesInv
    <3>2. overview.dated # Probes!Never /\ overview.dated \in Probes!Dates /\ overview.at \in Nat
          /\ e \in Endpoints
      BY <2>2, <3>1 DEF OverviewRight
    <3>3. worked[e] >= overview.dated
      BY <2>2, <3>1 DEF OverviewRight, Since
    <3>4. overview.at - overview.dated <= Cutoff
      BY <2>2, <3>1, <3>2 DEF OverviewRight
    <3>5. worked[e] \in Int /\ overview.dated \in Int /\ Cutoff \in Int /\ overview.at \in Int
      BY <3>1, <3>2, ProbeConstants DEF WorldRight, Probes!Dates, Probes!Never
    <3> QED
      BY <3>3, <3>4, <3>5
  <2> QED
    BY <2>1, <2>2 DEF Probes!ReportsTrue
<1>2. CheckRight /\ OverviewRight /\ FormRight /\ ReportRight /\ WorldRight /\ now \in 0..MaxTime
  BY DEF ProbesInv
<1>3. /\ check.stage \in {"none", "load", "probe"}
      /\ check.todo \union check.answered \subseteq check.members
      /\ check.members \subseteq Endpoints /\ check.at \in 0..now
      /\ form.pc \in {"closed", "row", "send"} /\ form.job \in Probes!Jobs \union {Probes!Nobody}
      /\ overview.pc \in {"closed", "rows", "refresh", "ready"} /\ overview.dated \in Probes!Dates
      /\ overview.shown \subseteq Endpoints /\ up \subseteq Endpoints
      /\ worked \in [Endpoints -> Probes!Dates] /\ report \in [at: Probes!Dates, ok: SUBSET Endpoints]
  BY <1>2 DEF CheckRight, OverviewRight, FormRight, ReportRight, WorldRight
<1>4. Probes!TypeOK
  BY <1>3 DEF ProbesInv, TestsRight, Test, Probes!TypeOK
<1> QED
  BY <1>1, <1>4

LEMMA InitProbesInv == Probes!Init => ProbesInv
<1> SUFFICES ASSUME Probes!Init PROVE ProbesInv
  OBVIOUS
<1> USE ProbeConstants DEF Probes!Init
<1>1. Probes!NoTest \in Test /\ TestRight(Probes!NoTest, worked) /\ Probes!NoTest.pc = "none"
  BY DEF Probes!NoTest, Probes!Dates, Probes!Never, Test, TestRight
<1>2. TestsRight
  BY <1>1 DEF TestsRight
<1>3. WorldRight /\ CheckRight /\ ReportRight /\ OverviewRight /\ FormRight
  <2>1. CheckRight
    BY DEF Probes!NoCheck, CheckRight, Since
  <2>2. OverviewRight
    BY DEF Probes!Unread, Probes!Dates, Probes!Never, OverviewRight, Since
  <2>4. ReportRight
    BY DEF Probes!NoReport, Probes!Dates, Probes!Never, ReportRight, Since
  <2>5. WorldRight
    BY DEF WorldRight, Probes!Dates, Probes!Never
  <2>3. FormRight
    BY DEF Probes!Blank, FormRight
  <2> QED
    BY <2>1, <2>2, <2>3, <2>4, <2>5
<1>4. Numbered
  <2>1. Ordered = {}
    BY <1>1 DEF Ordered
  <2> QED
    BY <2>1, FS_EmptySet DEF Numbered, Probes!Blank
<1> QED
  BY <1>2, <1>3, <1>4 DEF ProbesInv

\* A step that changes one test, to one that is right, keeps them right, and the
\* numbers of those that were ordered.
LEMMA OneTest ==
  ASSUME TestsRight, NEW j \in Probes!Jobs, NEW q, TestRight(q, worked), q.pc # "none",
         job[j].pc # "none", job' = [job EXCEPT ![j] = q], UNCHANGED worked
  PROVE  TestsRight' /\ Ordered' = Ordered
BY DEF TestsRight, TestRight, Ordered

LEMMA OrderedFinite ==
  ASSUME ProbesInv
  PROVE  IsFiniteSet(Ordered) /\ Cardinality(Ordered) \in Nat /\ Cardinality(Ordered) <= MaxEvents
<1>1. IsFiniteSet(Probes!Jobs) /\ Cardinality(Probes!Jobs) = MaxEvents
  BY ProbeConstants, FS_Interval DEF Probes!Jobs
<1>2. Ordered \in SUBSET Probes!Jobs
  BY DEF Ordered
<1> QED
  BY <1>1, <1>2, FS_Subset, FS_CardinalityType

LEMMA BlankRight == FormRight /\ form' = Probes!Blank => FormRight'
BY DEF FormRight, Probes!Blank

\* When the form closes, or stays as it is, and no test is new, there are numbers left.
LEMMA NumbersLeft ==
  ASSUME ProbesInv, Ordered' = Ordered, form' = Probes!Blank \/ form' = form,
         events' = events \/ events' = events + 1
  PROVE  Numbered'
<1>1. Cardinality(Ordered) \in Nat /\ events \in Nat
  BY OrderedFinite DEF ProbesInv
<1> QED
  BY <1>1 DEF ProbesInv, Numbered, Probes!Blank

LEMMA StartRight ==
  ASSUME NEW members \in SUBSET Endpoints, NEW at \in {"load", "probe"}, now \in Nat
  PROVE  LET c == Probes!Starting(members, at) IN
           /\ c \in [stage: {"none", "load", "probe"}, members: SUBSET Endpoints,
                     todo: SUBSET Endpoints, answered: SUBSET Endpoints, at: Nat]
           /\ c.todo \subseteq c.members /\ c.answered \subseteq c.members /\ c.at <= now
           /\ Since(c.answered, c.at, worked)
<1> DEFINE m == [Probes!NoCheck EXCEPT !.stage = at, !.members = members]
           c == [m EXCEPT !.todo = members, !.at = now]
           Checks == [stage: {"none", "load", "probe"}, members: SUBSET Endpoints,
                      todo: SUBSET Endpoints, answered: SUBSET Endpoints, at: Nat]
<1>1. m \in Checks /\ m.members = members /\ m.answered = {}
  BY DEF Probes!NoCheck
<1>2. Probes!Starting(members, at) = c
  BY DEF Probes!Starting, Probes!NoCheck
<1> HIDE DEF m
<1>3. c \in Checks /\ c.members = members /\ c.todo = members /\ c.answered = {} /\ c.at = now
  BY <1>1
<1> QED
  BY <1>2, <1>3 DEF Since

\* The order of a test.
LEMMA OrdersKeep ==
  ASSUME ProbesInv,
         \/ \E t \in Probes!Things : Probes!Order(t)
         \/ Probes!ReadRow \/ Probes!ReadRowFails \/ Probes!SendTimesOut
  PROVE  ProbesInv'
<1> USE ProbeConstants
<1>1. TestsRight /\ CheckRight /\ OverviewRight /\ FormRight /\ Numbered
      /\ events \in 0..MaxEvents /\ Cardinality(Ordered) \in Nat
  BY OrderedFinite DEF ProbesInv
<1>2. /\ UNCHANGED <<row, check, report, overview, up, worked, now>>
      /\ WorldRight' /\ CheckRight' /\ ReportRight' /\ OverviewRight'
  <2>1. UNCHANGED <<row, check, report, overview, up, worked, now>>
    BY Zenon DEF Probes!Order, Probes!ReadRow, Probes!ReadRowFails, Probes!SendTimesOut, Probes!bound,
           Probes!world
  <2> QED
    BY <2>1 DEF ProbesInv, WorldRight, CheckRight, ReportRight, OverviewRight
<1>3. ASSUME TestsRight', FormRight', Numbered', events' \in 0..MaxEvents PROVE ProbesInv'
  BY <1>2, <1>3 DEF ProbesInv
<1>4. ASSUME NEW t \in Probes!Things, Probes!Order(t) PROVE ProbesInv'
  <2>1. FormRight' /\ form'.pc = "row"
    BY Zenon, <1>4 DEF Probes!Order, Probes!Blank, FormRight
  <2>2. UNCHANGED job /\ events' = events + 1 /\ events < MaxEvents
    BY Zenon, <1>4 DEF Probes!Order, Probes!Event
  <2>3. UNCHANGED job /\ events' \in 0..MaxEvents /\ events' = events + 1
    BY <1>1, <2>2
  <2>4. form.pc # "row"
    BY Zenon, <1>4 DEF Probes!Order
  <2>5. TestsRight' /\ Ordered' = Ordered
    BY <1>1, <1>2, <2>3 DEF TestsRight, Ordered
  <2>6. Numbered'
    BY <1>1, <2>1, <2>3, <2>4, <2>5 DEF Numbered
  <2> QED
    BY <1>3, <2>1, <2>3, <2>5, <2>6
<1>5. CASE Probes!ReadRow
  <2>1. CASE Probes!Told /\ UNCHANGED job
    <3>1. FormRight' /\ TestsRight' /\ Ordered' = Ordered /\ events' = events
      BY <1>1, <1>2, <1>5, <2>1, BlankRight DEF Probes!ReadRow, Probes!Told, Probes!bound, TestsRight,
                                          Ordered
    <3>2. Numbered'
      BY <2>1, <3>1, NumbersLeft DEF Probes!Told
    <3> QED
      BY <1>1, <1>3, <3>1, <3>2
  <2>2. CASE ~(Probes!Told /\ UNCHANGED job)
    <3> DEFINE free == {k \in Probes!Jobs : job[k].pc = "none"}
               j == Probes!Min(free)
               q == [Probes!NoTest EXCEPT !.pc = "sending", !.thing = form.thing]
    <3>1. form.pc = "row" /\ form.thing \in Probes!Things
      BY <1>1, <1>5 DEF Probes!ReadRow, FormRight
    <3>2. job' = [job EXCEPT ![j] = q] /\ form' = [form EXCEPT !.pc = "send", !.job = j]
          /\ events' = events
      BY <1>5, <2>2 DEF Probes!ReadRow, Probes!bound
    <3>3. q \in Test /\ q.pc = "sending" /\ TestRight(q, worked)
      BY <3>1 DEF Probes!NoTest, Probes!Dates, Probes!Never, Test, TestRight
    <3>4. j \in free
      <4>1. Cardinality(Ordered) < MaxEvents
        BY <1>1, <3>1 DEF Numbered
      <4>2. Ordered # Probes!Jobs
        BY <4>1, FS_Interval DEF Probes!Jobs
      <4>3. free # {} /\ free \in SUBSET Nat
        BY <4>2 DEF Ordered, Probes!Jobs
      <4> HIDE DEF free
      <4> QED
        BY <4>3, LeastNatural DEF Probes!Min
    <3> HIDE DEF q, j
    <3>5. j \in Probes!Jobs /\ j \notin Ordered
      BY <3>4 DEF Ordered
    <3>6. TestsRight' /\ Ordered' = Ordered \union {j}
      BY <1>1, <1>2, <3>2, <3>3, <3>5 DEF TestsRight, Ordered
    <3>7. FormRight' /\ form'.pc = "send"
      BY <1>1, <3>2, <3>5 DEF FormRight
    <3>8. Cardinality(Ordered') = Cardinality(Ordered) + 1
      BY <3>5, <3>6, OrderedFinite, FS_AddElement
    <3>9. Numbered'
      BY <1>1, <3>1, <3>2, <3>7, <3>8 DEF Numbered
    <3> QED
      BY <1>1, <1>3, <3>2, <3>6, <3>7, <3>9
  <2> QED
    BY <2>1, <2>2
<1>6. CASE Probes!ReadRowFails \/ Probes!SendTimesOut
  <2>1. form' = Probes!Blank /\ UNCHANGED job /\ events' \in 0..MaxEvents
        /\ (events' = events \/ events' = events + 1)
    BY <1>1, <1>6 DEF Probes!ReadRowFails, Probes!SendTimesOut, Probes!Told, Probes!Event,
                      Probes!bound
  <2>2. FormRight' /\ TestsRight' /\ Ordered' = Ordered
    BY <1>1, <1>2, <2>1, BlankRight DEF TestsRight, Ordered
  <2> QED
    BY <1>3, <2>1, <2>2, NumbersLeft
<1> QED
  BY <1>4, <1>5, <1>6

\* The steps of one test that nobody else sees, but for the form that waits for it.
LEMMA TestSteps ==
  ASSUME ProbesInv, NEW j \in Probes!Jobs,
         \/ Probes!SendEnds(j) \/ Probes!SendFails(j) \/ Probes!Take(j)
         \/ Probes!ProbeTimesOut(j) \/ Probes!ReadToken(j) \/ Probes!Exchange(j)
         \/ Probes!ReadEndpoint(j)
  PROVE  ProbesInv'
<1> USE ProbeConstants
<1>1. TestsRight /\ CheckRight /\ OverviewRight /\ FormRight /\ Numbered
      /\ events \in 0..MaxEvents /\ now \in 0..MaxTime /\ TestRight(job[j], worked) /\ job[j] \in Test
  BY DEF ProbesInv, TestsRight
<1>2. /\ UNCHANGED <<row, report, overview, up, worked, now>>
      /\ WorldRight' /\ ReportRight' /\ OverviewRight'
  <2>1. UNCHANGED <<row, report, overview, up, worked, now>>
    BY DEF Probes!SendEnds, Probes!SendFails, Probes!Take, Probes!ProbeTimesOut, Probes!ReadToken,
           Probes!Exchange, Probes!ReadEndpoint, Probes!bound, Probes!pages, Probes!world
  <2> QED
    BY <2>1 DEF ProbesInv, WorldRight, ReportRight, OverviewRight
<1>3. ASSUME NEW q, TestRight(q, worked), q.pc # "none", job[j].pc # "none", job' = [job EXCEPT ![j] = q],
             form' = Probes!Blank \/ form' = form, events' \in 0..MaxEvents,
             events' = events \/ events' = events + 1, CheckRight'
      PROVE  ProbesInv'
  <2>1. TestsRight' /\ Ordered' = Ordered
    BY <1>1, <1>2, <1>3, OneTest
  <2>2. FormRight'
    BY <1>1, <1>3, BlankRight DEF FormRight
  <2>3. Numbered'
    BY <1>3, <2>1, NumbersLeft
  <2> QED
    BY <1>2, <1>3, <2>1, <2>2, <2>3 DEF ProbesInv
<1>4. ASSUME NEW pc \in {"created", "row", "exchange", "wait"}, job[j].pc # "none",
             pc = "exchange" => job[j].thing \in Secrets,
             job' = [job EXCEPT ![j].pc = pc],
             form' = Probes!Blank \/ form' = form, events' = events, CheckRight'
      PROVE  ProbesInv'
  <2> DEFINE q == [job[j] EXCEPT !.pc = pc]
  <2>1. TestRight(q, worked) /\ q.pc = pc
    BY <1>1, <1>4 DEF TestRight, Test
  <2>2. job' = [job EXCEPT ![j] = q]
    BY <1>1, <1>4 DEF TestsRight
  <2> HIDE DEF q
  <2> QED
    BY <1>1, <1>3, <1>4, <2>1, <2>2
<1>5. ASSUME NEW res \in {"unsent", "refused", "ok", "bad", "timeout"}, job[j].pc # "none",
             res = "ok" => job[j].thing \in Secrets,
             job' = [job EXCEPT ![j].pc = "done", ![j].result = res],
             form' = Probes!Blank \/ form' = form, events' \in 0..MaxEvents,
             events' = events \/ events' = events + 1, CheckRight'
      PROVE  ProbesInv'
  <2> DEFINE q == [job[j] EXCEPT !.pc = "done", !.result = res]
  <2>1. q \in Test /\ q.pc = "done" /\ q.result = res /\ q.thing = job[j].thing
    BY <1>1, <1>5 DEF TestRight, Test
  <2>2. job' = [job EXCEPT ![j] = q]
    BY <1>1, <1>5 DEF TestsRight
  <2> HIDE DEF q
  <2>3. TestRight(q, worked)
    BY <1>5, <2>1 DEF TestRight
  <2> QED
    BY <1>3, <1>5, <2>1, <2>2, <2>3
<1>6. CASE Probes!SendEnds(j)
  <2>1. CheckRight' /\ (form' = Probes!Blank \/ form' = form) /\ events' = events
    BY <1>1, <1>2, <1>6 DEF Probes!SendEnds, Probes!Told, Probes!bound, CheckRight
  <2> QED
    BY <1>4, <1>6, <2>1 DEF Probes!SendEnds
<1>7. CASE Probes!SendFails(j)
  <2>1. CheckRight' /\ (form' = Probes!Blank \/ form' = form)
        /\ events' \in 0..MaxEvents /\ events' = events + 1
    BY <1>1, <1>2, <1>7 DEF Probes!SendFails, Probes!Told, Probes!Event, CheckRight
  <2> QED
    BY <1>5, <1>7, <2>1 DEF Probes!SendFails
<1>8. CASE Probes!Take(j)
  <2>1. CheckRight' /\ form' = form /\ events' = events
    BY <1>1, <1>2, <1>8 DEF Probes!Take, Probes!pages, Probes!bound, CheckRight
  <2> QED
    BY <1>4, <1>8, <2>1 DEF Probes!Take
<1>9. CASE Probes!ProbeTimesOut(j)
  <2>1. CheckRight' /\ form' = form /\ events' = events
    BY <1>1, <1>2, <1>9 DEF Probes!ProbeTimesOut, Probes!pages, Probes!bound, CheckRight
  <2> QED
    BY <1>1, <1>5, <1>9, <2>1 DEF Probes!ProbeTimesOut
<1>10. CASE Probes!ReadToken(j)
  <2>1. CheckRight' /\ form' = form /\ events' = events
    BY <1>1, <1>2, <1>10 DEF Probes!ReadToken, Probes!pages, Probes!bound, CheckRight
  <2> QED
    BY <1>1, <1>4, <1>5, <1>10, <2>1 DEF Probes!ReadToken, Probes!Refused
<1>11. CASE Probes!Exchange(j)
  <2>1. CheckRight' /\ form' = form /\ events' = events
    BY <1>1, <1>2, <1>11 DEF Probes!Exchange, Probes!pages, Probes!bound, CheckRight
  <2>2. job[j].thing \in Secrets /\ job[j].pc # "none"
    BY <1>1, <1>11 DEF Probes!Exchange, TestRight
  <2> QED
    BY <1>1, <1>5, <1>11, <2>1, <2>2 DEF Probes!Exchange
<1>12. CASE Probes!ReadEndpoint(j)
  <2>1. form' = form /\ events' = events /\ job[j].pc # "none" /\ now' = now
    BY <1>12 DEF Probes!ReadEndpoint, Probes!pages, Probes!bound
  <2>2. CASE Probes!Refused(j) /\ UNCHANGED check
    <3>1. CheckRight'
      BY <1>1, <1>2, <2>1, <2>2 DEF CheckRight
    <3> QED
      BY <1>1, <1>5, <2>1, <2>2, <3>1 DEF Probes!Refused
  <2>3. CASE job' = [job EXCEPT ![j].pc = "wait"]
             /\ check' = IF check.stage = "none" THEN Probes!Starting({job[j].thing}, "probe")
                         ELSE check
    <3>1. job[j].thing \in Endpoints
      BY <1>12 DEF Probes!ReadEndpoint
    <3>2. CheckRight'
      BY <1>1, <1>2, <2>1, <2>3, <3>1, StartRight DEF CheckRight
    <3> QED
      BY <1>4, <2>1, <2>3, <3>2
  <2> QED
    BY <1>12, <2>2, <2>3 DEF Probes!ReadEndpoint
<1> QED
  BY <1>6, <1>7, <1>8, <1>9, <1>10, <1>11, <1>12

\* What the tests and the overview make of a report.
LEMMA HeardRight ==
  ASSUME ProbesInv, NEW ok \in SUBSET Endpoints, NEW at \in 0..now, Since(ok, at, worked),
         Probes!Heard(ok, at), UNCHANGED worked
  PROVE  TestsRight' /\ Ordered' = Ordered /\ OverviewRight' /\ ReportRight'
<1> USE ProbeConstants
<1>1. TestsRight /\ OverviewRight /\ now \in 0..MaxTime
  BY DEF ProbesInv
<1>6. at \in Probes!Dates /\ at # Probes!Never
  BY <1>1 DEF Probes!Dates, Probes!Never
<1>2. ASSUME NEW j \in Probes!Jobs
      PROVE  /\ job'[j] \in Test /\ TestRight(job'[j], worked)
             /\ job'[j].pc # "none" <=> job[j].pc # "none"
  <2> DEFINE result == IF Probes!SaysOk(ok, job[j].thing) THEN "ok" ELSE "bad"
             q == [job[j] EXCEPT !.pc = "done", !.at = at, !.result = result]
  <2>1. job[j] \in Test /\ TestRight(job[j], worked)
    BY <1>1 DEF TestsRight
  <2>2. job'[j] = IF job[j].pc # "wait" THEN job[j] ELSE q
    BY Zenon DEF Probes!Heard
  <2>3. result \in {"ok", "bad"} /\ (result = "ok" => job[j].thing \in ok)
    BY DEF Probes!SaysOk
  <2> HIDE DEF result
  <2>4. q \in Test /\ q.pc = "done" /\ q.result = result /\ q.at = at /\ q.thing = job[j].thing
    BY <1>6, <2>1, <2>3 DEF Test
  <2> HIDE DEF q
  <2>5. TestRight(q, worked)
    BY <2>3, <2>4 DEF TestRight, Since
  <2>6. CASE job[j].pc # "wait"
    BY <2>1, <2>2, <2>6
  <2>7. CASE job[j].pc = "wait"
    BY <2>2, <2>4, <2>5, <2>7
  <2> QED
    BY <2>6, <2>7
<1>3. TestsRight' /\ Ordered' = Ordered
  <2>1. job' \in [Probes!Jobs -> Test]
    <3>1. DOMAIN job' = Probes!Jobs /\ job' = [j \in Probes!Jobs |-> job'[j]]
      BY Zenon DEF Probes!Heard
    <3> QED
      BY <1>2, <3>1
  <2> QED
    BY <1>2, <2>1 DEF TestsRight, Ordered
<1>4. OverviewRight'
  <2>1. CASE overview.pc # "refresh"
    <3>1. overview' = overview
      BY Zenon, <2>1 DEF Probes!Heard
    <3> QED
      BY <1>1, <3>1 DEF OverviewRight
  <2>2. CASE overview.pc = "refresh"
    <3> DEFINE stale == overview.at - at > Cutoff
    <3>1. overview' = [overview EXCEPT !.pc = "ready", !.dated = at, !.shown = ok, !.stale = stale]
      BY Zenon, <2>2 DEF Probes!Heard
    <3>2. stale \in BOOLEAN /\ (~stale => overview.at - at <= Cutoff)
      BY <1>1 DEF OverviewRight
    <3> HIDE DEF stale
    <3>3. overview'.dated = at /\ overview'.at = overview.at /\ (overview'.stale <=> stale)
          /\ overview'.shown = ok
      BY <1>1, <3>1, <3>2 DEF OverviewRight
    <3>4. overview' \in [pc: {"closed", "rows", "refresh", "ready"}, at: Nat,
                         dated: Probes!Dates, shown: SUBSET Endpoints, stale: BOOLEAN]
      BY <1>1, <1>6, <3>1, <3>2 DEF OverviewRight
    <3> QED
      BY <1>6, <3>2, <3>3, <3>4 DEF OverviewRight
  <2> QED
    BY <2>1, <2>2
<1>5. ReportRight'
  <2>1. report' = [at |-> at, ok |-> ok]
    BY Zenon DEF Probes!Heard
  <2> QED
    BY <1>6, <2>1 DEF ReportRight
<1> QED
  BY <1>3, <1>4, <1>5

LEMMA CheckSteps ==
  ASSUME ProbesInv,
         \/ Probes!Tick \/ Probes!Load \/ Probes!Finish \/ Probes!LoadFails
         \/ \E e \in Endpoints : Probes!Sampled(e)
  PROVE  ProbesInv'
<1> USE ProbeConstants
<1>1. TestsRight /\ CheckRight /\ OverviewRight /\ FormRight /\ now \in 0..MaxTime /\ now \in Nat
      /\ events \in 0..MaxEvents /\ WorldRight
  BY DEF ProbesInv
<1>9. UNCHANGED <<row, form, up, worked, now>> /\ WorldRight'
  <2>1. UNCHANGED <<row, form, up, worked, now>>
    BY Zenon DEF Probes!Tick, Probes!Load, Probes!Finish, Probes!LoadFails, Probes!Sampled,
           Probes!world, Probes!pages, Probes!bound
  <2> QED
    BY <1>1, <2>1 DEF WorldRight
<1>2. ASSUME UNCHANGED <<report, job, overview, events>>, CheckRight'
      PROVE  ProbesInv'
  BY <1>2, <1>9 DEF ProbesInv, TestsRight, ReportRight, OverviewRight, FormRight, Numbered, Ordered
<1>3. CASE Probes!Tick
  <2>1. check' = Probes!Starting({}, "load")
    BY <1>3 DEF Probes!Tick, Probes!JoinOrLoad
  <2>2. CheckRight'
    BY <1>1, <1>9, <2>1, StartRight DEF CheckRight
  <2> QED
    BY <1>2, <1>3, <2>2 DEF Probes!Tick, Probes!pages, Probes!bound
<1>4. CASE Probes!Load
  <2>1. check' = Probes!Starting({e \in Endpoints : row[e] = "on"}, "probe")
    BY <1>4 DEF Probes!Load
  <2>2. CheckRight'
    BY <1>1, <1>9, <2>1, StartRight DEF CheckRight
  <2> QED
    BY <1>2, <1>4, <2>2 DEF Probes!Load, Probes!pages, Probes!bound
<1>5. ASSUME NEW e \in Endpoints, Probes!Sampled(e) PROVE ProbesInv'
  <2> DEFINE todo == check.todo \ {e}
             yes  == check.answered \union ({e} \intersect up)
  <2>1. check' = [check EXCEPT !.todo = todo, !.answered = yes]
    BY Zenon, <1>5 DEF Probes!Sampled
  <2>2. e \in check.members
    BY Zenon, <1>1, <1>5 DEF CheckRight, Probes!Sampled
  <2>3. todo \in SUBSET Endpoints /\ yes \in SUBSET Endpoints
        /\ todo \subseteq check.members /\ yes \subseteq check.members
    BY <1>1, <2>2 DEF CheckRight
  <2>4. Since(yes, check.at, worked)
    <3>1. \A f \in check.answered : worked[f] >= check.at
      BY <1>1 DEF CheckRight, Since
    <3>2. e \in up => worked[e] >= check.at
      BY <1>1 DEF WorldRight, CheckRight
    <3> QED
      BY <3>1, <3>2 DEF Since
  <2> HIDE DEF todo, yes
  <2>5. CheckRight'
    BY <1>1, <1>9, <2>1, <2>3, <2>4 DEF CheckRight
  <2> QED
    BY Zenon, <1>2, <1>5, <2>5 DEF Probes!Sampled, Probes!pages, Probes!bound
<1>6. check' = Probes!NoCheck => CheckRight'
  BY <1>1, <1>9 DEF CheckRight, Probes!NoCheck, Since
<1>7. CASE Probes!Finish
  <2>1. check.answered \in SUBSET Endpoints /\ check.at \in 0..now
        /\ Probes!Heard(check.answered, check.at) /\ Since(check.answered, check.at, worked)
    BY <1>1, <1>7 DEF CheckRight, Probes!Finish
  <2>2. TestsRight' /\ Ordered' = Ordered /\ OverviewRight' /\ ReportRight'
    BY <1>9, <2>1, HeardRight
  <2>3. UNCHANGED events /\ check' = Probes!NoCheck
    BY Zenon, <1>7 DEF Probes!Finish, Probes!bound, Probes!Heard
  <2>4. FormRight' /\ Numbered'
    BY <1>1, <1>9, <2>2, <2>3, NumbersLeft DEF FormRight
  <2> QED
    BY <1>6, <1>9, <2>2, <2>3, <2>4 DEF ProbesInv
<1>8. CASE Probes!LoadFails
  <2>1. Probes!Heard({}, now) /\ {} \in SUBSET Endpoints /\ Since({}, now, worked)
        /\ now \in 0..now
    BY <1>1, <1>8 DEF Probes!LoadFails, Since
  <2>2. TestsRight' /\ Ordered' = Ordered /\ OverviewRight' /\ ReportRight'
    BY <1>9, <2>1, HeardRight
  <2>3. check' = Probes!NoCheck /\ events' = events + 1 /\ events < MaxEvents
    BY Zenon, <1>8 DEF Probes!LoadFails, Probes!Event, Probes!Heard
  <2>4. FormRight' /\ Numbered' /\ events' \in 0..MaxEvents
    BY <1>1, <1>9, <2>2, <2>3, NumbersLeft DEF FormRight
  <2> QED
    BY <1>6, <1>9, <2>2, <2>3, <2>4 DEF ProbesInv
<1> QED
  BY <1>3, <1>4, <1>5, <1>7, <1>8

LEMMA OverviewSteps ==
  ASSUME ProbesInv, Probes!OpenOverview \/ Probes!ReadReport \/ Probes!RefreshTimesOut
  PROVE  ProbesInv'
<1> USE ProbeConstants
<1>1. CheckRight /\ OverviewRight /\ now \in 0..MaxTime /\ now \in Nat /\ ReportRight
  BY DEF ProbesInv
<1>2. UNCHANGED <<row, report, job, form, up, worked, now, events>>
  BY DEF Probes!OpenOverview, Probes!ReadReport, Probes!RefreshTimesOut, Probes!world, Probes!bound
<1>3. ASSUME CheckRight', OverviewRight' PROVE ProbesInv'
  BY <1>2, <1>3 DEF ProbesInv, WorldRight, TestsRight, ReportRight, FormRight, Numbered, Ordered
<1>4. CheckRight'
  <2>1. check' = check \/ check' = Probes!Starting({}, "load")
    BY DEF Probes!OpenOverview, Probes!ReadReport, Probes!RefreshTimesOut, Probes!JoinOrLoad
  <2> QED
    BY <1>1, <1>2, <2>1, StartRight DEF CheckRight
<1> DEFINE Views == [pc: {"closed", "rows", "refresh", "ready"}, at: Nat, dated: Probes!Dates,
                     shown: SUBSET Endpoints, stale: BOOLEAN]
<1>5. CASE Probes!OpenOverview
  <2>1. OverviewRight'
    BY <1>5 DEF Probes!OpenOverview, Probes!Unread, Probes!Dates, Probes!Never, OverviewRight, Since
  <2> QED
    BY <1>3, <1>4, <2>1
<1>6. CASE Probes!ReadReport
  <2>1. PICK pc \in {"ready", "refresh"} :
          /\ overview' = [Probes!ReportShown EXCEPT !.pc = pc]
          /\ pc = "ready" => report.at # Probes!Never /\ now - report.at <= Cutoff
    BY <1>6 DEF Probes!ReadReport
  <2>2. overview' = [pc |-> pc, at |-> now, dated |-> report.at, shown |-> report.ok,
                     stale |-> FALSE]
    BY <2>1 DEF Probes!ReportShown, Probes!Unread
  <2>3. /\ report.at \in Probes!Dates /\ report.ok \in SUBSET Endpoints
        /\ report.at = Probes!Never => report.ok = {}
        /\ Since(report.ok, report.at, worked')
    BY <1>1, <1>2 DEF ReportRight
  <2>4. overview' \in Views
    BY <1>1, <2>2, <2>3
  <2>5. OverviewRight'
    BY <2>1, <2>2, <2>3, <2>4 DEF OverviewRight
  <2> QED
    BY <1>3, <1>4, <2>5
<1>7. CASE Probes!RefreshTimesOut
  <2> DEFINE stale == overview.dated # Probes!Never /\ overview.at - overview.dated > Cutoff
  <2>1. overview' = [overview EXCEPT !.pc = "ready", !.stale = stale]
    BY <1>7 DEF Probes!RefreshTimesOut
  <2>2. stale \in BOOLEAN
        /\ (overview.dated # Probes!Never /\ ~stale => overview.at - overview.dated <= Cutoff)
    BY <1>1 DEF OverviewRight, Probes!Dates, Probes!Never
  <2> HIDE DEF stale
  <2>3. overview' \in Views /\ overview'.dated = overview.dated /\ overview'.at = overview.at
        /\ overview'.shown = overview.shown /\ (overview'.stale <=> stale)
    BY <1>1, <2>1, <2>2 DEF OverviewRight
  <2>4. OverviewRight'
    BY <1>1, <1>2, <2>2, <2>3 DEF OverviewRight
  <2> QED
    BY <1>3, <1>4, <2>4
<1> QED
  BY <1>5, <1>6, <1>7

\* What has worked since a date has, whatever happens next.
LEMMA LaterStill ==
  ASSUME ProbesInv, UNCHANGED <<check, report, job, overview>>, now' \in Nat, now' >= now,
         worked' \in [Endpoints -> Probes!Dates], \A e \in Endpoints : worked'[e] >= worked[e]
  PROVE  TestsRight' /\ Ordered' = Ordered /\ CheckRight' /\ ReportRight' /\ OverviewRight'
<1> USE ProbeConstants
<1>1. TestsRight /\ CheckRight /\ ReportRight /\ OverviewRight /\ WorldRight /\ now \in Nat
  BY DEF ProbesInv
<1>2. \A e \in Endpoints : worked[e] \in Int /\ worked'[e] \in Int
  BY <1>1 DEF WorldRight, Probes!Dates, Probes!Never
<1>3. ASSUME NEW S \in SUBSET Endpoints, NEW date \in Int, Since(S, date, worked)
      PROVE  Since(S, date, worked')
  BY <1>2, <1>3 DEF Since
<1>4. ASSUME NEW j \in Probes!Jobs PROVE TestRight(job[j], worked')
  <2>1. TestRight(job[j], worked) /\ job[j].at \in Int
    BY <1>1 DEF TestsRight, TestRight, Test, Probes!Dates, Probes!Never
  <2> QED
    BY <1>2, <2>1 DEF TestRight
<1>5. TestsRight' /\ Ordered' = Ordered
  BY <1>1, <1>4 DEF TestsRight, Ordered
<1>6. CheckRight'
  BY <1>1, <1>3 DEF CheckRight
<1>7. Probes!Dates \subseteq Int
  BY DEF Probes!Dates, Probes!Never
<1>8. ReportRight'
  BY <1>1, <1>3, <1>7 DEF ReportRight
<1>9. OverviewRight'
  BY <1>1, <1>3, <1>7 DEF OverviewRight
<1> QED
  BY <1>5, <1>6, <1>8, <1>9

LEMMA NextProbesInv == ProbesInv /\ Probes!Next => ProbesInv'
<1> SUFFICES ASSUME ProbesInv, Probes!Next PROVE ProbesInv'
  OBVIOUS
<1> USE ProbeConstants
<1>1. FormRight /\ WorldRight /\ now \in 0..MaxTime /\ events \in 0..MaxEvents
      /\ \A e \in Endpoints : worked[e] \in Probes!Dates /\ worked[e] \in Int
  BY DEF ProbesInv, WorldRight, Probes!Dates, Probes!Never
<1>2. ASSUME NEW t \in Probes!Things, Probes!Edit(t) PROVE ProbesInv'
  <2>1. PICK to \in {"none", "off", "on"} \ {row[t]} : row' = [row EXCEPT ![t] = to]
    BY <1>2 DEF Probes!Edit
  <2>2. row' \in [Probes!Things -> {"none", "off", "on"}]
    BY <2>1 DEF ProbesInv
  <2>3. UNCHANGED <<check, report, job, form, overview, up, worked, now>>
        /\ events' = events + 1 /\ events < MaxEvents
    BY <1>2 DEF Probes!Edit, Probes!Event, Probes!pages, Probes!world
  <2>4. TestsRight' /\ Ordered' = Ordered /\ CheckRight' /\ ReportRight' /\ OverviewRight'
    BY <1>1, <2>3, LaterStill DEF WorldRight
  <2>6. FormRight' /\ WorldRight'
    BY <1>1, <2>3 DEF FormRight, WorldRight
  <2>5. Numbered' /\ events' \in 0..MaxEvents
    BY <1>1, <2>3, <2>4, NumbersLeft
  <2> QED
    BY <1>1, <2>2, <2>3, <2>4, <2>5, <2>6 DEF ProbesInv
<1>9. ASSUME NEW e \in Endpoints, Probes!Changes(e) PROVE ProbesInv'
  <2>1. UNCHANGED <<row, check, report, job, form, overview, now>>
        /\ events' = events + 1 /\ events < MaxEvents
    BY <1>9 DEF Probes!Changes, Probes!Event, Probes!pages
  <2>2. WorldRight' /\ \A f \in Endpoints : worked'[f] >= worked[f]
    <3>1. CASE up' = up \ {e} /\ UNCHANGED worked
      BY <1>1, <2>1, <3>1 DEF WorldRight
    <3>2. CASE up' = up \union {e} /\ worked' = [worked EXCEPT ![e] = now]
      <4>1. now \in Probes!Dates
        BY <1>1 DEF Probes!Dates
      <4>2. worked' \in [Endpoints -> Probes!Dates] /\ worked'[e] = now
            /\ \A f \in Endpoints : f # e => worked'[f] = worked[f]
        BY <1>1, <3>2, <4>1 DEF WorldRight
      <4>3. up' \in SUBSET Endpoints /\ \A f \in up' : worked'[f] = now
        BY <1>1, <3>2, <4>2 DEF WorldRight
      <4> QED
        BY <1>1, <2>1, <4>2, <4>3 DEF WorldRight
    <3> QED
      BY <1>9, <3>1, <3>2 DEF Probes!Changes
  <2>3. TestsRight' /\ Ordered' = Ordered /\ CheckRight' /\ ReportRight' /\ OverviewRight'
    BY <1>1, <2>1, <2>2, LaterStill DEF WorldRight
  <2>4. FormRight' /\ Numbered' /\ events' \in 0..MaxEvents
    BY <1>1, <2>1, <2>3, NumbersLeft DEF FormRight
  <2> QED
    BY <1>1, <2>1, <2>2, <2>3, <2>4 DEF ProbesInv
<1>3. CASE Probes!Time
  <2>1. UNCHANGED <<row, check, report, job, form, overview, up, events>>
        /\ now' = now + 1 /\ now < MaxTime
        /\ worked' = [e \in Endpoints |-> IF e \in up THEN now + 1 ELSE worked[e]]
    BY <1>3 DEF Probes!Time, Probes!pages
  <2>2. now' \in 0..MaxTime /\ now' \in Probes!Dates
    BY <1>1, <2>1 DEF Probes!Dates
  <2>3. WorldRight' /\ \A e \in Endpoints : worked'[e] >= worked[e]
    <3>1. worked' \in [Endpoints -> Probes!Dates]
      BY <1>1, <2>1, <2>2
    <3>2. \A e \in Endpoints : worked'[e] = (IF e \in up THEN now' ELSE worked[e])
      BY <2>1
    <3> QED
      BY <1>1, <2>1, <2>2, <3>1, <3>2 DEF WorldRight
  <2>4. TestsRight' /\ Ordered' = Ordered /\ CheckRight' /\ ReportRight' /\ OverviewRight'
    BY <1>1, <2>1, <2>2, <2>3, LaterStill DEF WorldRight
  <2>5. FormRight' /\ Numbered'
    BY <1>1, <2>1, <2>4, NumbersLeft DEF FormRight
  <2> QED
    BY <2>1, <2>2, <2>3, <2>4, <2>5 DEF ProbesInv
<1>4. ASSUME NEW t \in Probes!Things, Probes!Order(t) PROVE ProbesInv'
  BY <1>4, OrdersKeep
<1>5. ASSUME NEW j \in Probes!Jobs,
             \/ Probes!SendEnds(j) \/ Probes!SendFails(j) \/ Probes!Take(j)
             \/ Probes!ReadEndpoint(j) \/ Probes!ProbeTimesOut(j) \/ Probes!ReadToken(j)
             \/ Probes!Exchange(j)
      PROVE  ProbesInv'
  BY <1>5, TestSteps
<1>6. CASE \/ Probes!ReadRow \/ Probes!ReadRowFails \/ Probes!SendTimesOut
  BY <1>6, OrdersKeep
<1>7. CASE \/ Probes!Tick \/ Probes!Load \/ Probes!Finish \/ Probes!LoadFails
           \/ \E e \in Endpoints : Probes!Sampled(e)
  BY <1>7, CheckSteps
<1>8. CASE \/ Probes!OpenOverview \/ Probes!ReadReport \/ Probes!RefreshTimesOut
  BY <1>8, OverviewSteps
<1> QED
  BY <1>2, <1>3, <1>4, <1>5, <1>6, <1>7, <1>8, <1>9 DEF Probes!Next

LEMMA SameProbesInv == ProbesInv /\ UNCHANGED <<probes, job, now>> => ProbesInv'
BY DEF probes, ProbesInv, WorldRight, TestsRight, CheckRight, ReportRight, OverviewRight,
       FormRight, Numbered, Ordered

-----------------------------------------------------------------------------
(***************************************************************************)
(* The jobs.  What WorkAccounted says of a work is pending work, whichever *)
(* single job is left out of account while a retry has sent a copy of it.  *)
(***************************************************************************)
Worked    == Jobs!Bases \union Jobs!Actions
AllQueues == Worked \union {Jobs!Dead(q) : q \in Worked} \union {Jobs!NoQueue}

Entry ==
  [queue: AllQueues, work: Works \union {"none"},
   state: {"none", "created", "active", "completed", "failed", "gone"}]

TableRight ==
  /\ job \in [Jobs!Jobs -> Entry]
  /\ \A j \in Jobs!Used : job[j].work \in Works /\ job[j].queue # Jobs!NoQueue

\* A running job that an operator has deleted was counted as removed.
RunningRight ==
  /\ running \subseteq Jobs!Jobs
  /\ \A j \in running :
       /\ job[j].state \in {"active", "gone"} /\ job[j].queue \in Jobs!Bases
       /\ job[j].state = "gone" => job[j].work \in removed

\* Work is done, removed, or there is a job for it other than i.
Pending(w, i) ==
  \/ w \in done \union removed
  \/ \E j \in Jobs!Jobs \ {i} : job[j].work = w /\ job[j].state \in {"created", "active"}

JobsPageRight ==
  /\ jobsPage \in [pc: {"load", "ready", "cancel", "retry", "send"},
                   shown: SUBSET (Jobs!Used \union {Jobs!Failed}),
                   id: Jobs!Jobs \union {Jobs!Failed},
                   queue: Jobs!Queues \union {Jobs!NoQueue}]
  /\ jobsPage.pc = "send" => jobsPage.id \in Jobs!Used /\ jobsPage.queue \in Jobs!Actions

DlqPageRight ==
  /\ dlqPage \in [pc: {"queues", "jobs", "ready", "list", "delete", "retry", "send", "remove"},
                  selected: Jobs!DlqQueues \union {Jobs!NoQueue},
                  shown: SUBSET (Jobs!Used \union {Jobs!Failed}),
                  id: Jobs!Jobs \union {Jobs!Failed},
                  queue: Jobs!DlqQueues \union {Jobs!NoQueue}]
  /\ \A j \in dlqPage.shown \ {Jobs!Failed} : job[j].queue \in Jobs!DlqQueues
  /\ dlqPage.pc \in {"send", "remove"} =>
       /\ dlqPage.id \in Jobs!Used /\ dlqPage.queue \in Jobs!DlqQueues
       /\ dlqPage.queue = job[dlqPage.id].queue
  /\ dlqPage.pc = "remove" =>
       \A w \in Works, i \in Jobs!Jobs : i = dlqPage.id /\ w = job[i].work => Pending(w, i)

JobsInv ==
  /\ TableRight /\ RunningRight /\ JobsPageRight /\ DlqPageRight
  /\ \A w \in Works : Pending(w, Jobs!Failed)
  /\ posts \in 0..MaxPosts /\ faults \in 0..MaxFaults
  /\ done \subseteq Works /\ removed \subseteq Works

LEMMA JobConstants ==
  /\ IsFiniteSet(Works) /\ DOMAIN Home = Works /\ FirstDead \in DeadOnes
  /\ MaxJobs \in Nat /\ Cardinality(Works) <= MaxJobs
  /\ MaxPosts \in Nat /\ MaxFaults \in Nat /\ PageLimit \in Nat
  /\ Jobs!Jobs = 1..MaxJobs /\ Jobs!Failed \notin Jobs!Jobs
<1>1. /\ \A S : Jobs!IsFiniteSet(S) <=> IsFiniteSet(S)
      /\ \A S : Jobs!Cardinality(S) = Cardinality(S)
  BY DEF Jobs!IsFiniteSet, IsFiniteSet, Jobs!Cardinality, Cardinality
<1> QED
  BY <1>1, JobsAssumption DEF Jobs!ConsoleJobsAssumption, Jobs!Jobs, Jobs!Failed

LEMMA QueueFacts ==
  /\ Jobs!Bases \subseteq AllQueues /\ Jobs!Actions \subseteq AllQueues
  /\ Jobs!NoQueue \in AllQueues /\ AllQueues \subseteq Jobs!Queues \union {Jobs!NoQueue}
  /\ Jobs!DlqQueues \intersect Jobs!Bases = {} /\ Jobs!NoQueue \notin Jobs!Bases
  /\ Jobs!NoQueue \notin Jobs!Actions /\ Jobs!NoQueue \notin Jobs!DlqQueues
  /\ \A q \in Jobs!Bases : Jobs!Dead(q) \in AllQueues /\ Jobs!Dead(q) # Jobs!NoQueue
  /\ \A q \in Jobs!DlqQueues \intersect AllQueues :
       Jobs!Base(q) \in AllQueues /\ Jobs!Base(q) # Jobs!NoQueue
  /\ Jobs!Default \in Jobs!DlqQueues
<1> USE DEF Jobs!Live, Jobs!Dead, Jobs!Base, Jobs!NoQueue
<1>1. Jobs!Bases \subseteq AllQueues /\ Jobs!Actions \subseteq AllQueues
      /\ Jobs!NoQueue \in AllQueues /\ AllQueues \subseteq Jobs!Queues \union {Jobs!NoQueue}
  BY DEF AllQueues, Worked, Jobs!Queues
<1>2. Jobs!DlqQueues \intersect Jobs!Bases = {} /\ Jobs!NoQueue \notin Jobs!Bases
      /\ Jobs!NoQueue \notin Jobs!Actions /\ Jobs!NoQueue \notin Jobs!DlqQueues
  BY DEF Jobs!Bases, Jobs!Actions, Jobs!DlqQueues
<1>3. \A q \in Jobs!Bases : Jobs!Dead(q) \in AllQueues /\ Jobs!Dead(q) # Jobs!NoQueue
  BY DEF AllQueues, Worked, Jobs!Bases
<1>4. ASSUME NEW q \in Jobs!DlqQueues \intersect AllQueues
      PROVE  Jobs!Base(q) \in AllQueues /\ Jobs!Base(q) # Jobs!NoQueue
  <2>1. PICK b \in Worked : q = Jobs!Dead(b)
    <3>1. \A b \in Worked \union {Jobs!NoQueue} : b \notin Jobs!DlqQueues
      BY DEF Worked, Jobs!Bases, Jobs!Actions, Jobs!DlqQueues
    <3> QED
      BY <3>1 DEF AllQueues
  <2>2. PICK n : b = Jobs!Live(n)
    BY <2>1 DEF Worked, Jobs!Bases, Jobs!Actions
  <2>3. Jobs!Base(q) = b
    BY <2>1, <2>2
  <2> QED
    BY <2>1, <2>2, <2>3 DEF AllQueues
<1>5. Jobs!Default \in Jobs!DlqQueues
  BY JobConstants DEF Jobs!Default, Jobs!DlqQueues
<1> QED
  BY <1>1, <1>2, <1>3, <1>4, <1>5

LEMMA JobsInvGives == JobsInv => Jobs!TypeOK /\ Jobs!WorkAccounted
<1> SUFFICES ASSUME JobsInv PROVE Jobs!TypeOK /\ Jobs!WorkAccounted
  OBVIOUS
<1>1. Jobs!WorkAccounted
  BY DEF JobsInv, Pending, Jobs!WorkAccounted
<1>2. job \in [Jobs!Jobs -> [queue: Jobs!Queues \union {Jobs!NoQueue},
                             work: Works \union {"none"},
                             state: {"none", "created", "active", "completed", "failed", "gone"}]]
  <2>1. Entry \subseteq [queue: Jobs!Queues \union {Jobs!NoQueue}, work: Works \union {"none"},
                         state: {"none", "created", "active", "completed", "failed", "gone"}]
    BY QueueFacts DEF Entry
  <2> QED
    BY <2>1 DEF JobsInv, TableRight
<1>3. running \subseteq Jobs!Used
  BY DEF JobsInv, RunningRight, Jobs!Used
<1>4. /\ jobsPage.pc \in {"load", "ready", "cancel", "retry", "send"}
      /\ jobsPage.shown \subseteq Jobs!Used \union {Jobs!Failed}
      /\ jobsPage.id \in Jobs!Jobs \union {Jobs!Failed}
      /\ jobsPage.queue \in Jobs!Queues \union {Jobs!NoQueue}
  BY DEF JobsInv, JobsPageRight
<1>5. /\ dlqPage.pc \in {"queues", "jobs", "ready", "list", "delete", "retry", "send", "remove"}
      /\ dlqPage.selected \in Jobs!DlqQueues \union {Jobs!NoQueue}
      /\ dlqPage.shown \subseteq Jobs!Used \union {Jobs!Failed}
      /\ dlqPage.id \in Jobs!Jobs \union {Jobs!Failed}
      /\ dlqPage.queue \in Jobs!Queues \union {Jobs!NoQueue}
  BY DEF JobsInv, DlqPageRight, Jobs!Queues
<1>6. /\ posts \in 0..MaxPosts /\ faults \in 0..MaxFaults
      /\ done \subseteq Works /\ removed \subseteq Works
  BY DEF JobsInv
<1> QED
  BY <1>1, <1>2, <1>3, <1>4, <1>5, <1>6 DEF Jobs!TypeOK

\* A list of as many works as there are has them all.
LEMMA OrderCovers ==
  ASSUME NEW order \in [1..Cardinality(Works) -> Works],
         \A m, n \in DOMAIN order : m # n => order[m] # order[n]
  PROVE  \A w \in Works : \E j \in DOMAIN order : order[j] = w
<1> DEFINE n == Cardinality(Works)
<1>1. IsFiniteSet(Works) /\ n \in Nat
  BY JobConstants, FS_CardinalityType
<1>2. IsFiniteSet(1..n) /\ Cardinality(1..n) = n
  BY <1>1, FS_Interval
<1>3. order \in Injection(1..n, Works)
  BY DEF Injection, IsInjective
<1> HIDE DEF n
<1>4. order \in Surjection(1..n, Works)
  BY <1>1, <1>2, <1>3, FS_Injection DEF n
<1> QED
  BY <1>4 DEF Surjection

LEMMA InitJobsInv == Jobs!Init => JobsInv
<1> SUFFICES ASSUME Jobs!Init PROVE JobsInv
  OBVIOUS
<1> USE JobConstants, QueueFacts
<1> DEFINE n == Cardinality(Works)
<1>1. PICK order \in [1..n -> Works], dead \in SUBSET Works :
        /\ \A k, m \in DOMAIN order : k # m => order[k] # order[m]
        /\ job = [j \in Jobs!Jobs |->
                    IF j \in DOMAIN order
                    THEN [queue |-> IF order[j] \in dead
                                    THEN Jobs!Dead(Jobs!Live(Home[order[j]]))
                                    ELSE Jobs!Live(Home[order[j]]),
                          work |-> order[j], state |-> "created"]
                    ELSE Jobs!NoJob]
  <2>1. Jobs!Cardinality(Works) = n
    BY DEF Jobs!Cardinality, Cardinality
  <2> HIDE DEF n
  <2> DEFINE Orders == {f \in [1..n -> Works] : \A k, m \in DOMAIN f : k # m => f[k] # f[m]}
  <2>2. PICK order \in Orders, dead \in SUBSET Works :
          job = [j \in Jobs!Jobs |->
                    IF j \in DOMAIN order
                    THEN [queue |-> IF order[j] \in dead
                                    THEN Jobs!Dead(Jobs!Live(Home[order[j]]))
                                    ELSE Jobs!Live(Home[order[j]]),
                          work |-> order[j], state |-> "created"]
                    ELSE Jobs!NoJob]
    BY <2>1, Zenon DEF Jobs!Init
  <2> QED
    BY <2>2
<1>2. n \in Nat /\ DOMAIN order \subseteq Jobs!Jobs
  BY FS_CardinalityType
<1>3. \A w \in Works : /\ Jobs!Live(Home[w]) \in Jobs!Bases
                       /\ Jobs!Dead(Jobs!Live(Home[w])) \in AllQueues
                       /\ Jobs!Dead(Jobs!Live(Home[w])) # Jobs!NoQueue
  BY DEF Jobs!Bases
<1>4. ASSUME NEW j \in Jobs!Jobs
      PROVE  /\ job[j] \in Entry
             /\ j \in DOMAIN order => job[j].state = "created" /\ job[j].work = order[j]
             /\ job[j].state # "none" => job[j].work \in Works /\ job[j].queue # Jobs!NoQueue
  <2>1. CASE j \in DOMAIN order
    <3> DEFINE q == IF order[j] \in dead THEN Jobs!Dead(Jobs!Live(Home[order[j]]))
                                         ELSE Jobs!Live(Home[order[j]])
    <3>1. order[j] \in Works
      BY <2>1
    <3>2. q \in AllQueues /\ q # Jobs!NoQueue
      BY <1>3, <3>1
    <3>3. job[j] = [queue |-> q, work |-> order[j], state |-> "created"]
      BY <1>1, <2>1
    <3> HIDE DEF q
    <3> QED
      BY <3>1, <3>2, <3>3 DEF Entry
  <2>2. CASE j \notin DOMAIN order
    BY <1>1, <2>2 DEF Jobs!NoJob, Entry
  <2> QED
    BY <2>1, <2>2
<1>5. TableRight
  <2>1. DOMAIN job = Jobs!Jobs /\ job = [j \in Jobs!Jobs |-> job[j]]
    BY <1>1
  <2>2. job \in [Jobs!Jobs -> Entry]
    BY <1>4, <2>1
  <2> QED
    BY <1>4, <2>2 DEF TableRight, Jobs!Used
<1>6. ASSUME NEW w \in Works PROVE Pending(w, Jobs!Failed)
  <2>1. PICK j \in DOMAIN order : order[j] = w
    <3>1. \A v \in Works : \E j \in DOMAIN order : order[j] = v
      BY <1>1, OrderCovers
    <3> QED
      BY <3>1
  <2>2. j \in Jobs!Jobs
    BY <1>2, <2>1
  <2>3. j # Jobs!Failed /\ job[j].work = w /\ job[j].state = "created"
    BY <1>4, <2>1, <2>2
  <2> QED
    BY <2>2, <2>3 DEF Pending
<1>7. RunningRight
  BY DEF Jobs!Init, RunningRight
<1>8. JobsPageRight /\ DlqPageRight
  <2>1. JobsPageRight
    BY DEF Jobs!Init, JobsPageRight
  <2>2. DlqPageRight
    BY DEF Jobs!Init, DlqPageRight
  <2> QED
    BY <2>1, <2>2
<1>9. posts \in 0..MaxPosts /\ faults \in 0..MaxFaults /\ done \subseteq Works /\ removed \subseteq Works
  BY DEF Jobs!Init
<1> QED
  BY <1>5, <1>6, <1>7, <1>8, <1>9 DEF JobsInv

\* How the table may change without harm: rows that are used stay what they are but
\* for their state, and what was pending stays pending, whatever job is left out.
Grows ==
  /\ TableRight' /\ RunningRight'
  /\ \A j \in Jobs!Used : /\ j \in Jobs!Used'
                          /\ job'[j].queue = job[j].queue /\ job'[j].work = job[j].work
  /\ \A w \in Works, i \in Jobs!Used \union {Jobs!Failed} : Pending(w, i) => Pending(w, i)'
  /\ done' \subseteq Works /\ removed' \subseteq Works

LEMMA GrowsKeepsPages ==
  ASSUME JobsInv, Grows
  PROVE  /\ jobsPage' = jobsPage => JobsPageRight'
         /\ dlqPage' = dlqPage => DlqPageRight'
         /\ \A w \in Works : Pending(w, Jobs!Failed)'
<1>1. JobsPageRight /\ DlqPageRight /\ TableRight
  BY DEF JobsInv
<1>2. ASSUME jobsPage' = jobsPage PROVE JobsPageRight'
  BY <1>1, <1>2 DEF JobsPageRight, Grows
<1>3. ASSUME dlqPage' = dlqPage PROVE DlqPageRight'
  <2>1. \A j \in dlqPage.shown \ {Jobs!Failed} : j \in Jobs!Used
    BY <1>1 DEF DlqPageRight
  <2>2. ASSUME NEW w \in Works, NEW i \in Jobs!Jobs, dlqPage.pc = "remove", i = dlqPage.id,
               w = job'[i].work
        PROVE  Pending(w, i)'
    <3>1. i \in Jobs!Used
      BY <1>1, <2>2 DEF DlqPageRight
    <3>2. w = job[i].work
      BY <2>2, <3>1 DEF Grows
    <3>3. Pending(w, i)
      BY <1>1, <2>2, <3>2 DEF DlqPageRight
    <3> QED
      BY <3>1, <3>3 DEF Grows
  <2>3. dlqPage \in [pc: {"queues", "jobs", "ready", "list", "delete", "retry", "send", "remove"},
                     selected: Jobs!DlqQueues \union {Jobs!NoQueue},
                     shown: SUBSET (Jobs!Used' \union {Jobs!Failed}),
                     id: Jobs!Jobs \union {Jobs!Failed},
                     queue: Jobs!DlqQueues \union {Jobs!NoQueue}]
    <3>1. Jobs!Used \subseteq Jobs!Used'
      BY DEF Grows
    <3> QED
      BY <1>1, <3>1 DEF DlqPageRight
  <2>4. \A j \in dlqPage.shown \ {Jobs!Failed} : job'[j].queue \in Jobs!DlqQueues
    BY <1>1, <2>1 DEF DlqPageRight, Grows
  <2>5. dlqPage.pc \in {"send", "remove"} =>
          /\ dlqPage.id \in Jobs!Used' /\ dlqPage.queue \in Jobs!DlqQueues
          /\ dlqPage.queue = job'[dlqPage.id].queue
    BY <1>1 DEF DlqPageRight, Grows
  <2> QED
    BY <1>3, <2>2, <2>3, <2>4, <2>5 DEF DlqPageRight
<1>4. \A w \in Works : Pending(w, Jobs!Failed)'
  BY DEF JobsInv, Grows
<1> QED
  BY <1>2, <1>3, <1>4

LEMMA SameTableGrows ==
  ASSUME JobsInv, UNCHANGED <<job, running, done, removed>>
  PROVE  Grows
BY DEF JobsInv, Grows, TableRight, RunningRight, Pending, Jobs!Used

LEMMA EntryFields ==
  ASSUME TableRight, NEW j \in Jobs!Jobs
  PROVE  /\ job[j] \in Entry /\ job[j].queue \in AllQueues /\ job[j].work \in Works \union {"none"}
         /\ job[j].state \in {"none", "created", "active", "completed", "failed", "gone"}
BY DEF TableRight, Entry

\* A row changes its state only.
LEMMA OneState ==
  ASSUME TableRight, NEW j \in Jobs!Used,
         NEW s \in {"created", "active", "completed", "failed", "gone"}
  PROVE  LET t == [job EXCEPT ![j].state = s] IN
           /\ t \in [Jobs!Jobs -> Entry]
           /\ \A i \in Jobs!Jobs : /\ t[i].queue = job[i].queue /\ t[i].work = job[i].work
                                   /\ t[i].state = IF i = j THEN s ELSE job[i].state
<1>1. j \in Jobs!Jobs /\ job[j] \in Entry /\ job \in [Jobs!Jobs -> Entry]
  BY DEF TableRight, Jobs!Used
<1> QED
  BY <1>1 DEF Entry

\* A row is made where there was none.
LEMMA OneRowMore ==
  ASSUME TableRight, NEW table \in [Jobs!Jobs -> Entry], Jobs!Free # {},
         NEW q \in AllQueues, NEW w \in Works
  PROVE  \E k \in Jobs!Jobs :
           /\ k \notin Jobs!Used /\ Jobs!Sent(table, q, w) \in [Jobs!Jobs -> Entry]
           /\ Jobs!Sent(table, q, w)[k] = [queue |-> q, work |-> w, state |-> "created"]
           /\ \A i \in Jobs!Jobs \ {k} : Jobs!Sent(table, q, w)[i] = table[i]
<1> DEFINE k == Jobs!Min(Jobs!Free)
           r == [queue |-> q, work |-> w, state |-> "created"]
<1>1. k \in Jobs!Free
  <2>1. Jobs!Free \in SUBSET Nat
    BY JobConstants DEF Jobs!Free
  <2> QED
    BY <2>1, LeastNatural DEF Jobs!Min
<1>2. k \in Jobs!Jobs /\ k \notin Jobs!Used
  BY <1>1 DEF Jobs!Free
<1>3. r \in Entry
  BY DEF Entry
<1>4. Jobs!Sent(table, q, w) = [table EXCEPT ![k] = r]
  BY DEF Jobs!Sent
<1> HIDE DEF k, r
<1>5. /\ Jobs!Sent(table, q, w) \in [Jobs!Jobs -> Entry] /\ Jobs!Sent(table, q, w)[k] = r
      /\ \A i \in Jobs!Jobs \ {k} : Jobs!Sent(table, q, w)[i] = table[i]
  BY <1>2, <1>3, <1>4
<1> QED
  BY <1>2, <1>5 DEF r

\* A job that is sent to a queue, when nothing else changes.
LEMMA SendGrows ==
  ASSUME JobsInv, Jobs!Free # {}, NEW q \in AllQueues, NEW w \in Works, q # Jobs!NoQueue,
         job' = Jobs!Sent(job, q, w), UNCHANGED <<running, done, removed>>
  PROVE  Grows /\ \A i \in Jobs!Used : Pending(w, i)'
<1>1. TableRight /\ RunningRight /\ job \in [Jobs!Jobs -> Entry]
  BY DEF JobsInv, TableRight
<1>2. PICK k \in Jobs!Jobs :
        /\ k \notin Jobs!Used /\ job' \in [Jobs!Jobs -> Entry]
        /\ job'[k] = [queue |-> q, work |-> w, state |-> "created"]
        /\ \A i \in Jobs!Jobs \ {k} : job'[i] = job[i]
  BY <1>1, OneRowMore
<1>3. \A i \in Jobs!Used : i # k /\ i \in Jobs!Jobs
  BY <1>2 DEF Jobs!Used
<1>4. TableRight'
  BY <1>1, <1>2 DEF TableRight, Jobs!Used
<1>5. RunningRight'
  <2>1. \A i \in running : i \in Jobs!Used
    BY <1>1 DEF RunningRight, Jobs!Used
  <2> QED
    BY <1>1, <1>2, <1>3, <2>1 DEF RunningRight
<1>6. \A i \in Jobs!Used : i \in Jobs!Used' /\ job'[i].queue = job[i].queue /\ job'[i].work = job[i].work
  BY <1>2, <1>3 DEF Jobs!Used
<1>7. ASSUME NEW v \in Works, NEW i \in Jobs!Used \union {Jobs!Failed}, Pending(v, i)
      PROVE  Pending(v, i)'
  <2>1. CASE v \in done \union removed
    BY <2>1 DEF Pending
  <2>2. ASSUME NEW j \in Jobs!Jobs \ {i}, job[j].work = v, job[j].state \in {"created", "active"}
        PROVE  Pending(v, i)'
    <3>1. job'[j] = job[j]
      BY <1>2, <2>2 DEF Jobs!Used
    <3> QED
      BY <2>2, <3>1 DEF Pending
  <2> QED
    BY <1>7, <2>1, <2>2 DEF Pending
<1>8. \A i \in Jobs!Used : Pending(w, i)'
  BY <1>2, <1>3 DEF Pending
<1> QED
  BY <1>4, <1>5, <1>6, <1>7, <1>8 DEF JobsInv, Grows

\* A worker takes a job, finishes it, or gives it up for good.
LEMMA WorkersGrow ==
  ASSUME JobsInv, NEW j \in Jobs!Jobs,
         Jobs!Fetch(j) \/ Jobs!Complete(j) \/ Jobs!FailForGood(j)
  PROVE  Grows
<1>1. TableRight /\ RunningRight /\ job \in [Jobs!Jobs -> Entry] /\ job[j] \in Entry
      /\ done \subseteq Works /\ removed \subseteq Works
  BY DEF JobsInv, TableRight
<1>2. j \in running => j \in Jobs!Used /\ job[j].work \in Works
  BY <1>1 DEF RunningRight, TableRight, Jobs!Used
<1>3. CASE Jobs!Fetch(j)
  <2> DEFINE t == [job EXCEPT ![j].state = "active"]
  <2>1. j \in Jobs!Used /\ job[j].state = "created" /\ job[j].queue \in Jobs!Bases
        /\ job' = t /\ running' = running \union {j} /\ UNCHANGED <<done, removed>>
    BY <1>3 DEF Jobs!Fetch, Jobs!Used, Jobs!seen
  <2>2. /\ t \in [Jobs!Jobs -> Entry]
        /\ \A i \in Jobs!Jobs : /\ t[i].queue = job[i].queue /\ t[i].work = job[i].work
                                /\ t[i].state = IF i = j THEN "active" ELSE job[i].state
    BY <1>1, <2>1, OneState
  <2> HIDE DEF t
  <2>3. TableRight' /\ \A i \in Jobs!Used : i \in Jobs!Used'
    BY <1>1, <2>1, <2>2 DEF TableRight, Jobs!Used
  <2>4. RunningRight'
    BY <1>1, <2>1, <2>2 DEF RunningRight
  <2>5. \A v \in Works, i \in Jobs!Used \union {Jobs!Failed} : Pending(v, i) => Pending(v, i)'
    BY <2>1, <2>2 DEF Pending
  <2> QED
    BY <1>1, <2>1, <2>2, <2>3, <2>4, <2>5 DEF Grows, Jobs!Used
<1>4. CASE Jobs!Complete(j)
  <2> DEFINE t == [job EXCEPT ![j].state = "completed"]
  <2>1. j \in running /\ running' = running \ {j} /\ done' = done \union {job[j].work}
        /\ removed' = removed /\ job' = IF Jobs!Row(j) THEN t ELSE job
    BY <1>4 DEF Jobs!Complete
  <2>2. /\ t \in [Jobs!Jobs -> Entry]
        /\ \A i \in Jobs!Jobs : /\ t[i].queue = job[i].queue /\ t[i].work = job[i].work
                                /\ t[i].state = IF i = j THEN "completed" ELSE job[i].state
    BY <1>1, <1>2, <2>1, OneState
  <2> HIDE DEF t
  <2>3. /\ job' \in [Jobs!Jobs -> Entry]
        /\ \A i \in Jobs!Jobs : job'[i].queue = job[i].queue /\ job'[i].work = job[i].work
        /\ \A i \in Jobs!Jobs \ {j} : job'[i].state = job[i].state
        /\ job'[j].state # "none"
    BY <1>1, <1>2, <2>1, <2>2 DEF Jobs!Used
  <2>4. TableRight' /\ \A i \in Jobs!Used : i \in Jobs!Used'
    BY <1>1, <1>2, <2>1, <2>3 DEF TableRight, Jobs!Used
  <2>5. RunningRight'
    BY <1>1, <2>1, <2>3 DEF RunningRight
  <2>6. \A v \in Works, i \in Jobs!Used \union {Jobs!Failed} : Pending(v, i) => Pending(v, i)'
    BY <2>1, <2>3 DEF Pending
  <2> QED
    BY <1>1, <1>2, <2>1, <2>3, <2>4, <2>5, <2>6 DEF Grows, Jobs!Used
<1>5. CASE Jobs!FailForGood(j)
  <2> DEFINE t == [job EXCEPT ![j].state = "failed"]
             q == Jobs!Dead(job[j].queue)
             w == job[j].work
  <2>1. j \in running /\ running' = running \ {j} /\ UNCHANGED <<done, removed>>
        /\ job' = (IF Jobs!Row(j) THEN Jobs!Sent(t, q, w) ELSE job)
        /\ (Jobs!Row(j) => Jobs!Free # {})
    BY <1>5 DEF Jobs!FailForGood, Jobs!seen
  <2>2. CASE ~Jobs!Row(j)
    <3>1. job' = job
      BY <2>1, <2>2
    <3>2. TableRight' /\ \A i \in Jobs!Used : i \in Jobs!Used'
      BY <1>1, <3>1 DEF TableRight, Jobs!Used
    <3>3. RunningRight'
      BY <1>1, <2>1, <3>1 DEF RunningRight
    <3>4. \A v \in Works, i \in Jobs!Used \union {Jobs!Failed} : Pending(v, i) => Pending(v, i)'
      BY <2>1, <3>1 DEF Pending
    <3> QED
      BY <1>1, <2>1, <3>1, <3>2, <3>3, <3>4 DEF Grows
  <2>3. CASE Jobs!Row(j)
    <3>1. /\ t \in [Jobs!Jobs -> Entry]
          /\ \A i \in Jobs!Jobs : /\ t[i].queue = job[i].queue /\ t[i].work = job[i].work
                                  /\ t[i].state = IF i = j THEN "failed" ELSE job[i].state
      BY <1>1, <1>2, <2>1, OneState
    <3>2. q \in AllQueues /\ q # Jobs!NoQueue /\ w \in Works
      BY <1>1, <1>2, <2>1, QueueFacts DEF RunningRight
    <3> HIDE DEF t, q, w
    <3>3. PICK k \in Jobs!Jobs :
            /\ k \notin Jobs!Used /\ job' \in [Jobs!Jobs -> Entry]
            /\ job'[k] = [queue |-> q, work |-> w, state |-> "created"]
            /\ \A i \in Jobs!Jobs \ {k} : job'[i] = t[i]
      BY <1>1, <2>1, <2>3, <3>1, <3>2, OneRowMore
    <3>4. j \in Jobs!Used /\ w = job[j].work
      BY <1>2, <2>1 DEF w
    <3>5. \A i \in Jobs!Used : /\ i # k /\ i \in Jobs!Jobs
                               /\ job'[i].queue = job[i].queue /\ job'[i].work = job[i].work
                               /\ job'[i].state = IF i = j THEN "failed" ELSE job[i].state
      BY <3>1, <3>3 DEF Jobs!Used
    <3>6. \A i \in Jobs!Jobs : i \notin Jobs!Used => i # j /\ (i # k => job'[i].state = "none")
      BY <3>1, <3>3, <3>4 DEF Jobs!Used
    <3>7. TableRight' /\ \A i \in Jobs!Used : i \in Jobs!Used'
      BY <1>1, <3>2, <3>3, <3>5, <3>6 DEF TableRight, Jobs!Used
    <3>8. RunningRight'
      <4>1. \A i \in running' : i \in Jobs!Used /\ i # j
        BY <1>1, <2>1 DEF RunningRight, Jobs!Used
      <4> QED
        BY <1>1, <2>1, <3>5, <4>1 DEF RunningRight
    <3>9. ASSUME NEW v \in Works, NEW i \in Jobs!Used \union {Jobs!Failed}, Pending(v, i)
          PROVE  Pending(v, i)'
      <4>1. CASE v \in done \union removed
        BY <2>1, <4>1 DEF Pending
      <4>2. ASSUME NEW m \in Jobs!Jobs \ {i}, job[m].work = v, job[m].state \in {"created", "active"}
            PROVE  Pending(v, i)'
        <5>1. m \in Jobs!Used
          BY <4>2 DEF Jobs!Used
        <5>2. CASE m # j
          BY <3>5, <4>2, <5>1, <5>2 DEF Pending
        <5>3. CASE m = j
          <6>1. job'[k].work = v /\ job'[k].state = "created" /\ k # i
            BY <3>3, <3>4, <4>2, <5>3, JobConstants
          <6> QED
            BY <6>1 DEF Pending
        <5> QED
          BY <5>2, <5>3
      <4> QED
        BY <3>9, <4>1, <4>2 DEF Pending
    <3> QED
      BY <1>1, <2>1, <3>5, <3>7, <3>8, <3>9 DEF Grows
  <2> QED
    BY <2>2, <2>3
<1> QED
  BY <1>3, <1>4, <1>5

\* An operator deletes a job, and what it was for counts as removed.
LEMMA RemovalGrows ==
  ASSUME JobsInv, NEW q, NEW j, job' = Jobs!Deleted(q, j), removed' = Jobs!Removing(q, j),
         UNCHANGED <<running, done>>
  PROVE  Grows
<1>1. TableRight /\ RunningRight /\ job \in [Jobs!Jobs -> Entry]
      /\ done \subseteq Works /\ removed \subseteq Works
  BY DEF JobsInv, TableRight
<1>2. CASE j \notin Jobs!In({q})
  BY <1>2, SameTableGrows DEF Jobs!Deleted, Jobs!Removing
<1>3. CASE j \in Jobs!In({q})
  <2> DEFINE t == [job EXCEPT ![j].state = "gone"]
  <2>1. j \in Jobs!Used /\ job' = t /\ removed' = removed \union {job[j].work}
    BY <1>3 DEF Jobs!In, Jobs!Row, Jobs!Used, Jobs!Deleted, Jobs!Removing
  <2>2. /\ t \in [Jobs!Jobs -> Entry]
        /\ \A i \in Jobs!Jobs : /\ t[i].queue = job[i].queue /\ t[i].work = job[i].work
                                /\ t[i].state = IF i = j THEN "gone" ELSE job[i].state
    BY <1>1, <2>1, OneState
  <2> HIDE DEF t
  <2>3. TableRight' /\ \A i \in Jobs!Used : i \in Jobs!Used'
    BY <1>1, <2>1, <2>2 DEF TableRight, Jobs!Used
  <2>4. RunningRight'
    BY <1>1, <2>1, <2>2 DEF RunningRight
  <2>5. \A v \in Works, i \in Jobs!Used \union {Jobs!Failed} : Pending(v, i) => Pending(v, i)'
    BY <2>1, <2>2 DEF Pending
  <2>6. job[j].work \in Works
    BY <1>1, <2>1 DEF TableRight
  <2> QED
    BY <1>1, <2>1, <2>2, <2>3, <2>4, <2>5, <2>6 DEF Grows, Jobs!Used
<1> QED
  BY <1>2, <1>3

LEMMA InFacts ==
  ASSUME JobsInv, NEW qs
  PROVE  /\ Jobs!In(qs) \subseteq Jobs!Used /\ Jobs!In(qs) \subseteq Jobs!Jobs
         /\ \A j \in Jobs!In(qs) : job[j].queue \in qs
BY DEF Jobs!In, Jobs!Row, Jobs!Used

LEMMA RowOfFacts ==
  ASSUME NEW js, NEW shown \in Jobs!RowOf(js)
  PROVE  shown \subseteq js
<1>1. CASE js = {}
  BY <1>1 DEF Jobs!RowOf
<1>2. CASE js # {}
  <2>1. PICK j \in js : shown = {j}
    BY <1>2 DEF Jobs!RowOf
  <2> QED
    BY <2>1
<1> QED
  BY <1>1, <1>2

LEMMA NewestFacts == \A js : Jobs!Newest(js) \subseteq js
BY DEF Jobs!Newest

LEMMA QueueOfRight ==
  ASSUME JobsInv, NEW j \in Jobs!Used \union {Jobs!Failed}
  PROVE  Jobs!QueueOf(j) \in Jobs!Queues \union {Jobs!NoQueue}
<1>1. CASE j = Jobs!Failed
  <2>1. Jobs!Default \in Jobs!Queues
    BY QueueFacts DEF Jobs!Queues
  <2> QED
    BY <1>1, <2>1 DEF Jobs!QueueOf
<1>2. CASE j # Jobs!Failed
  <2>1. j \in Jobs!Jobs
    BY <1>2 DEF Jobs!Used
  <2>2. job[j].queue \in AllQueues
    BY <2>1, EntryFields DEF JobsInv
  <2> QED
    BY <1>2, <2>2, QueueFacts DEF Jobs!QueueOf
<1> QED
  BY <1>1, <1>2

\* The page of all jobs.
LEMMA JobsAnswerRight ==
  ASSUME JobsInv, Grows, NEW pc \in {"ready", "load"}, Jobs!JobsAnswer(pc)
  PROVE  JobsPageRight'
<1>1. Jobs!Used \subseteq Jobs!Used' /\ JobsPageRight
  BY DEF Grows, JobsInv
<1> QED
  BY <1>1, QueueFacts DEF JobsPageRight, Jobs!JobsAnswer

LEMMA JobsPageKeeps ==
  ASSUME JobsInv,
         \/ Jobs!ListJobs \/ Jobs!ListJobsFails \/ Jobs!QueryJobs \/ Jobs!RetryJob
         \/ Jobs!JobsPostFails
         \/ \E j \in Jobs!Jobs \union {Jobs!Failed} : Jobs!ClickJob(j)
  PROVE  JobsPageRight' /\ Grows /\ dlqPage' = dlqPage
         /\ posts' \in 0..MaxPosts /\ faults' \in 0..MaxFaults
<1> USE JobConstants
<1>1. JobsPageRight /\ posts \in 0..MaxPosts /\ faults \in 0..MaxFaults
  BY Zenon DEF JobsInv
<1>2. UNCHANGED <<job, running, dlqPage, done, removed>>
  BY Zenon DEF Jobs!ListJobs, Jobs!ListJobsFails, Jobs!QueryJobs, Jobs!RetryJob, Jobs!JobsPostFails,
         Jobs!ClickJob, Jobs!table, Jobs!seen
<1>3. posts' \in 0..MaxPosts /\ faults' \in 0..MaxFaults
  <2>1. CASE Jobs!ListJobs \/ Jobs!QueryJobs \/ Jobs!RetryJob
    BY Zenon, <1>1, <2>1 DEF Jobs!ListJobs, Jobs!QueryJobs, Jobs!RetryJob, Jobs!bound
  <2>2. CASE Jobs!ListJobsFails \/ Jobs!JobsPostFails
    BY <1>1, <2>2 DEF Jobs!ListJobsFails, Jobs!JobsPostFails, Jobs!Fault
  <2>3. ASSUME NEW j, Jobs!ClickJob(j) PROVE posts' \in 0..MaxPosts /\ faults' \in 0..MaxFaults
    <3>1. posts < MaxPosts /\ posts' = posts + 1 /\ faults' = faults
      BY Zenon, <2>3 DEF Jobs!ClickJob
    <3> QED
      BY <1>1, <3>1
  <2> QED
    BY <2>1, <2>2, <2>3
<1>4. Grows
  BY <1>2, SameTableGrows
<1>5. Jobs!Used' = Jobs!Used
  BY <1>2 DEF Jobs!Used
<1>6. JobsPageRight'
  <2>1. CASE Jobs!ListJobs
    <3>1. PICK shown : /\ shown \subseteq Jobs!Used
                       /\ jobsPage' = [jobsPage EXCEPT !.pc = "ready", !.shown = shown]
      <4>1. PICK found \in {Jobs!Newest(Jobs!In(Jobs!Queues))}
                     \union {{j} : j \in Jobs!In(Jobs!Queues)}
                     \union {Jobs!Newest({j \in Jobs!In(Jobs!Queues) : job[j].work = w}) : w \in Works} :
              \E shown \in Jobs!RowOf(found) :
                jobsPage' = [jobsPage EXCEPT !.pc = "ready", !.shown = shown]
        BY <2>1, Zenon DEF Jobs!ListJobs
      <4>2. found \subseteq Jobs!In(Jobs!Queues)
        <5>1. CASE found \in {{j} : j \in Jobs!In(Jobs!Queues)}
          BY <5>1
        <5>2. CASE found = Jobs!Newest(Jobs!In(Jobs!Queues))
          BY <5>2, NewestFacts
        <5>3. ASSUME NEW w \in Works,
                     found = Jobs!Newest({j \in Jobs!In(Jobs!Queues) : job[j].work = w})
              PROVE  found \subseteq Jobs!In(Jobs!Queues)
          <6> DEFINE js == {j \in Jobs!In(Jobs!Queues) : job[j].work = w}
          <6>1. js \subseteq Jobs!In(Jobs!Queues)
            OBVIOUS
          <6> HIDE DEF js
          <6>2. Jobs!Newest(js) \subseteq js
            BY NewestFacts
          <6> QED
            BY <5>3, <6>1, <6>2 DEF js
        <5> QED
          BY <4>1, <5>1, <5>2, <5>3
      <4>3. Jobs!In(Jobs!Queues) \subseteq Jobs!Used
        BY InFacts
      <4> QED
        BY Zenon, <4>1, <4>2, <4>3, RowOfFacts
    <3> QED
      BY <1>1, <1>5, <3>1 DEF JobsPageRight
  <2>2. CASE Jobs!ListJobsFails
    <3>1. PICK shown \in {{Jobs!Failed}, {}} :
            jobsPage' = [jobsPage EXCEPT !.pc = "ready", !.shown = shown]
      BY <2>2 DEF Jobs!ListJobsFails
    <3>2. shown \subseteq Jobs!Used \union {Jobs!Failed}
      BY <3>1
    <3> QED
      BY <1>1, <1>5, <3>1, <3>2 DEF JobsPageRight
  <2>3. CASE Jobs!QueryJobs
    BY <1>1, <1>5, <2>3 DEF JobsPageRight, Jobs!QueryJobs
  <2>4. CASE Jobs!RetryJob
    <3>1. CASE jobsPage.id \in Jobs!In({jobsPage.queue}) /\ jobsPage.queue \in Jobs!Actions
      <4>1. jobsPage.id \in Jobs!Used
        BY <3>1, InFacts
      <4>2. jobsPage' = [jobsPage EXCEPT !.pc = "send"]
        BY <2>4, <3>1 DEF Jobs!RetryJob
      <4> QED
        BY <1>1, <1>5, <3>1, <4>1, <4>2 DEF JobsPageRight
    <3>2. CASE Jobs!JobsAnswer("ready")
      BY <1>4, <3>2, JobsAnswerRight
    <3> QED
      BY <2>4, <3>1, <3>2 DEF Jobs!RetryJob
  <2>5. CASE Jobs!JobsPostFails
    BY <1>4, <2>5, JobsAnswerRight DEF Jobs!JobsPostFails
  <2>6. ASSUME NEW j \in Jobs!Jobs \union {Jobs!Failed}, Jobs!ClickJob(j) PROVE JobsPageRight'
    <3> DEFINE q == Jobs!QueueOf(j)
    <3>1. j \in Jobs!Used \union {Jobs!Failed}
      BY Zenon, <1>1, <2>6 DEF JobsPageRight, Jobs!ClickJob
    <3>2. PICK pc \in {"cancel", "retry"} :
            jobsPage' = [jobsPage EXCEPT !.pc = pc, !.id = j, !.queue = q]
      BY Zenon, <2>6 DEF Jobs!ClickJob
    <3>3. q \in Jobs!Queues \union {Jobs!NoQueue}
      BY <3>1, QueueOfRight
    <3> HIDE DEF q
    <3> QED
      BY <1>1, <1>5, <2>6, <3>2, <3>3 DEF JobsPageRight
  <2> QED
    BY <2>1, <2>2, <2>3, <2>4, <2>5, <2>6
<1> QED
  BY <1>2, <1>3, <1>4, <1>6

LEMMA CancelAndSend ==
  ASSUME JobsInv, Jobs!CancelJob \/ Jobs!SendJob
  PROVE  JobsPageRight' /\ Grows /\ UNCHANGED <<dlqPage, posts, faults>>
<1>1. UNCHANGED <<running, dlqPage, posts, faults, done>>
  BY DEF Jobs!CancelJob, Jobs!SendJob, Jobs!bound, Jobs!seen
<1>2. CASE Jobs!CancelJob /\ jobsPage.id = Jobs!Failed
  <2>1. Grows
    BY <1>1, <1>2, SameTableGrows DEF Jobs!CancelJob
  <2> QED
    BY <1>1, <1>2, <2>1, JobsAnswerRight DEF Jobs!CancelJob
<1>3. CASE Jobs!CancelJob /\ jobsPage.id # Jobs!Failed
  <2>1. Grows
    BY <1>1, <1>3, RemovalGrows DEF Jobs!CancelJob
  <2> QED
    BY <1>1, <1>3, <2>1, JobsAnswerRight DEF Jobs!CancelJob
<1>4. CASE Jobs!SendJob
  <2> DEFINE q == jobsPage.queue
             w == job[jobsPage.id].work
  <2>1. q \in Jobs!Actions /\ jobsPage.id \in Jobs!Used
    BY <1>4 DEF JobsInv, JobsPageRight, Jobs!SendJob
  <2>2. q \in AllQueues /\ q # Jobs!NoQueue /\ w \in Works
    BY <2>1, QueueFacts DEF JobsInv, TableRight
  <2>3. Jobs!Free # {} /\ job' = Jobs!Sent(job, q, w) /\ UNCHANGED <<running, done, removed>>
    BY <1>4 DEF Jobs!SendJob, Jobs!seen
  <2> HIDE DEF q, w
  <2>4. Grows
    BY <2>2, <2>3, SendGrows
  <2> QED
    BY <1>1, <1>4, <2>4, JobsAnswerRight DEF Jobs!SendJob
<1> QED
  BY <1>2, <1>3, <1>4

\* The page of dead letters.
DlqPages ==
  [pc: {"queues", "jobs", "ready", "list", "delete", "retry", "send", "remove"},
   selected: Jobs!DlqQueues \union {Jobs!NoQueue}, shown: SUBSET (Jobs!Used \union {Jobs!Failed}),
   id: Jobs!Jobs \union {Jobs!Failed}, queue: Jobs!DlqQueues \union {Jobs!NoQueue}]

LEMMA DlqPageFields ==
  ASSUME JobsInv
  PROVE  /\ dlqPage \in DlqPages
         /\ \A j \in dlqPage.shown \ {Jobs!Failed} : job[j].queue \in Jobs!DlqQueues
BY DEF JobsInv, DlqPageRight, DlqPages

\* The reads of the page, and the clicks on it.
LEMMA DlqReads ==
  ASSUME JobsInv,
         \/ Jobs!CountQueues \/ Jobs!RefreshJobs \/ Jobs!CountFails \/ Jobs!RefreshJobsFails
         \/ Jobs!Refresh \/ Jobs!ListDead \/ Jobs!ListDeadFails
         \/ \E d \in Jobs!DlqQueues : Jobs!Select(d)
         \/ \E j \in Jobs!Jobs \union {Jobs!Failed} : Jobs!ClickDead(j)
  PROVE  JobsInv'
<1> USE JobConstants, QueueFacts
<1>1. dlqPage \in DlqPages /\ posts \in 0..MaxPosts /\ faults \in 0..MaxFaults
      /\ \A j \in dlqPage.shown \ {Jobs!Failed} : job[j].queue \in Jobs!DlqQueues
  BY DlqPageFields DEF JobsInv
<1>2. UNCHANGED <<job, running, jobsPage, done, removed>>
  BY Zenon DEF Jobs!CountQueues, Jobs!RefreshJobs, Jobs!CountFails, Jobs!RefreshJobsFails,
         Jobs!Refresh, Jobs!ListDead, Jobs!ListDeadFails, Jobs!Select, Jobs!ClickDead,
         Jobs!table, Jobs!seen
<1>3. Grows /\ JobsPageRight' /\ \A w \in Works : Pending(w, Jobs!Failed)'
  BY <1>2, SameTableGrows, GrowsKeepsPages
<1>4. Jobs!Used' = Jobs!Used
  BY <1>2 DEF Jobs!Used
<1>5. posts' \in 0..MaxPosts /\ faults' \in 0..MaxFaults
  <2>1. CASE Jobs!CountQueues \/ Jobs!RefreshJobs \/ Jobs!Refresh \/ Jobs!ListDead
    BY Zenon, <1>1, <2>1 DEF Jobs!CountQueues, Jobs!RefreshJobs, Jobs!Refresh, Jobs!ListDead, Jobs!bound
  <2>2. CASE Jobs!CountFails \/ Jobs!RefreshJobsFails \/ Jobs!ListDeadFails
    <3>1. faults < MaxFaults /\ faults' = faults + 1 /\ posts' = posts
      BY <2>2 DEF Jobs!CountFails, Jobs!RefreshJobsFails, Jobs!ListDeadFails, Jobs!Fault
    <3> QED
      BY <1>1, <3>1
  <2>3. ASSUME NEW d, Jobs!Select(d) PROVE posts' \in 0..MaxPosts /\ faults' \in 0..MaxFaults
    BY Zenon, <1>1, <2>3 DEF Jobs!Select, Jobs!bound
  <2>4. ASSUME NEW j, Jobs!ClickDead(j) PROVE posts' \in 0..MaxPosts /\ faults' \in 0..MaxFaults
    <3>1. posts < MaxPosts /\ posts' = posts + 1 /\ faults' = faults
      BY Zenon, <2>4 DEF Jobs!ClickDead
    <3> QED
      BY <1>1, <3>1
  <2> QED
    BY <2>1, <2>2, <2>3, <2>4
<1>6. ASSUME dlqPage' \in DlqPages, dlqPage'.pc \notin {"send", "remove"},
             \A j \in dlqPage'.shown \ {Jobs!Failed} : job[j].queue \in Jobs!DlqQueues
      PROVE  JobsInv'
  <2>1. DlqPageRight'
    BY <1>2, <1>4, <1>6 DEF DlqPageRight, DlqPages
  <2> QED
    BY <1>3, <1>5, <2>1 DEF JobsInv, Grows
\* A list of a queue of dead letters.
<1>7. ASSUME NEW q \in Jobs!DlqQueues \union {Jobs!NoQueue},
             NEW shown \in Jobs!RowOf(Jobs!Newest(Jobs!In({q})))
      PROVE  /\ shown \in SUBSET (Jobs!Used \union {Jobs!Failed})
             /\ \A j \in shown : job[j].queue \in Jobs!DlqQueues
  <2>1. shown \subseteq Jobs!In({q})
    BY RowOfFacts, NewestFacts
  <2>2. Jobs!In({q}) \subseteq Jobs!Used /\ \A j \in Jobs!In({q}) : job[j].queue = q
    BY InFacts
  <2>3. \A j \in Jobs!Used : job[j].queue # Jobs!NoQueue
    BY DEF JobsInv, TableRight
  <2> QED
    BY <2>1, <2>2, <2>3
<1>8. CASE Jobs!CountQueues \/ Jobs!Refresh
  <2>1. PICK pc \in {"jobs", "queues"} : dlqPage' = [dlqPage EXCEPT !.pc = pc]
    BY <1>8 DEF Jobs!CountQueues, Jobs!Refresh
  <2>2. dlqPage' \in DlqPages /\ dlqPage'.pc = pc /\ dlqPage'.shown = dlqPage.shown
    BY <1>1, <2>1 DEF DlqPages
  <2> QED
    BY <1>1, <1>6, <2>2
<1>9. ASSUME NEW shown \in SUBSET (Jobs!Used \union {Jobs!Failed}),
             \A j \in shown \ {Jobs!Failed} : job[j].queue \in Jobs!DlqQueues,
             NEW sel \in Jobs!DlqQueues \union {Jobs!NoQueue},
             \/ dlqPage' = [dlqPage EXCEPT !.pc = "ready", !.shown = shown, !.selected = sel]
             \/ dlqPage' = [dlqPage EXCEPT !.pc = "ready", !.shown = shown]
             \/ dlqPage' = [dlqPage EXCEPT !.pc = "ready", !.shown = shown, !.selected = sel,
                              !.id = Jobs!Failed, !.queue = Jobs!NoQueue]
      PROVE  JobsInv'
  <2>1. dlqPage' \in DlqPages /\ dlqPage'.pc = "ready" /\ dlqPage'.shown = shown
    <3>1. CASE dlqPage' = [dlqPage EXCEPT !.pc = "ready", !.shown = shown, !.selected = sel]
      BY <1>1, <1>9, <3>1 DEF DlqPages
    <3>2. CASE dlqPage' = [dlqPage EXCEPT !.pc = "ready", !.shown = shown]
      BY <1>1, <1>9, <3>2 DEF DlqPages
    <3>3. CASE dlqPage' = [dlqPage EXCEPT !.pc = "ready", !.shown = shown, !.selected = sel,
                              !.id = Jobs!Failed, !.queue = Jobs!NoQueue]
      <4> DEFINE m == [dlqPage EXCEPT !.pc = "ready", !.shown = shown, !.selected = sel]
      <4>1. m \in DlqPages /\ m.pc = "ready" /\ m.shown = shown
        BY <1>1, <1>9 DEF DlqPages
      <4>2. dlqPage' = [m EXCEPT !.id = Jobs!Failed, !.queue = Jobs!NoQueue]
        BY <3>3
      <4> HIDE DEF m
      <4> QED
        BY <4>1, <4>2 DEF DlqPages
    <3> QED
      BY <1>9, <3>1, <3>2, <3>3
  <2> QED
    BY <1>6, <1>9, <2>1
<1>10. CASE Jobs!RefreshJobs
  <2> DEFINE sel == IF dlqPage.selected = Jobs!NoQueue THEN Jobs!Default ELSE dlqPage.selected
  <2>1. PICK shown \in Jobs!RowOf(Jobs!Newest(Jobs!In({Jobs!Default}))) :
          dlqPage' = [dlqPage EXCEPT !.pc = "ready", !.shown = shown, !.selected = sel]
    BY Zenon, <1>10 DEF Jobs!RefreshJobs
  <2>2. sel \in Jobs!DlqQueues \union {Jobs!NoQueue}
    BY <1>1 DEF DlqPages
  <2> HIDE DEF sel
  <2> QED
    BY <1>7, <1>9, <2>1, <2>2, Zenon
<1>11. CASE Jobs!CountFails
  BY Zenon, <1>9, <1>11 DEF Jobs!CountFails
<1>12. CASE Jobs!RefreshJobsFails
  <2> DEFINE sel == IF dlqPage.selected = Jobs!NoQueue THEN Jobs!Default ELSE dlqPage.selected
             shown == {Jobs!Failed}
  <2>1. dlqPage' = [dlqPage EXCEPT !.pc = "ready", !.shown = shown, !.selected = sel]
    BY <1>12 DEF Jobs!RefreshJobsFails
  <2>2. sel \in Jobs!DlqQueues \union {Jobs!NoQueue}
        /\ shown \in SUBSET (Jobs!Used \union {Jobs!Failed}) /\ shown \ {Jobs!Failed} = {}
    BY <1>1 DEF DlqPages
  <2> HIDE DEF sel, shown
  <2> QED
    BY Zenon, <1>9, <2>1, <2>2
<1>13. CASE Jobs!ListDead
  <2>1. PICK shown \in Jobs!RowOf(Jobs!Newest(Jobs!In({dlqPage.queue}))) :
          dlqPage' = [dlqPage EXCEPT !.pc = "ready", !.shown = shown,
                        !.selected = dlqPage.queue, !.id = Jobs!Failed, !.queue = Jobs!NoQueue]
    BY Zenon, <1>13 DEF Jobs!ListDead
  <2>2. dlqPage.queue \in Jobs!DlqQueues \union {Jobs!NoQueue}
    BY <1>1 DEF DlqPages
  <2> QED
    BY Zenon, <1>7, <1>9, <2>1, <2>2
<1>14. CASE Jobs!ListDeadFails
  <2> DEFINE none == {Jobs!Failed}
  <2>1. dlqPage.queue \in Jobs!DlqQueues \union {Jobs!NoQueue}
    BY <1>1 DEF DlqPages
  <2>2. CASE dlqPage' = [dlqPage EXCEPT !.pc = "ready", !.shown = none,
                           !.selected = dlqPage.queue, !.id = Jobs!Failed, !.queue = Jobs!NoQueue]
    <3>1. none \in SUBSET (Jobs!Used \union {Jobs!Failed}) /\ none \ {Jobs!Failed} = {}
      OBVIOUS
    <3> HIDE DEF none
    <3> QED
      BY Zenon, <1>9, <2>1, <2>2, <3>1
  <2>3. CASE dlqPage' = [dlqPage EXCEPT !.pc = "ready", !.id = Jobs!Failed, !.queue = Jobs!NoQueue]
    <3>1. dlqPage' \in DlqPages /\ dlqPage'.pc = "ready" /\ dlqPage'.shown = dlqPage.shown
      BY <1>1, <2>3 DEF DlqPages
    <3> QED
      BY <1>1, <1>6, <3>1
  <2> QED
    BY <1>14, <2>2, <2>3 DEF Jobs!ListDeadFails
<1>15. ASSUME NEW d \in Jobs!DlqQueues, Jobs!Select(d) PROVE JobsInv'
  <2>1. dlqPage' = [dlqPage EXCEPT !.pc = "list", !.selected = d, !.queue = d]
    BY Zenon, <1>15 DEF Jobs!Select
  <2>2. dlqPage' \in DlqPages /\ dlqPage'.pc = "list" /\ dlqPage'.shown = dlqPage.shown
    BY <1>1, <2>1 DEF DlqPages
  <2> QED
    BY <1>1, <1>6, <2>2
<1>16. ASSUME NEW j \in Jobs!Jobs \union {Jobs!Failed}, Jobs!ClickDead(j) PROVE JobsInv'
  <2>1. PICK pc \in {"delete", "retry"} :
          dlqPage' = IF j = Jobs!Failed THEN [dlqPage EXCEPT !.pc = pc]
                     ELSE [dlqPage EXCEPT !.pc = pc, !.id = j, !.queue = Jobs!QueueOf(j)]
    BY <1>16, Zenon DEF Jobs!ClickDead
  <2>2. dlqPage' \in DlqPages /\ dlqPage'.pc = pc /\ dlqPage'.shown = dlqPage.shown
    <3>1. CASE j = Jobs!Failed
      BY <1>1, <2>1, <3>1 DEF DlqPages
    <3>2. CASE j # Jobs!Failed
      <4>1. Jobs!QueueOf(j) \in Jobs!DlqQueues
        BY Zenon, <1>1, <1>16, <3>2 DEF Jobs!ClickDead, Jobs!QueueOf
      <4> QED
        BY <1>1, <2>1, <3>2, <4>1 DEF DlqPages
    <3> QED
      BY <3>1, <3>2
  <2> QED
    BY <1>1, <1>6, <2>2
<1> QED
  BY <1>8, <1>10, <1>11, <1>12, <1>13, <1>14, <1>15, <1>16

LEMMA RefusedRight ==
  ASSUME JobsInv, Grows, Jobs!Refused \/ Jobs!Accepted
  PROVE  DlqPageRight'
<1>1. dlqPage \in DlqPages /\ Jobs!Used \subseteq Jobs!Used'
      /\ \A j \in dlqPage.shown \ {Jobs!Failed} : job[j].queue \in Jobs!DlqQueues
  BY DlqPageFields DEF Grows
<1>2. /\ dlqPage' \in DlqPages /\ dlqPage'.pc \in {"ready", "list"}
      /\ dlqPage'.shown = dlqPage.shown
  BY <1>1, QueueFacts DEF Jobs!Refused, Jobs!Accepted, DlqPages
<1>3. \A j \in dlqPage.shown \ {Jobs!Failed} : job'[j].queue = job[j].queue
  BY <1>1 DEF DlqPages, Grows
<1> QED
  BY <1>1, <1>2, <1>3 DEF DlqPageRight, DlqPages

\* The writes of the page, but for the last of a retry.
LEMMA DlqWrites ==
  ASSUME JobsInv, Jobs!DeleteDead \/ Jobs!RetryRead \/ Jobs!RetrySend \/ Jobs!DlqPostFails
  PROVE  JobsInv'
<1> USE JobConstants, QueueFacts
<1>1. dlqPage \in DlqPages /\ posts \in 0..MaxPosts /\ faults \in 0..MaxFaults
      /\ \A j \in dlqPage.shown \ {Jobs!Failed} : job[j].queue \in Jobs!DlqQueues
  BY DlqPageFields DEF JobsInv
<1>2. UNCHANGED <<running, jobsPage, posts, done>>
  BY DEF Jobs!DeleteDead, Jobs!RetryRead, Jobs!RetrySend, Jobs!DlqPostFails, Jobs!table,
         Jobs!bound, Jobs!seen
<1>3. faults' \in 0..MaxFaults
  BY <1>1 DEF Jobs!DeleteDead, Jobs!RetryRead, Jobs!RetrySend, Jobs!DlqPostFails, Jobs!bound,
              Jobs!Fault
<1>4. ASSUME Grows, DlqPageRight' PROVE JobsInv'
  <2>1. JobsPageRight' /\ \A w \in Works : Pending(w, Jobs!Failed)'
    BY <1>2, <1>4, GrowsKeepsPages
  <2> QED
    BY <1>1, <1>2, <1>3, <1>4, <2>1 DEF JobsInv, Grows
<1>5. CASE Jobs!DeleteDead /\ dlqPage.id = Jobs!Failed
  BY <1>2, <1>4, <1>5, SameTableGrows, RefusedRight DEF Jobs!DeleteDead
<1>6. CASE Jobs!DeleteDead /\ dlqPage.id # Jobs!Failed
  BY <1>2, <1>4, <1>6, RemovalGrows, RefusedRight DEF Jobs!DeleteDead
<1>7. CASE Jobs!DlqPostFails
  BY <1>2, <1>4, <1>7, SameTableGrows, RefusedRight DEF Jobs!DlqPostFails, Jobs!table, Jobs!seen
<1>8. CASE Jobs!RetryRead
  <2>1. Grows /\ UNCHANGED job
    BY <1>2, <1>8, SameTableGrows DEF Jobs!RetryRead, Jobs!table, Jobs!seen
  <2>2. CASE Jobs!Refused
    BY <1>4, <2>1, <2>2, RefusedRight
  <2>3. CASE dlqPage.id \in Jobs!In({dlqPage.queue}) /\ dlqPage' = [dlqPage EXCEPT !.pc = "send"]
    <3>1. dlqPage.id \in Jobs!Used /\ dlqPage.queue # Jobs!NoQueue
          /\ dlqPage.queue = job[dlqPage.id].queue
      BY <2>3, InFacts DEF JobsInv, TableRight
    <3>2. dlqPage' \in DlqPages /\ dlqPage'.pc = "send" /\ dlqPage'.shown = dlqPage.shown
          /\ dlqPage'.id = dlqPage.id /\ dlqPage'.queue = dlqPage.queue
      BY <1>1, <2>3 DEF DlqPages
    <3>3. Jobs!Used' = Jobs!Used
      BY <2>1 DEF Jobs!Used
    <3>4. DlqPageRight'
      BY <1>1, <2>1, <3>1, <3>2, <3>3 DEF DlqPageRight, DlqPages
    <3> QED
      BY <1>4, <2>1, <3>4
  <2> QED
    BY <1>8, <2>2, <2>3 DEF Jobs!RetryRead
<1>9. CASE Jobs!RetrySend
  <2> DEFINE id == dlqPage.id
             q == Jobs!Base(dlqPage.queue)
  <2>1. id \in Jobs!Used /\ dlqPage.queue \in Jobs!DlqQueues /\ id \in Jobs!Jobs
        /\ dlqPage.queue = job[id].queue
    BY <1>9 DEF JobsInv, DlqPageRight, Jobs!RetrySend, Jobs!Used
  <2>2. PICK w \in Works : w = job[id].work
    BY <2>1 DEF JobsInv, TableRight
  <2>3. Jobs!Free # {} /\ job' = Jobs!Sent(job, q, w) /\ UNCHANGED <<running, done, removed>>
        /\ dlqPage' = [dlqPage EXCEPT !.pc = "remove"]
    BY <1>9, <2>2 DEF Jobs!RetrySend, Jobs!seen
  <2>4. q \in AllQueues /\ q # Jobs!NoQueue
    <3>1. dlqPage.queue \in AllQueues
      BY <2>1, EntryFields DEF JobsInv
    <3> QED
      BY <2>1, <3>1
  <2> HIDE DEF q
  <2>5. Grows /\ \A i \in Jobs!Used : Pending(w, i)'
    BY <2>2, <2>3, <2>4, SendGrows
  <2>6. dlqPage' \in DlqPages /\ dlqPage'.pc = "remove" /\ dlqPage'.shown = dlqPage.shown
        /\ dlqPage'.id = id /\ dlqPage'.queue = dlqPage.queue
    BY <1>1, <2>3 DEF DlqPages
  <2>7. /\ Jobs!Used \subseteq Jobs!Used'
        /\ \A j \in Jobs!Used : job'[j].queue = job[j].queue /\ job'[j].work = job[j].work
    BY <2>5 DEF Grows
  <2>8. \A j \in dlqPage.shown \ {Jobs!Failed} : job'[j].queue \in Jobs!DlqQueues
    BY <1>1, <2>7 DEF DlqPages
  <2>9. job'[id].work = w
    BY <2>1, <2>2, <2>7
  <2>10. \A v \in Works, i \in Jobs!Jobs : i = dlqPage'.id /\ v = job'[i].work => Pending(v, i)'
    BY <2>1, <2>5, <2>6, <2>9
  <2>11. DlqPageRight'
    BY <2>1, <2>6, <2>7, <2>8, <2>10 DEF DlqPageRight, DlqPages
  <2> QED
    BY <1>4, <2>5, <2>11
<1> QED
  BY <1>5, <1>6, <1>7, <1>8, <1>9

\* The dead letter goes once its copy has been sent: whatever has become of the copy
\* meanwhile, the work does not depend on the dead letter any more.
LEMMA RetryRemoveKeeps ==
  ASSUME JobsInv, Jobs!RetryRemove
  PROVE  JobsInv'
<1> USE JobConstants, QueueFacts
<1>1. TableRight /\ RunningRight /\ job \in [Jobs!Jobs -> Entry] /\ dlqPage \in DlqPages
      /\ \A j \in dlqPage.shown \ {Jobs!Failed} : job[j].queue \in Jobs!DlqQueues
  BY DlqPageFields DEF JobsInv, TableRight
<1> DEFINE id == dlqPage.id
           t  == [job EXCEPT ![id].state = "gone"]
<1>2. dlqPage.pc = "remove" /\ job' = Jobs!Deleted(dlqPage.queue, id) /\ Jobs!Accepted
      /\ UNCHANGED <<running, jobsPage, posts, faults, done, removed>>
  BY DEF Jobs!RetryRemove, Jobs!bound, Jobs!seen
<1>3. id \in Jobs!Used /\ id \in Jobs!Jobs /\ dlqPage.queue \in Jobs!DlqQueues
      /\ \A w \in Works : w = job[id].work => Pending(w, id)
  BY <1>2 DEF JobsInv, DlqPageRight, Jobs!Used
<1>4. CASE id \notin Jobs!In({dlqPage.queue})
  <2>1. job' = job
    BY <1>2, <1>4 DEF Jobs!Deleted
  <2>2. Grows
    BY <1>2, <2>1, SameTableGrows
  <2> QED
    BY <1>2, <2>2, RefusedRight, GrowsKeepsPages DEF JobsInv, Grows
<1>5. CASE id \in Jobs!In({dlqPage.queue})
  <2>1. job' = t /\ job[id].queue \in Jobs!DlqQueues
    BY <1>2, <1>3, <1>5, InFacts DEF Jobs!Deleted
  <2>2. /\ t \in [Jobs!Jobs -> Entry]
        /\ \A i \in Jobs!Jobs : /\ t[i].queue = job[i].queue /\ t[i].work = job[i].work
                                /\ t[i].state = IF i = id THEN "gone" ELSE job[i].state
    <3> HIDE DEF id
    <3> QED
      BY <1>1, <1>3, OneState
  <2> HIDE DEF t
  <2>3. TableRight' /\ Jobs!Used' = Jobs!Used
    BY <1>1, <1>3, <2>1, <2>2 DEF TableRight, Jobs!Used
  <2>4. RunningRight'
    <3>1. id \notin running
      BY <1>1, <2>1 DEF RunningRight
    <3> QED
      BY <1>1, <1>2, <2>1, <2>2, <3>1 DEF RunningRight
  <2>5. JobsPageRight'
    BY <1>2, <2>3 DEF JobsInv, JobsPageRight
  <2>6. DlqPageRight'
    <3>1. dlqPage' \in DlqPages /\ dlqPage'.pc = "list" /\ dlqPage'.shown = dlqPage.shown
      BY <1>1, <1>2 DEF Jobs!Accepted, DlqPages
    <3>2. \A j \in dlqPage.shown \ {Jobs!Failed} : job'[j].queue = job[j].queue
      BY <1>1, <2>1, <2>2 DEF DlqPages, Jobs!Used
    <3> QED
      BY <1>1, <2>3, <3>1, <3>2 DEF DlqPageRight, DlqPages
  <2>7. ASSUME NEW w \in Works PROVE Pending(w, Jobs!Failed)'
    <3>1. Pending(w, Jobs!Failed) /\ (w = job[id].work => Pending(w, id))
      BY <1>3 DEF JobsInv
    <3>2. CASE w \in done \union removed
      BY <1>2, <3>2 DEF Pending
    <3>3. CASE w \notin done \union removed
      <4>1. PICK j \in Jobs!Jobs : /\ j # id /\ job[j].work = w
                                   /\ job[j].state \in {"created", "active"}
        BY <3>1, <3>3 DEF Pending
      <4> QED
        BY <2>1, <2>2, <4>1 DEF Pending
    <3> QED
      BY <3>2, <3>3
  <2> QED
    BY <1>2, <2>3, <2>4, <2>5, <2>6, <2>7 DEF JobsInv
<1> QED
  BY <1>4, <1>5

LEMMA NextJobsInv == JobsInv /\ Jobs!Next => JobsInv'
<1> SUFFICES ASSUME JobsInv, Jobs!Next PROVE JobsInv'
  OBVIOUS
<1> USE JobConstants
<1>1. ASSUME Grows, JobsPageRight', dlqPage' = dlqPage, posts' \in 0..MaxPosts,
             faults' \in 0..MaxFaults
      PROVE  JobsInv'
  BY <1>1, GrowsKeepsPages DEF JobsInv, Grows
<1>2. ASSUME NEW j \in Jobs!Jobs, Jobs!Fetch(j) \/ Jobs!Complete(j) \/ Jobs!FailForGood(j)
      PROVE  JobsInv'
  <2>1. UNCHANGED <<jobsPage, dlqPage, posts>>
    BY <1>2 DEF Jobs!Fetch, Jobs!Complete, Jobs!FailForGood, Jobs!bound
  <2>2. faults' = faults \/ (faults < MaxFaults /\ faults' = faults + 1)
    BY <1>2 DEF Jobs!Fetch, Jobs!Complete, Jobs!FailForGood, Jobs!bound, Jobs!Fault
  <2>3. posts \in 0..MaxPosts /\ faults \in 0..MaxFaults
    BY DEF JobsInv
  <2>4. faults' \in 0..MaxFaults
    BY <2>2, <2>3
  <2>5. Grows
    BY <1>2, WorkersGrow
  <2> QED
    BY <1>1, <2>1, <2>3, <2>4, <2>5, GrowsKeepsPages
<1>3. ASSUME NEW j \in Jobs!Jobs \union {Jobs!Failed}, Jobs!ClickJob(j) PROVE JobsInv'
  BY <1>1, <1>3, JobsPageKeeps
<1>4. CASE \/ Jobs!ListJobs \/ Jobs!ListJobsFails \/ Jobs!QueryJobs \/ Jobs!RetryJob
           \/ Jobs!JobsPostFails
  BY <1>1, <1>4, JobsPageKeeps
<1>5. CASE Jobs!CancelJob \/ Jobs!SendJob
  BY <1>1, <1>5, CancelAndSend DEF JobsInv
<1>6. CASE \/ Jobs!CountQueues \/ Jobs!RefreshJobs \/ Jobs!CountFails \/ Jobs!RefreshJobsFails
           \/ Jobs!Refresh \/ Jobs!ListDead \/ Jobs!ListDeadFails
  BY <1>6, DlqReads
<1>7. ASSUME NEW d \in Jobs!DlqQueues, Jobs!Select(d) PROVE JobsInv'
  BY <1>7, DlqReads
<1>8. ASSUME NEW j \in Jobs!Jobs \union {Jobs!Failed}, Jobs!ClickDead(j) PROVE JobsInv'
  BY <1>8, DlqReads
<1>9. CASE Jobs!DeleteDead \/ Jobs!RetryRead \/ Jobs!RetrySend \/ Jobs!DlqPostFails
  BY <1>9, DlqWrites
<1>10. CASE Jobs!RetryRemove
  BY <1>10, RetryRemoveKeeps
<1> QED
  BY <1>2, <1>3, <1>4, <1>5, <1>6, <1>7, <1>8, <1>9, <1>10 DEF Jobs!Next

LEMMA SameJobsInv == JobsInv /\ UNCHANGED <<consoles, job, posts, faults>> => JobsInv'
<1> SUFFICES ASSUME JobsInv, UNCHANGED <<consoles, job, posts, faults>> PROVE JobsInv'
  OBVIOUS
<1>1. UNCHANGED <<job, running, done, removed, jobsPage, posts, faults>> /\ dlqPage' = dlqPage
  BY DEF consoles
<1>2. Grows
  BY <1>1, SameTableGrows
<1> QED
  BY <1>1, <1>2, GrowsKeepsPages DEF JobsInv, Grows


-----------------------------------------------------------------------------
(***************************************************************************)
(* The job that hydrates.  HydrationKept needs that the rows a sync has    *)
(* found or made are those of the tags it is done with, one of each; and   *)
(* that a sync which none overlapped has read the rows the image has.      *)
(***************************************************************************)
AnyTag == [name: Names, translation: BOOLEAN]
Work ==
  [pc: {"idle", "ask", "find", "write", "next", "tags", "apply"}, field: Nat, pages: Seq(Pages),
   tags: SUBSET AnyTag, found: SUBSET Pages, page: Pages \union {0}, todo: SUBSET AnyTag,
   create: SUBSET AnyTag, rows: SUBSET Names, had: SUBSET Names, alone: BOOLEAN]
InSync == {"tags", "apply"}

SameTag(s, t) == Fold[s.name] = Fold[t.name]
OneEach(ts) == \A s, t \in ts : SameTag(s, t) => s = t
OneRowEach(ns) == \A m, n \in ns : Fold[m] = Fold[n] => m = n

\* One row of each tag of ts.
RowsOf(ns, ts) ==
  /\ OneRowEach(ns)
  /\ \A n \in ns : \E t \in ts : Fold[n] = Fold[t.name]
  /\ \A t \in ts : \E n \in ns : Fold[n] = Fold[t.name]

WorkRight(q) ==
  /\ q \in Work
  /\ q.found \subseteq image /\ q.rows \subseteq tag /\ q.had \subseteq tag
  /\ q.todo \subseteq q.tags /\ q.create \subseteq q.tags \ q.todo /\ OneEach(q.tags)
  /\ q.pc \in InSync =>
       q.page \in q.found /\ RowsOf(q.rows, q.tags \ (q.todo \union q.create))
  /\ q.pc \in {"ask", "apply"} => q.todo = {} /\ q.create = {}

WorksRight == job \in [Workers -> Work] /\ \A w \in Workers : WorkRight(job[w])

\* Of two syncs of a page neither is alone, and who is alone has read what is there.
SyncsKnown ==
  /\ \A v, w \in Workers :
       /\ v # w /\ job[v].pc \in InSync /\ job[w].pc \in InSync
       /\ job[v].page = job[w].page
       => ~job[v].alone
  /\ \A w \in Workers :
       job[w].pc = "apply" /\ job[w].alone => job[w].had = tagged[job[w].page]

\* The tags that a sync leaves, of a page that none shared with it.
Matches(ns, folds) == {Fold[n] : n \in ns} = folds /\ OneRowEach(ns)
TagsRight ==
  /\ tag \subseteq Names /\ IsFiniteSet(tag) /\ translated \subseteq tag
  /\ tagged \in [Pages -> SUBSET tag]
  /\ \A p \in Pages \ image : tagged[p] = {}
  /\ DOMAIN expected = Pages
  /\ \A p \in Pages : expected[p] # Hydration!Mixed => Matches(tagged[p], expected[p])

MetaRight ==
  /\ image \subseteq Pages /\ meta \in [Pages -> Nat] /\ learnt \subseteq image
  /\ \A p \in Pages \ image : meta[p] = Hydration!Unknown
  /\ \A p \in learnt : meta[p] # Hydration!Unknown

HydrationInv ==
  /\ WorksRight /\ SyncsKnown /\ TagsRight /\ MetaRight
  /\ jobs \in 0..MaxJobs /\ faults \in 0..MaxFaults

LEMMA HydrationConstants ==
  /\ MaxJobs \in Nat /\ MaxFaults \in Nat
  /\ \A d \in Details : d.pages \in Seq(Pages) /\ d.tags \in Seq(AnyTag)
BY HydrationAssumption DEF Hydration!HydrationAssumption, AnyTag

\* As many rows as tags, if there is one of each.
LEMMA OneRowEachCounts ==
  ASSUME NEW ns, IsFiniteSet(ns), OneRowEach(ns)
  PROVE  Cardinality(ns) = Cardinality({Fold[n] : n \in ns})
<1> DEFINE folds == {Fold[n] : n \in ns}
           f == [n \in ns |-> Fold[n]]
<1>1. f \in Bijection(ns, folds)
  BY DEF OneRowEach, Bijection, Injection, Surjection, IsInjective
<1> QED
  BY <1>1, FS_Bijection DEF ExistsBijection

LEMMA HydrationInvGives == HydrationInv => Hydration!HydrationKept /\ Hydration!TypeOK
<1> SUFFICES ASSUME HydrationInv PROVE Hydration!HydrationKept /\ Hydration!TypeOK
  OBVIOUS
<1>1. Hydration!HydrationKept
  <2>1. \A p \in learnt : meta[p] # Hydration!Unknown
    BY DEF HydrationInv, MetaRight
  <2>2. ASSUME NEW p \in Pages, expected[p] # Hydration!Mixed
        PROVE  /\ {Fold[n] : n \in tagged[p]} = expected[p]
               /\ Hydration!Cardinality(tagged[p]) = Hydration!Cardinality(expected[p])
    <3>1. Matches(tagged[p], expected[p]) /\ tagged[p] \subseteq tag /\ IsFiniteSet(tag)
      BY <2>2 DEF HydrationInv, TagsRight
    <3>2. IsFiniteSet(tagged[p])
      BY <3>1, FS_Subset
    <3>3. Cardinality(tagged[p]) = Cardinality(expected[p])
      BY <3>1, <3>2, OneRowEachCounts DEF Matches
    <3>4. /\ Hydration!Cardinality(tagged[p]) = Cardinality(tagged[p])
          /\ Hydration!Cardinality(expected[p]) = Cardinality(expected[p])
      BY DEF Hydration!Cardinality, Cardinality
    <3> QED
      BY <3>1, <3>3, <3>4 DEF Matches
  <2> QED
    BY <2>1, <2>2 DEF Hydration!HydrationKept
<1>2. Hydration!TypeOK
  <2>1. ASSUME NEW w \in Workers
        PROVE  /\ job[w].pc \in {"idle", "ask", "find", "write", "next", "tags", "apply"}
               /\ job[w].pages \in Seq(Pages) /\ job[w].found \subseteq Pages
               /\ job[w].todo \union job[w].create \subseteq job[w].tags
               /\ job[w].tags \subseteq [name: Names, translation: BOOLEAN]
               /\ job[w].rows \union job[w].had \subseteq tag
    <3>1. WorkRight(job[w])
      BY DEF HydrationInv, WorksRight
    <3> QED
      BY <3>1 DEF WorkRight, Work, AnyTag
  <2> QED
    BY <2>1 DEF HydrationInv, TagsRight, MetaRight, Hydration!TypeOK
<1> QED
  BY <1>1, <1>2

LEMMA IdleRight == WorkRight(Hydration!Idle) /\ WorkRight(Hydration!Idle)'
<1>1. Hydration!Idle \in Work
  <2> DEFINE none == << >>
  <2>1. none \in Seq(Pages)
    OBVIOUS
  <2>2. Hydration!Idle =
          [pc |-> "idle", field |-> 0, pages |-> none, tags |-> {}, found |-> {}, page |-> 0,
           todo |-> {}, create |-> {}, rows |-> {}, had |-> {}, alone |-> TRUE]
    BY DEF Hydration!Idle, Hydration!Unknown
  <2> HIDE DEF none
  <2> QED
    BY <2>1, <2>2 DEF Work
<1> QED
  BY <1>1 DEF WorkRight, Hydration!Idle, OneEach, InSync

LEMMA InitHydrationInv == Hydration!Init => HydrationInv
<1> SUFFICES ASSUME Hydration!Init PROVE HydrationInv
  OBVIOUS
<1> USE DEF Hydration!Init
<1>1. WorksRight
  BY IdleRight DEF WorksRight, WorkRight
<1>2. SyncsKnown
  BY DEF SyncsKnown, InSync, Hydration!Idle
<1>3. TagsRight
  BY FS_EmptySet DEF TagsRight, Matches, OneRowEach
<1>4. MetaRight
  BY DEF MetaRight, Hydration!Unknown
<1> QED
  BY <1>1, <1>2, <1>3, <1>4, HydrationConstants DEF HydrationInv

\* A step of one worker leaves the others' work right, as rows only come ...
LEMMA OneWork ==
  ASSUME WorksRight, NEW w \in Workers, NEW q, WorkRight(q)', job' = [job EXCEPT ![w] = q],
         image \subseteq image', tag \subseteq tag'
  PROVE  WorksRight'
<1>1. job' \in [Workers -> Work]
  BY DEF WorksRight, WorkRight
<1>2. ASSUME NEW v \in Workers PROVE WorkRight(job[v])'
  <2>1. CASE v = w
    BY <2>1 DEF WorksRight, WorkRight
  <2>2. CASE v # w
    <3>1. job'[v] = job[v] /\ WorkRight(job[v])
      BY <2>2 DEF WorksRight
    <3> QED
      BY <3>1 DEF WorkRight
  <2> QED
    BY <2>1, <2>2
<1> QED
  BY <1>1, <1>2 DEF WorksRight

\* ... and what is known of the syncs, unless one begins.
LEMMA OneSync ==
  ASSUME WorksRight, SyncsKnown, NEW w \in Workers, NEW q, job' = [job EXCEPT ![w] = q],
         q.pc \in InSync =>
           /\ job[w].pc \in InSync /\ q.page = job[w].page /\ q.alone = job[w].alone
           /\ q.pc = "apply" => q.had = tagged[q.page],
         UNCHANGED tagged
  PROVE  SyncsKnown'
<1>1. \A v \in Workers : job'[v] = IF v = w THEN q ELSE job[v]
  BY DEF WorksRight
<1>2. \A v \in Workers : job'[v].pc \in InSync =>
        job[v].pc \in InSync /\ job'[v].page = job[v].page /\ job'[v].alone = job[v].alone
  BY <1>1
<1>3. \A u, v \in Workers :
        /\ u # v /\ job'[u].pc \in InSync /\ job'[v].pc \in InSync
        /\ job'[u].page = job'[v].page
        => ~job'[u].alone
  BY <1>2 DEF SyncsKnown
<1>4. ASSUME NEW v \in Workers, job'[v].pc = "apply", job'[v].alone
      PROVE  job'[v].had = tagged'[job'[v].page]
  <2>1. CASE v = w
    BY <1>1, <1>4, <2>1 DEF InSync
  <2>2. CASE v # w
    BY <1>1, <1>4, <2>2 DEF SyncsKnown
  <2> QED
    BY <2>1, <2>2
<1> QED
  BY <1>3, <1>4 DEF SyncsKnown

LEMMA OneStep ==
  ASSUME HydrationInv, NEW w \in Workers, NEW q, WorkRight(q)', job' = [job EXCEPT ![w] = q],
         q.pc \in InSync =>
           /\ job[w].pc \in InSync /\ q.page = job[w].page /\ q.alone = job[w].alone
           /\ q.pc = "apply" => q.had = tagged[q.page],
         UNCHANGED <<image, tag, translated, tagged, expected, meta, learnt>>,
         jobs' \in 0..MaxJobs, faults' \in 0..MaxFaults
  PROVE  HydrationInv'
<1>1. WorksRight'
  BY OneWork DEF HydrationInv
<1>2. SyncsKnown'
  BY OneSync DEF HydrationInv
<1>3. TagsRight'
  BY DEF HydrationInv, TagsRight
<1>4. MetaRight'
  BY DEF HydrationInv, MetaRight
<1> QED
  BY <1>1, <1>2, <1>3, <1>4 DEF HydrationInv

\* normalizePixivTags: of names that differ only in case one is left.
LEMMA NormalizedRight ==
  ASSUME NEW ts \in Seq(AnyTag)
  PROVE  Hydration!Normalized(ts) \in SUBSET AnyTag /\ OneEach(Hydration!Normalized(ts))
<1> DEFINE First(i) == \A k \in 1..i - 1 : Fold[ts[k].name] # Fold[ts[i].name]
           Given(i) == \E k \in DOMAIN ts : Fold[ts[k].name] = Fold[ts[i].name] /\ ts[k].translation
           Of(i) == [name |-> ts[i].name, translation |-> Given(i)]
<1>1. DOMAIN ts = 1..Len(ts) /\ Len(ts) \in Nat /\ \A i \in DOMAIN ts : ts[i] \in AnyTag
  OBVIOUS
<1>2. Hydration!Normalized(ts) = {Of(i) : i \in {j \in DOMAIN ts : First(j)}}
  BY DEF Hydration!Normalized
<1>3. \A i \in DOMAIN ts : Of(i) \in AnyTag /\ Of(i).name = ts[i].name
  BY <1>1 DEF AnyTag
<1>4. ASSUME NEW i \in DOMAIN ts, NEW j \in DOMAIN ts, First(i), First(j),
             Fold[ts[i].name] = Fold[ts[j].name]
      PROVE  i = j
  BY <1>1, <1>4
<1>5. ASSUME NEW s \in Hydration!Normalized(ts), NEW t \in Hydration!Normalized(ts), SameTag(s, t)
      PROVE  s = t
  <2>1. PICK i \in DOMAIN ts : First(i) /\ s = Of(i)
    BY <1>2
  <2>2. PICK j \in DOMAIN ts : First(j) /\ t = Of(j)
    BY <1>2
  <2>3. Fold[ts[i].name] = Fold[ts[j].name]
    BY <1>3, <1>5, <2>1, <2>2 DEF SameTag
  <2> QED
    BY <1>4, <2>1, <2>2, <2>3
<1> QED
  BY <1>2, <1>3, <1>5 DEF OneEach

LEMMA AskSteps ==
  ASSUME HydrationInv, NEW w \in Workers,
         \/ Hydration!Start(w) \/ Hydration!JobFails(w) \/ Hydration!Hydrate(w)
         \/ Hydration!FindImages(w)
  PROVE  HydrationInv'
<1> USE HydrationConstants
<1>1. job[w] \in Work /\ WorkRight(job[w]) /\ jobs \in 0..MaxJobs /\ faults \in 0..MaxFaults
  BY DEF HydrationInv, WorksRight
<1>2. CASE Hydration!Start(w)
  <2> DEFINE q == [Hydration!Idle EXCEPT !.pc = "ask"]
  <2>1. q \in Work /\ q.pc = "ask" /\ q.tags = {} /\ q.found = {} /\ q.rows = {} /\ q.had = {}
        /\ q.todo = {} /\ q.create = {}
    BY IdleRight DEF WorkRight, Work, Hydration!Idle
  <2>2. job' = [job EXCEPT ![w] = q] /\ UNCHANGED <<image, tag>>
        /\ UNCHANGED <<image, tag, translated, tagged, expected, meta, learnt>>
        /\ jobs' = jobs + 1 /\ jobs < MaxJobs /\ faults' = faults
    BY <1>2 DEF Hydration!Start, Hydration!tables, Hydration!seen
  <2> HIDE DEF q
  <2>3. WorkRight(q)' /\ q.pc \notin InSync
    BY <2>1 DEF WorkRight, InSync, OneEach
  <2>4. jobs' \in 0..MaxJobs /\ faults' \in 0..MaxFaults
    BY <1>1, <2>2
  <2> QED
    BY <2>2, <2>3, <2>4, OneStep
<1>3. CASE Hydration!JobFails(w)
  <2>1. job' = [job EXCEPT ![w] = Hydration!Idle]
        /\ UNCHANGED <<image, tag, translated, tagged, expected, meta, learnt>>
        /\ jobs' = jobs /\ faults' = faults + 1 /\ faults < MaxFaults
    BY <1>3 DEF Hydration!JobFails, Hydration!Fault, Hydration!tables, Hydration!seen
  <2>2. WorkRight(Hydration!Idle)' /\ Hydration!Idle.pc \notin InSync
    BY IdleRight DEF Hydration!Idle, InSync
  <2>3. jobs' \in 0..MaxJobs /\ faults' \in 0..MaxFaults
    BY <1>1, <2>1
  <2> QED
    BY <2>1, <2>2, <2>3, OneStep
<1>4. CASE Hydration!Hydrate(w)
  <2> DEFINE Read(d) == [job[w] EXCEPT !.field = Hydration!Field(d.x_restrict),
                           !.tags = Hydration!Normalized(d.tags), !.pages = d.pages,
                           !.pc = IF d.tags = << >> THEN "write" ELSE "find"]
  <2>1. PICK d \in Details :
          job' = [job EXCEPT ![w] = IF ~Hydration!Complete(d) THEN Hydration!Idle ELSE Read(d)]
    BY Zenon, <1>4 DEF Hydration!Hydrate
  <2>2. job[w].pc = "ask" /\ UNCHANGED <<image, tag, translated, tagged, expected, meta, learnt>>
        /\ jobs' = jobs /\ faults' = faults
    BY Zenon, <1>4 DEF Hydration!Hydrate, Hydration!tables, Hydration!bound, Hydration!seen
  <2>3. CASE ~Hydration!Complete(d)
    <3>1. job' = [job EXCEPT ![w] = Hydration!Idle]
      BY <2>1, <2>3
    <3>2. WorkRight(Hydration!Idle)' /\ Hydration!Idle.pc \notin InSync
      BY IdleRight DEF Hydration!Idle, InSync
    <3> QED
      BY <1>1, <2>2, <3>1, <3>2, OneStep
  <2>4. CASE Hydration!Complete(d)
    <3> DEFINE field == Hydration!Field(d.x_restrict)
               tags1 == Hydration!Normalized(d.tags)
               pages1 == d.pages
               pc1   == IF d.tags = << >> THEN "write" ELSE "find"
               m == [job[w] EXCEPT !.field = field, !.tags = tags1]
    <3>1. PICK q : q = [m EXCEPT !.pages = pages1, !.pc = pc1] /\ job' = [job EXCEPT ![w] = q]
      <4>1. [m EXCEPT !.pages = pages1, !.pc = pc1] = Read(d)
        BY <1>1 DEF Work
      <4> QED
        BY <2>1, <2>4, <4>1
    <3>2. field \in Nat /\ pages1 \in Seq(Pages) /\ pc1 \in {"write", "find"}
      BY DEF Hydration!Field, Hydration!Unknown
    <3>3. tags1 \in SUBSET AnyTag /\ OneEach(tags1)
      BY NormalizedRight
    <3> HIDE DEF field, tags1, pages1, pc1
    <3>4. m \in Work /\ m.tags = tags1 /\ m.found = job[w].found /\ m.todo = job[w].todo
          /\ m.create = job[w].create /\ m.rows = job[w].rows /\ m.had = job[w].had
      BY <1>1, <3>2, <3>3 DEF Work
    <3> HIDE DEF m
    <3>5. q \in Work /\ q.pc = pc1 /\ q.tags = m.tags /\ q.found = m.found /\ q.todo = m.todo
          /\ q.create = m.create /\ q.rows = m.rows /\ q.had = m.had
      BY <3>1, <3>2, <3>4 DEF Work
    <3>6. job[w].todo = {} /\ job[w].create = {}
      BY <1>1, <2>2 DEF WorkRight
    <3>7. WorkRight(q)' /\ q.pc \notin InSync
      BY <1>1, <2>2, <3>2, <3>3, <3>4, <3>5, <3>6 DEF WorkRight, InSync
    <3> QED
      BY <1>1, <2>2, <3>1, <3>7, OneStep
  <2> QED
    BY <2>3, <2>4
<1>5. CASE Hydration!FindImages(w)
  <2> DEFINE found == image \intersect Hydration!Range(job[w].pages)
  <2>1. PICK q : q = [job[w] EXCEPT !.pc = "write", !.found = found]
                 /\ job' = [job EXCEPT ![w] = q]
    BY <1>5 DEF Hydration!FindImages
  <2>2. job[w].pc = "find"
        /\ UNCHANGED <<image, tag, translated, tagged, expected, meta, learnt>>
        /\ jobs' = jobs /\ faults' = faults
    BY <1>5 DEF Hydration!FindImages, Hydration!tables, Hydration!bound, Hydration!seen
  <2>3. found \subseteq image /\ image \subseteq Pages
    BY DEF HydrationInv, MetaRight
  <2> HIDE DEF found
  <2>4. q \in Work /\ q.pc = "write" /\ q.tags = job[w].tags /\ q.found = found
        /\ q.todo = job[w].todo /\ q.create = job[w].create /\ q.rows = job[w].rows
        /\ q.had = job[w].had
    BY <1>1, <2>1, <2>3 DEF Work
  <2>5. WorkRight(q)' /\ q.pc \notin InSync
    BY <1>1, <2>2, <2>3, <2>4 DEF WorkRight, InSync
  <2> QED
    BY <1>1, <2>2, <2>1, <2>5, OneStep
<1> QED
  BY <1>2, <1>3, <1>4, <1>5

LEMMA PersistStep ==
  ASSUME HydrationInv, NEW w \in Workers, Hydration!Persist(w)
  PROVE  HydrationInv'
<1>1. job[w] \in Work /\ WorkRight(job[w]) /\ MetaRight
  BY DEF HydrationInv, WorksRight
<1>2. PICK q : q = [job[w] EXCEPT !.pc = "next"] /\ job' = [job EXCEPT ![w] = q]
  BY DEF Hydration!Persist, Hydration!Goto
<1>3. UNCHANGED <<image, tag, translated, tagged, expected, jobs, faults>> /\ job[w].pc = "write"
      /\ meta' = [p \in Pages |-> IF Hydration!Learns(w, p) THEN job[w].field ELSE meta[p]]
      /\ learnt' = learnt \union {p \in Pages : Hydration!Learns(w, p)}
  BY DEF Hydration!Persist, Hydration!bound
<1>4. q \in Work /\ q.pc = "next" /\ q.tags = job[w].tags /\ q.found = job[w].found
      /\ q.todo = job[w].todo /\ q.create = job[w].create /\ q.rows = job[w].rows
      /\ q.had = job[w].had
  BY <1>1, <1>2 DEF Work
<1>5. WorkRight(q)' /\ q.pc \notin InSync
  BY <1>1, <1>3, <1>4 DEF WorkRight, InSync
<1>6. WorksRight'
  BY <1>2, <1>3, <1>5, OneWork DEF HydrationInv
<1>7. SyncsKnown'
  BY <1>2, <1>3, <1>5, OneSync DEF HydrationInv
<1>8. TagsRight'
  BY <1>3 DEF HydrationInv, TagsRight
<1>9. MetaRight'
  <2>1. \A p \in Pages : Hydration!Learns(w, p) => p \in image /\ job[w].field # Hydration!Unknown
    BY DEF Hydration!Learns
  <2>2. job[w].field \in Nat
    BY <1>1 DEF Work
  <2>3. /\ meta' \in [Pages -> Nat]
        /\ \A p \in Pages : meta'[p] = IF Hydration!Learns(w, p) THEN job[w].field ELSE meta[p]
    BY <1>1, <1>3, <2>2 DEF MetaRight
  <2>4. learnt' \subseteq image /\ \A p \in learnt' : p \in learnt \/ Hydration!Learns(w, p)
    BY <1>1, <1>3, <2>1, Zenon DEF MetaRight
  <2> QED
    BY <1>1, <1>3, <2>1, <2>3, <2>4 DEF MetaRight
<1> QED
  BY <1>3, <1>6, <1>7, <1>8, <1>9 DEF HydrationInv

\* A sync begins, of a page that no other syncs or with those that do.
LEMMA NextPageStep ==
  ASSUME HydrationInv, NEW w \in Workers, Hydration!NextPage(w)
  PROVE  HydrationInv'
<1>1. job[w] \in Work /\ WorkRight(job[w]) /\ WorksRight /\ SyncsKnown
  BY Zenon DEF HydrationInv, WorksRight
<1>2. UNCHANGED <<image, tag, translated, tagged, expected, meta, learnt, jobs, faults>>
      /\ job[w].pc = "next"
  BY Zenon DEF Hydration!NextPage, Hydration!tables, Hydration!bound, Hydration!seen
<1> DEFINE at == {k \in DOMAIN job[w].pages : job[w].pages[k] \in job[w].found}
           Alone(p) == ~\E u \in Workers \ {w} : Hydration!Syncing(u, p)
           Begun(k, p) == [job[w] EXCEPT !.pc = "tags", !.page = p,
                              !.pages = SubSeq(job[w].pages, k + 1, Len(job[w].pages)),
                              !.todo = job[w].tags, !.create = {}, !.rows = {},
                              !.alone = Alone(p)]
           Crowded(v) == [job[v] EXCEPT !.alone = FALSE]
<1>3. CASE job' = [job EXCEPT ![w] = Hydration!Idle]
  <2>1. WorkRight(Hydration!Idle)' /\ Hydration!Idle.pc \notin InSync
    BY IdleRight DEF Hydration!Idle, InSync
  <2>2. jobs' \in 0..MaxJobs /\ faults' \in 0..MaxFaults
    BY <1>2 DEF HydrationInv
  <2> QED
    BY <1>2, <1>3, <2>1, <2>2, OneStep
<1>4. ASSUME NEW k \in at,
             job' = [v \in Workers |->
                       IF v = w THEN Begun(k, job[w].pages[k])
                       ELSE IF Hydration!Syncing(v, job[w].pages[k]) THEN Crowded(v) ELSE job[v]]
      PROVE  HydrationInv'
  <2>1. PICK p : p = job[w].pages[k] /\ p \in job[w].found
    BY Zenon, <1>4
  <2> DEFINE rest  == SubSeq(job[w].pages, k + 1, Len(job[w].pages))
             alone == Alone(p)
             todo  == job[w].tags
             m     == [job[w] EXCEPT !.page = p, !.pages = rest, !.alone = alone]
  <2>2. p \in Pages /\ rest \in Seq(Pages) /\ alone \in BOOLEAN /\ todo \in SUBSET AnyTag
        /\ OneEach(todo)
    <3>1. PICK pages1 \in Seq(Pages) : pages1 = job[w].pages
      BY <1>1 DEF Work
    <3>2. k \in DOMAIN pages1
      BY Zenon, <1>4, <3>1
    <3>3. SubSeq(pages1, k + 1, Len(pages1)) \in Seq(Pages)
      BY <3>2, SMTT(30)
    <3> QED
      BY <1>1, <2>1, <3>1, <3>3 DEF Work, WorkRight
  <2>3. PICK q : q = Begun(k, p) /\ q = [m EXCEPT !.pc = "tags", !.todo = todo, !.create = {},
                                                  !.rows = {}]
    <3>1. Begun(k, p) = [m EXCEPT !.pc = "tags", !.todo = todo, !.create = {}, !.rows = {}]
      BY <1>1 DEF Work
    <3> QED
      BY Zenon, <3>1
  <2>4. /\ \A v \in Workers :
             job'[v] = IF v = w THEN q ELSE IF Hydration!Syncing(v, p) THEN Crowded(v) ELSE job[v]
        /\ job' = [v \in Workers |-> job'[v]]
    BY <1>4, <2>1, <2>3, Zenon
  <2> HIDE DEF rest, todo
  <2>5. alone => \A u \in Workers : u # w => ~Hydration!Syncing(u, p)
    OBVIOUS
  <2> HIDE DEF alone
  <2>6. m \in Work /\ m.page = p /\ m.alone = alone /\ m.tags = job[w].tags
        /\ m.found = job[w].found /\ m.had = job[w].had
    BY <1>1, <2>2 DEF Work
  <2> HIDE DEF m
  <2> DEFINE n == [m EXCEPT !.pc = "tags", !.todo = todo]
  <2>7. n \in Work /\ n.page = p /\ n.pc = "tags" /\ n.todo = todo /\ n.alone = alone
        /\ n.tags = job[w].tags /\ n.found = job[w].found /\ n.had = job[w].had
    BY <2>2, <2>6 DEF Work
  <2>8. q = [n EXCEPT !.create = {}, !.rows = {}]
    BY <2>3, <2>6, <2>7 DEF Work
  <2> HIDE DEF n
  <2>9. q \in Work /\ q.page = p /\ q.pc = "tags" /\ q.todo = todo /\ q.create = {} /\ q.rows = {}
        /\ q.alone = alone /\ q.tags = job[w].tags /\ q.found = job[w].found /\ q.had = job[w].had
    BY <2>7, <2>8 DEF Work
  <2>10. WorkRight(q)'
    <3>1. RowsOf({}, {})
      BY DEF RowsOf, OneRowEach
    <3>2. q.tags \ (q.todo \union q.create) = {}
      BY <2>9 DEF todo
    <3> QED
      BY <1>1, <1>2, <2>1, <2>2, <2>9, <3>1, <3>2 DEF WorkRight, InSync, todo
  <2>11. ASSUME NEW v \in Workers, v # w
         PROVE  /\ job'[v] \in Work /\ WorkRight(job'[v])
                /\ job'[v].pc = job[v].pc /\ job'[v].page = job[v].page
                /\ job'[v].had = job[v].had
                /\ job'[v].alone => job[v].alone
                /\ Hydration!Syncing(v, p) => ~job'[v].alone
    <3>1. job[v] \in Work /\ WorkRight(job[v])
      BY <1>1 DEF WorksRight
    <3>2. CASE Hydration!Syncing(v, p)
      <4>1. job'[v] = Crowded(v)
        BY <2>4, <2>11, <3>2
      <4> QED
        BY <3>1, <4>1 DEF Work, WorkRight
    <3>3. CASE ~Hydration!Syncing(v, p)
      <4>1. job'[v] = job[v]
        BY <2>4, <2>11, <3>3
      <4> QED
        BY <3>1, <3>3, <4>1
    <3> QED
      BY <3>2, <3>3
  <2>12. WorksRight'
    <3>1. job'[w] = q
      BY <2>4
    <3>2. \A v \in Workers : job'[v] \in Work
      BY <2>9, <2>11, <3>1
    <3>3. \A v \in Workers : WorkRight(job[v])'
      BY <1>2, <2>10, <2>11, <3>1 DEF WorkRight
    <3> QED
      BY <2>4, <3>2, <3>3 DEF WorksRight
  <2>13. SyncsKnown'
    <3>1. job'[w].pc = "tags" /\ job'[w].page = p /\ job'[w].alone = alone
      BY <2>4, <2>9
    <3>2. \A v \in Workers : v # w =>
            (Hydration!Syncing(v, p) <=> job'[v].pc \in InSync /\ job'[v].page = p)
      BY <2>11 DEF Hydration!Syncing, InSync
    <3>3. ASSUME NEW u \in Workers, NEW v \in Workers, u # v, job'[u].pc \in InSync,
                 job'[v].pc \in InSync, job'[u].page = job'[v].page
          PROVE  ~job'[u].alone
      <4>1. CASE u = w
        BY <2>5, <3>1, <3>2, <3>3, <4>1
      <4>2. CASE v = w
        BY <2>11, <3>1, <3>2, <3>3, <4>2
      <4>3. CASE u # w /\ v # w
        BY <1>1, <2>11, <3>3, <4>3 DEF SyncsKnown
      <4> QED
        BY <4>1, <4>2, <4>3
    <3>4. \A v \in Workers :
            job'[v].pc = "apply" /\ job'[v].alone => job'[v].had = tagged'[job'[v].page]
      BY <1>1, <1>2, <2>11, <3>1 DEF SyncsKnown
    <3> QED
      BY <3>3, <3>4 DEF SyncsKnown
  <2> QED
    BY <1>2, <2>12, <2>13 DEF HydrationInv, TagsRight, MetaRight
<1> QED
  BY Zenon, <1>3, <1>4 DEF Hydration!NextPage

LEMMA OneMoreRow ==
  ASSUME NEW ns, NEW ts, RowsOf(ns, ts), NEW t, \A s \in ts : ~SameTag(s, t),
         NEW n, Fold[n] = Fold[t.name]
  PROVE  RowsOf(ns \union {n}, ts \union {t})
BY DEF RowsOf, OneRowEach, SameTag

\* A tag of a sync is found, or made.
LEMMA TagSteps ==
  ASSUME HydrationInv, NEW w \in Workers,
         \/ \E t \in job[w].todo : Hydration!FindTag(w, t)
         \/ \E t \in job[w].create : Hydration!CreateTag(w, t)
  PROVE  HydrationInv'
<1>1. job[w] \in Work /\ WorkRight(job[w]) /\ TagsRight /\ MetaRight /\ job[w].pc = "tags"
      /\ RowsOf(job[w].rows, job[w].tags \ (job[w].todo \union job[w].create))
  <2>1. WorkRight(job[w]) /\ TagsRight /\ MetaRight
    BY DEF HydrationInv, WorksRight
  <2>2. job[w].pc = "tags"
    BY DEF Hydration!FindTag, Hydration!CreateTag
  <2> QED
    BY <2>1, <2>2 DEF WorkRight, InSync
<1>2. UNCHANGED <<image, tagged, expected, meta, learnt, jobs, faults>>
  BY DEF Hydration!FindTag, Hydration!CreateTag, Hydration!bound, Hydration!seen
<1>3. ASSUME NEW q, WorkRight(q)', job' = [job EXCEPT ![w] = q], tag \subseteq tag',
             q.pc \in InSync => q.pc = "tags" /\ q.page = job[w].page /\ q.alone = job[w].alone,
             tag' \subseteq Names, IsFiniteSet(tag'), translated' \subseteq tag'
      PROVE  HydrationInv'
  <2>1. WorksRight'
    BY <1>2, <1>3, OneWork, Zenon DEF HydrationInv
  <2>2. SyncsKnown'
    BY <1>1, <1>2, <1>3, OneSync DEF HydrationInv, InSync
  <2>3. TagsRight'
    BY <1>1, <1>2, <1>3 DEF TagsRight
  <2> QED
    BY <1>2, <2>1, <2>2, <2>3 DEF HydrationInv, MetaRight
<1>4. ASSUME NEW t \in job[w].todo, Hydration!FindTag(w, t) PROVE HydrationInv'
  <2>1. t \in AnyTag /\ t \in job[w].tags /\ t \notin job[w].create /\ tag' = tag
    BY <1>1, <1>4 DEF WorkRight, Work, Hydration!FindTag
  <2> DEFINE found == {n \in tag : Fold[n] = Fold[t.name]}
             todo   == job[w].todo \ {t}
  <2>2. todo \in SUBSET AnyTag
    BY <1>1 DEF Work
  <2>3. CASE found = {}
    <3> DEFINE create == job[w].create \union {t}
    <3>1. PICK q : q = [job[w] EXCEPT !.todo = todo, !.create = create]
                   /\ job' = [job EXCEPT ![w] = q] /\ translated' = translated
      BY <1>4, <2>3 DEF Hydration!FindTag
    <3>2. create \in SUBSET AnyTag /\ todo \union create = job[w].todo \union job[w].create
          /\ todo \subseteq job[w].tags /\ create \subseteq job[w].tags \ todo
      BY <1>1, <2>1 DEF Work, WorkRight
    <3> HIDE DEF todo, create
    <3>3. q \in Work /\ q.pc = "tags" /\ q.page = job[w].page /\ q.alone = job[w].alone
          /\ q.tags = job[w].tags /\ q.found = job[w].found /\ q.rows = job[w].rows
          /\ q.had = job[w].had /\ q.todo = todo /\ q.create = create
      BY <1>1, <2>2, <3>1, <3>2 DEF Work
    <3>4. WorkRight(q)'
      BY <1>1, <1>2, <2>1, <3>2, <3>3 DEF WorkRight, InSync
    <3> QED
      BY <1>1, <1>3, <2>1, <3>1, <3>3, <3>4 DEF TagsRight
  <2>4. CASE found # {}
    <3>1. PICK n \in found :
            /\ job' = [job EXCEPT ![w].todo = @ \ {t}, ![w].rows = @ \union {n}]
            /\ translated' = IF t.translation THEN translated \union {n} ELSE translated
      BY <1>4, <2>4 DEF Hydration!FindTag
    <3> DEFINE rows == job[w].rows \union {n}
    <3>2. PICK q : q = [job[w] EXCEPT !.todo = todo, !.rows = rows]
                   /\ job' = [job EXCEPT ![w] = q]
      BY <3>1
    <3>3. rows \in SUBSET Names /\ rows \subseteq tag /\ n \in tag
      BY <1>1 DEF Work, WorkRight, TagsRight
    <3>4. RowsOf(rows, job[w].tags \ (todo \union job[w].create))
      <4> DEFINE ts == job[w].tags \ (job[w].todo \union job[w].create)
      <4>1. \A s \in ts : ~SameTag(s, t)
        BY <1>1, <2>1 DEF WorkRight, OneEach
      <4>2. ts \union {t} = job[w].tags \ (todo \union job[w].create)
        BY <1>1, <2>1
      <4>3. RowsOf(rows, ts \union {t})
        <5> HIDE DEF ts
        <5> QED
          BY <1>1, <4>1, OneMoreRow DEF ts
      <4> QED
        BY <4>2, <4>3
    <3>5. todo \subseteq job[w].tags /\ job[w].create \subseteq job[w].tags \ todo
      BY <1>1 DEF WorkRight
    <3> HIDE DEF todo, rows
    <3>6. q \in Work /\ q.pc = "tags" /\ q.page = job[w].page /\ q.alone = job[w].alone
          /\ q.tags = job[w].tags /\ q.found = job[w].found /\ q.rows = rows
          /\ q.had = job[w].had /\ q.todo = todo /\ q.create = job[w].create
      BY <1>1, <2>2, <3>2, <3>3 DEF Work
    <3>7. WorkRight(q)'
      BY <1>1, <1>2, <2>1, <3>3, <3>4, <3>5, <3>6 DEF WorkRight, InSync
    <3> QED
      BY <1>1, <1>3, <2>1, <3>1, <3>2, <3>3, <3>6, <3>7, Zenon DEF TagsRight
  <2> QED
    BY <2>3, <2>4
<1>5. ASSUME NEW t \in job[w].create, Hydration!CreateTag(w, t) PROVE HydrationInv'
  <2>1. t \in AnyTag /\ t \in job[w].tags /\ t.name \in Names /\ t \notin job[w].todo
    BY <1>1 DEF WorkRight, Work, AnyTag
  <2>2. CASE t.name \in tag
    <3>1. job' = [job EXCEPT ![w] = Hydration!Idle] /\ UNCHANGED <<tag, translated>>
      BY <1>5, <2>2 DEF Hydration!CreateTag
    <3>2. WorkRight(Hydration!Idle)' /\ Hydration!Idle.pc \notin InSync
      BY IdleRight DEF Hydration!Idle, InSync
    <3> QED
      BY <1>1, <1>3, <3>1, <3>2 DEF TagsRight
  <2>3. CASE t.name \notin tag
    <3> DEFINE create == job[w].create \ {t}
               rows   == job[w].rows \union {t.name}
    <3>1. /\ tag' = tag \union {t.name}
          /\ translated' = IF t.translation THEN translated \union {t.name} ELSE translated
          /\ job' = [job EXCEPT ![w].create = @ \ {t}, ![w].rows = @ \union {t.name}]
      BY <1>5, <2>3 DEF Hydration!CreateTag
    <3>2. PICK q : q = [job[w] EXCEPT !.create = create, !.rows = rows]
                   /\ job' = [job EXCEPT ![w] = q]
      BY <3>1
    <3>3. create \in SUBSET AnyTag /\ rows \in SUBSET Names /\ rows \subseteq tag'
          /\ create \subseteq job[w].tags \ job[w].todo /\ job[w].had \subseteq tag'
      BY <1>1, <2>1, <3>1 DEF Work, WorkRight
    <3>4. RowsOf(rows, job[w].tags \ (job[w].todo \union create))
      <4> DEFINE ts == job[w].tags \ (job[w].todo \union job[w].create)
      <4>1. \A s \in ts : ~SameTag(s, t)
        BY <1>1, <2>1 DEF WorkRight, OneEach
      <4>2. ts \union {t} = job[w].tags \ (job[w].todo \union create)
        BY <1>1, <2>1
      <4>3. RowsOf(rows, ts \union {t})
        <5> HIDE DEF ts
        <5> QED
          BY <1>1, <4>1, OneMoreRow DEF ts
      <4> QED
        BY <4>2, <4>3
    <3> HIDE DEF create, rows
    <3>5. q \in Work /\ q.pc = "tags" /\ q.page = job[w].page /\ q.alone = job[w].alone
          /\ q.tags = job[w].tags /\ q.found = job[w].found /\ q.rows = rows
          /\ q.had = job[w].had /\ q.todo = job[w].todo /\ q.create = create
      BY <1>1, <3>2, <3>3 DEF Work
    <3>6. WorkRight(q)'
      BY <1>1, <1>2, <3>3, <3>4, <3>5 DEF WorkRight, InSync
    <3>7. tag \subseteq tag' /\ tag' \subseteq Names /\ translated' \subseteq tag'
      BY <1>1, <2>1, <3>1 DEF TagsRight
    <3>8. IsFiniteSet(tag')
      BY <1>1, <3>1, FS_AddElement DEF TagsRight
    <3> QED
      BY <1>3, <3>2, <3>5, <3>6, <3>7, <3>8
  <2> QED
    BY <2>2, <2>3
<1> QED
  BY <1>4, <1>5

\* A sync that none overlapped leaves the rows it found and made.
LEMMA SyncEnds ==
  ASSUME HydrationInv, NEW w \in Workers, job[w].pc \in InSync,
         job[w].todo = {}, job[w].create = {}, NEW ns \in SUBSET tag,
         job[w].alone => ns = job[w].rows,
         tagged' = [tagged EXCEPT ![job[w].page] = ns], Hydration!Ended(w),
         UNCHANGED <<image, tag, translated>>
  PROVE  TagsRight'
<1>1. job[w] \in Work /\ WorkRight(job[w]) /\ TagsRight /\ MetaRight
  BY DEF HydrationInv, WorksRight
<1>2. PICK p0 \in Pages : p0 = job[w].page /\ p0 \in image
  BY <1>1 DEF WorkRight, MetaRight
<1> DEFINE folds == {Fold[t.name] : t \in job[w].tags}
<1>3. expected' = [expected EXCEPT ![p0] = IF job[w].alone THEN folds ELSE Hydration!Mixed]
  BY <1>2 DEF Hydration!Ended
<1>4. tagged' = [tagged EXCEPT ![p0] = ns]
  BY <1>2
<1>5. RowsOf(job[w].rows, job[w].tags)
  BY <1>1 DEF WorkRight
<1>6. Matches(job[w].rows, folds)
  BY <1>5 DEF Matches, RowsOf
<1> HIDE DEF folds
<1>7. \A p \in Pages : expected'[p] # Hydration!Mixed => Matches(tagged'[p], expected'[p])
  BY <1>1, <1>3, <1>4, <1>6 DEF TagsRight
<1>8. tagged' \in [Pages -> SUBSET tag] /\ DOMAIN expected' = Pages
      /\ \A p \in Pages \ image : tagged'[p] = {}
  BY <1>1, <1>2, <1>3, <1>4 DEF TagsRight
<1> QED
  BY <1>1, <1>7, <1>8 DEF TagsRight

LEMMA EndSteps ==
  ASSUME HydrationInv, NEW w \in Workers, Hydration!ReadTags(w) \/ Hydration!Apply(w)
  PROVE  HydrationInv'
<1>1. job[w] \in Work /\ WorkRight(job[w]) /\ TagsRight /\ MetaRight /\ SyncsKnown /\ WorksRight
      /\ jobs \in 0..MaxJobs /\ faults \in 0..MaxFaults
  BY DEF HydrationInv, WorksRight
<1>2. UNCHANGED <<image, tag, translated, meta, learnt, jobs, faults>>
  BY DEF Hydration!ReadTags, Hydration!Apply, Hydration!tables, Hydration!bound
<1>3. CASE Hydration!ReadTags(w)
  <2>1. job[w].pc = "tags" /\ job[w].todo = {} /\ job[w].create = {} /\ tagged' = tagged
    BY <1>3 DEF Hydration!ReadTags, Hydration!tables
  <2>2. job[w].page \in Pages /\ tagged[job[w].page] \in SUBSET tag
    BY <1>1, <2>1 DEF WorkRight, InSync, MetaRight, TagsRight
  <2>3. CASE tagged[job[w].page] = job[w].rows
    <3>1. PICK q : q = [job[w] EXCEPT !.pc = "next"] /\ job' = [job EXCEPT ![w] = q]
      BY <1>3, <2>3 DEF Hydration!ReadTags, Hydration!Goto
    <3>2. q \in Work /\ q.pc = "next" /\ q.tags = job[w].tags /\ q.found = job[w].found
          /\ q.todo = job[w].todo /\ q.create = job[w].create /\ q.rows = job[w].rows
          /\ q.had = job[w].had
      BY <1>1, <3>1 DEF Work
    <3>3. WorkRight(q)' /\ q.pc \notin InSync
      BY <1>1, <1>2, <3>2 DEF WorkRight, InSync
    <3>4. WorksRight'
      BY <1>1, <1>2, <3>1, <3>3, OneWork, Zenon
    <3>5. SyncsKnown'
      BY <1>1, <2>1, <3>1, <3>3, OneSync
    <3>6. TagsRight'
      <4>1. Hydration!Ended(w)
        BY <1>3, <2>3 DEF Hydration!ReadTags
      <4>2. tagged' = [tagged EXCEPT ![job[w].page] = tagged[job[w].page]]
        BY <1>1, <2>1 DEF TagsRight
      <4>3. PICK ns \in SUBSET tag : ns = tagged[job[w].page]
        BY <2>2
      <4> QED
        BY <1>2, <2>1, <2>3, <4>1, <4>2, <4>3, SyncEnds DEF InSync
    <3> QED
      BY <1>1, <1>2, <3>4, <3>5, <3>6 DEF HydrationInv, MetaRight
  <2>4. CASE tagged[job[w].page] # job[w].rows
    <3> DEFINE had == tagged[job[w].page]
    <3>1. PICK q : q = [job[w] EXCEPT !.pc = "apply", !.had = had] /\ job' = [job EXCEPT ![w] = q]
                   /\ expected' = expected
      BY <1>3, <2>4 DEF Hydration!ReadTags
    <3>2. had \in SUBSET Names /\ had \subseteq tag
      BY <1>1, <2>2 DEF TagsRight
    <3> HIDE DEF had
    <3>3. q \in Work /\ q.pc = "apply" /\ q.tags = job[w].tags /\ q.found = job[w].found
          /\ q.todo = {} /\ q.create = {} /\ q.rows = job[w].rows /\ q.page = job[w].page
          /\ q.alone = job[w].alone /\ q.had = had
      BY <1>1, <2>1, <3>1, <3>2 DEF Work
    <3>4. WorkRight(q)'
      BY <1>1, <1>2, <2>1, <3>2, <3>3 DEF WorkRight, InSync
    <3>5. job[w].pc \in InSync /\ q.had = tagged[q.page]
      BY <2>1, <3>3 DEF InSync, had
    <3> QED
      BY <1>1, <1>2, <2>1, <3>1, <3>3, <3>4, <3>5, OneStep
  <2> QED
    BY <2>3, <2>4
<1>4. CASE Hydration!Apply(w)
  <2> DEFINE j == job[w]
             ns == (tagged[j.page] \union (j.rows \ j.had)) \ (j.had \ j.rows)
  <2>1. j.pc = "apply" /\ j.todo = {} /\ j.create = {}
    BY <1>1, <1>4 DEF Hydration!Apply, WorkRight
  <2>2. j.page \in Pages /\ tagged[j.page] \in SUBSET tag
    BY <1>1, <2>1 DEF WorkRight, InSync, MetaRight, TagsRight
  <2>3. PICK new \in SUBSET tag : new = ns /\ tagged' = [tagged EXCEPT ![j.page] = new]
    BY <1>1, <1>4, <2>2 DEF Hydration!Apply, WorkRight
  <2>4. j.alone => new = j.rows
    BY <1>1, <2>1, <2>3 DEF SyncsKnown
  <2>5. TagsRight'
    BY <1>2, <1>4, <2>1, <2>3, <2>4, SyncEnds, Zenon DEF Hydration!Apply, InSync
  <2>6. PICK q : q = [job[w] EXCEPT !.pc = "next", !.had = {}] /\ job' = [job EXCEPT ![w] = q]
    BY <1>4, Zenon DEF Hydration!Apply
  <2>7. q \in Work /\ q.pc = "next" /\ q.tags = job[w].tags /\ q.found = job[w].found
        /\ q.todo = job[w].todo /\ q.create = job[w].create /\ q.rows = job[w].rows /\ q.had = {}
    BY <1>1, <2>6 DEF Work
  <2>8. WorkRight(q)' /\ q.pc \notin InSync
    BY <1>1, <1>2, <2>7 DEF WorkRight, InSync
  <2>9. WorksRight'
    BY <1>1, <1>2, <2>6, <2>8, OneWork
  <2>10. SyncsKnown'
    <3>1. \A v \in Workers : job'[v] = IF v = w THEN q ELSE job[v]
      BY <1>1, <2>6 DEF WorksRight
    <3>2. \A v \in Workers : job'[v].pc \in InSync => v # w /\ job'[v] = job[v]
      BY <2>8, <3>1
    <3>3. ASSUME NEW v \in Workers, job'[v].pc = "apply", job'[v].alone
          PROVE  job'[v].had = tagged'[job'[v].page]
      <4>1. v # w /\ job'[v] = job[v] /\ job[v].had = tagged[job[v].page]
        BY <1>1, <3>2, <3>3 DEF SyncsKnown, InSync
      <4>2. job[v].page # job[w].page
        BY <1>1, <2>1, <3>3, <4>1 DEF SyncsKnown, InSync
      <4>3. tagged'[job[v].page] = tagged[job[v].page]
        BY <1>1, <2>3, <4>2 DEF TagsRight
      <4> QED
        BY <4>1, <4>3
    <3> QED
      BY <1>1, <3>2, <3>3 DEF SyncsKnown
  <2> QED
    BY <1>1, <1>2, <2>5, <2>9, <2>10 DEF HydrationInv, MetaRight
<1> QED
  BY <1>3, <1>4

LEMMA NextHydrationInv == HydrationInv /\ Hydration!Next => HydrationInv'
<1> SUFFICES ASSUME HydrationInv, Hydration!Next PROVE HydrationInv'
  OBVIOUS
<1>1. ASSUME NEW w \in Workers,
             \/ Hydration!Start(w) \/ Hydration!JobFails(w) \/ Hydration!Hydrate(w)
             \/ Hydration!FindImages(w) \/ Hydration!Persist(w) \/ Hydration!NextPage(w)
             \/ Hydration!ReadTags(w) \/ Hydration!Apply(w)
             \/ \E t \in job[w].todo : Hydration!FindTag(w, t)
             \/ \E t \in job[w].create : Hydration!CreateTag(w, t)
      PROVE  HydrationInv'
  BY <1>1, AskSteps, PersistStep, NextPageStep, TagSteps, EndSteps
<1>2. ASSUME NEW p \in Pages, Hydration!Insert(p) PROVE HydrationInv'
  <2>1. image' = image \union {p} /\ UNCHANGED <<tag, translated, tagged, job, meta, learnt,
                                                 expected, jobs, faults>>
    BY <1>2 DEF Hydration!Insert, Hydration!bound, Hydration!seen
  <2>2. WorksRight'
    BY <2>1 DEF HydrationInv, WorksRight, WorkRight
  <2>3. SyncsKnown' /\ TagsRight'
    BY <2>1 DEF HydrationInv, SyncsKnown, TagsRight
  <2>4. MetaRight'
    BY <2>1 DEF HydrationInv, MetaRight
  <2> QED
    BY <2>1, <2>2, <2>3, <2>4 DEF HydrationInv
<1> QED
  BY <1>1, <1>2 DEF Hydration!Next

LEMMA SameHydrationInv ==
  HydrationInv /\ UNCHANGED <<hydration, image, job, faults>> => HydrationInv'
BY DEF hydration, HydrationInv, WorksRight, WorkRight, SyncsKnown, TagsRight, MetaRight

-----------------------------------------------------------------------------
(***************************************************************************)
(* The public reads.  AnswersMeant needs that both dialects of the filters *)
(* find what the query means, which a lemma says of any row and any query; *)
(* that the rows which match all the while have not failed recently when   *)
(* an attempt began; that a row which is not there any more when it is     *)
(* read was deleted after it was chosen; and that every attempt but the    *)
(* one under way has failed.                                               *)
(***************************************************************************)
Row ==
  [here: {"not_yet", "yes", "deleted"}, status: 1..3, fail: {"never", "recent", "old"},
   named: BOOLEAN, xRestrict: {Reads!Null, 0, 1, 2}, orientation: {Reads!Null, 1, 2, 3},
   width: Nat \union {Reads!Null}, height: Nat \union {Reads!Null},
   userId: Reads!Keys \union {Reads!Null}, tags: SUBSET Reads!Keys]

RowRight(r) ==
  /\ r \in Row
  /\ r.width = Reads!Null <=> r.height = Reads!Null
  /\ r.orientation = Reads!Orientation(r.width, r.height)

RowsAre(rows) == rows \in [Ids -> Row] /\ \A i \in Ids : RowRight(rows[i])
RowsRight == RowsAre(image)

Serving == {"load", "retag", "fetch", "mark", "heal", "stream"}

\* What a request has said and keeps, whatever the rows are.
Sound(q) ==
  /\ q \in Reads!Request
  /\ q.pc # "idle" => ~Reads!BadRequest(q.ask)
  /\ q.pc \notin {"idle", "stream"} => q.said = "none"
  /\ Cooldown /\ q.pc \in {"fallback", "load"} => q.steady \intersect q.hot = {}
  /\ q.pc \in Serving => q.id \in Ids /\ q.id \in q.ever
  /\ Cooldown /\ q.pc \in {"load", "fetch"} => q.id \notin q.failed
  /\ q.said = "image" => q.id \in q.ever
  /\ q.said = "no_match" => q.steady = {} \/ q.lost \/ q.misses = Reads!ParseAttempts(q.ask)

\* The attempts it has made, as many of them failed, and those it may make.
Counted(q) ==
  /\ q.pc # "idle" => q.attempt <= Reads!ParseAttempts(q.ask)
  /\ q.pc \notin {"idle", "stream", "heal"} => q.misses = q.attempt - 1
  /\ q.pc = "heal" => q.misses = q.attempt

\* What it knows of the rows ...
Informed(rows, q) ==
  q.pc # "idle" =>
    q.steady \subseteq Reads!Matching(rows, q.ask) /\ Reads!Matching(rows, q.ask) \subseteq q.ever

\* ... and what it has left behind in them.
Leaves(rows, q) ==
  /\ q.pc = "load" /\ rows[q.id].here # "yes" => q.lost
  /\ \A i \in q.failed : rows[i].fail = "recent" /\ rows[i].here # "not_yet"

RequestRight(rows, q) == Sound(q) /\ Counted(q) /\ Informed(rows, q) /\ Leaves(rows, q)

ReadsInv == RowsRight /\ RequestRight(image, now)

LEMMA ReadsConstants ==
  /\ Ids \subseteq Nat \ {0} /\ IsFiniteSet(Ids) /\ Cooldown \in BOOLEAN /\ Strict \in BOOLEAN /\ Asks # {}
  /\ \A m \in Metadata :
       /\ m \in [named: BOOLEAN, xRestrict: {Reads!Null, 0, 1, 2},
                 orientation: {Reads!Null, 1, 2, 3},
                 width: Nat \union {Reads!Null}, height: Nat \union {Reads!Null},
                 userId: Reads!Keys \union {Reads!Null}, tags: SUBSET Reads!Keys]
       /\ m.width = Reads!Null <=> m.height = Reads!Null
       /\ m.orientation = Reads!Orientation(m.width, m.height)
       /\ IsFiniteSet(m.tags)
BY ReadsAssumption DEF Reads!ReadsAssumption, Reads!Keys, Reads!IsFiniteSet, IsFiniteSet

LEMMA AsksAreQueries ==
  ASSUME NEW a \in Asks
  PROVE  /\ IsFiniteSet(a.included_tags)
         /\ a.attempts \in Nat \union {-1, -2} /\ a.r18 \in Nat \union {-1, -2}
         /\ a.min_width \in Nat \union {-1, -2} /\ a.min_height \in Nat \union {-1, -2}
         /\ a.min_pixels \in Nat \union {-1, -2} /\ a.user_id \in Nat \union {-1, -2}
<1>1. Reads!IsFiniteSet(a.included_tags)
      /\ {a.attempts, a.r18, a.min_width, a.min_height, a.min_pixels, a.user_id}
           \subseteq Nat \union {-1, -2}
  BY ReadsAssumption DEF Reads!ReadsAssumption, Reads!Absent, Reads!Malformed
<1>2. IsFiniteSet(a.included_tags)
  BY <1>1 DEF Reads!IsFiniteSet, IsFiniteSet
<1> QED
  BY <1>1, <1>2

\* What the filters of a query need to be what it means: GET /random and GET
\* /images both refuse any other.
Proper(a) ==
  /\ a.r18 \in {-1, 0, 1, 2} /\ a.strict \in {"absent", "on", "off"}
  /\ {a.min_width, a.min_height, a.min_pixels, a.user_id} \subseteq Nat \union {-1}

LEMMA ProperAsks ==
  ASSUME NEW a \in Asks
  PROVE  /\ ~Reads!BadRequest(a) => Proper(a)
         /\ \A limit : ~Reads!BadList(a, limit) => Proper(a)
BY AsksAreQueries DEF Proper, Reads!BadRequest, Reads!BadList, Reads!Absent, Reads!Malformed

\* What r18 and strict make of the column, which may be null.
LEMMA RestrictionMeant ==
  ASSUME NEW a \in Asks, Proper(a), NEW x \in {-1, 0, 1, 2}
  PROVE  LET f == Reads!Filters(a)
             meant == IF a.r18 \in {1, 2} THEN x = a.r18
                      ELSE IF a.strict = "on" \/ (a.strict = "absent" /\ Strict) THEN x = 0
                      ELSE x <= 0
         IN /\ (IF f.xRestrict = 0 /\ f.allowUnknown THEN x \in {0, Reads!Null}
                                                     ELSE x = f.xRestrict) <=> meant
            /\ (\/ f.xRestrict = 0 /\ f.allowUnknown /\ x = Reads!Null
                \/ x = f.xRestrict) <=> meant
<1> DEFINE f == Reads!Filters(a)
<1>1. a.r18 \in {-1, 0, 1, 2} /\ a.strict \in {"absent", "on", "off"}
  BY DEF Proper
<1>2. f.xRestrict = (IF a.r18 = -1 THEN 0 ELSE a.r18)
  BY DEF Reads!Filters, Reads!ParseR18, Reads!Absent
<1>3. f.allowUnknown <=>
        ~((IF a.r18 = -1 THEN 0 ELSE a.r18) = 0
          /\ (IF a.strict = "absent" THEN Strict ELSE a.strict = "on"))
  BY DEF Reads!Filters, Reads!ParseR18, Reads!ParseStrict, Reads!Absent
<1>4. Reads!Null = -1 /\ Strict \in BOOLEAN
  BY ReadsConstants DEF Reads!Null
<1> HIDE DEF f
<1>5. CASE a.r18 \in {1, 2}
  BY <1>1, <1>2, <1>3, <1>4, <1>5 DEF f
<1>6. CASE a.r18 \in {-1, 0} /\ (a.strict = "on" \/ (a.strict = "absent" /\ Strict))
  <2>1. f.xRestrict = 0 /\ ~f.allowUnknown
    BY <1>1, <1>2, <1>3, <1>4, <1>6
  <2> QED
    BY <1>4, <1>6, <2>1 DEF f
<1>7. CASE a.r18 \in {-1, 0} /\ ~(a.strict = "on" \/ (a.strict = "absent" /\ Strict))
  <2>1. f.xRestrict = 0 /\ f.allowUnknown
    BY <1>1, <1>2, <1>3, <1>4, <1>7
  <2> QED
    BY <1>4, <1>7, <2>1 DEF f
<1> QED
  BY <1>1, <1>5, <1>6, <1>7

LEMMA GeometryMeant ==
  ASSUME NEW a \in Asks, Proper(a), NEW r, RowRight(r)
  PROVE  LET f == Reads!Filters(a)
         IN /\ (f.orientation # Reads!Absent => r.orientation = f.orientation) <=>
                 /\ a.orientation = "portrait"  => r.width # Reads!Null /\ r.height > r.width
                 /\ a.orientation = "landscape" => r.width # Reads!Null /\ r.height < r.width
                 /\ a.orientation = "square"    => r.width # Reads!Null /\ r.height = r.width
            /\ (f.minWidth # Reads!Absent => Reads!AtLeast(r.width, f.minWidth)) <=>
                 (a.min_width >= 0  => r.width # Reads!Null /\ r.width >= a.min_width)
            /\ (f.minHeight # Reads!Absent => Reads!AtLeast(r.height, f.minHeight)) <=>
                 (a.min_height >= 0 => r.height # Reads!Null /\ r.height >= a.min_height)
            /\ (f.userId # Reads!Absent => r.userId = f.userId) <=>
                 (a.user_id >= 0 => r.userId = a.user_id)
<1> DEFINE f == Reads!Filters(a)
<1>1. /\ r.width \in Nat \union {-1} /\ r.height \in Nat \union {-1}
      /\ r.width = -1 <=> r.height = -1
      /\ r.orientation = Reads!Orientation(r.width, r.height)
  BY DEF RowRight, Row, Reads!Null, Reads!Keys
<1>2. /\ a.min_width \in Nat \union {-1} /\ a.min_height \in Nat \union {-1}
      /\ a.user_id \in Nat \union {-1}
  BY DEF Proper
<1>3. f.minWidth = a.min_width /\ f.minHeight = a.min_height /\ f.userId = a.user_id
      /\ f.orientation = Reads!ParseOrientation(a)
  BY DEF Reads!Filters
<1> HIDE DEF f
<1>4. (f.orientation # Reads!Absent => r.orientation = f.orientation) <=>
        /\ a.orientation = "portrait"  => r.width # Reads!Null /\ r.height > r.width
        /\ a.orientation = "landscape" => r.width # Reads!Null /\ r.height < r.width
        /\ a.orientation = "square"    => r.width # Reads!Null /\ r.height = r.width
  <2>1. r.orientation = IF r.width = -1 THEN -1 ELSE IF r.height = r.width THEN 3
                        ELSE IF r.height > r.width THEN 1 ELSE 2
    BY <1>1 DEF Reads!Orientation, Reads!Null
  <2>2. f.orientation = IF a.orientation = "portrait" THEN 1
                        ELSE IF a.orientation = "landscape" THEN 2
                        ELSE IF a.orientation = "square" THEN 3 ELSE -1
    BY <1>3 DEF Reads!ParseOrientation, Reads!Absent
  <2> QED
    BY <1>1, <2>1, <2>2 DEF Reads!Null, Reads!Absent
<1>5. /\ (f.minWidth # Reads!Absent => Reads!AtLeast(r.width, f.minWidth)) <=>
           (a.min_width >= 0  => r.width # Reads!Null /\ r.width >= a.min_width)
      /\ (f.minHeight # Reads!Absent => Reads!AtLeast(r.height, f.minHeight)) <=>
           (a.min_height >= 0 => r.height # Reads!Null /\ r.height >= a.min_height)
      /\ (f.userId # Reads!Absent => r.userId = f.userId) <=>
           (a.user_id >= 0 => r.userId = a.user_id)
  BY <1>2, <1>3 DEF Reads!AtLeast, Reads!Null, Reads!Absent
<1> QED
  BY <1>4, <1>5 DEF f

LEMMA TagsMeant ==
  ASSUME NEW included, IsFiniteSet(included), NEW ts
  PROVE  Reads!Cardinality(ts \intersect included) = Reads!Cardinality(included)
           <=> included \subseteq ts
<1>1. /\ Reads!Cardinality(ts \intersect included) = Cardinality(ts \intersect included)
      /\ Reads!Cardinality(included) = Cardinality(included)
  BY DEF Reads!Cardinality, Cardinality
<1>2. (ts \intersect included) \in SUBSET included
  OBVIOUS
<1>3. Cardinality(ts \intersect included) = Cardinality(included)
        => ts \intersect included = included
  BY <1>2, FS_Subset
<1>4. included \subseteq ts => ts \intersect included = included
  OBVIOUS
<1> QED
  BY <1>1, <1>3, <1>4

\* The rows that either dialect finds are those the query means, but for those
\* that failed after the cutoff.
LEMMA FoundMeant ==
  ASSUME RowsRight, NEW a \in Asks, Proper(a), NEW hot
  PROVE  Reads!Found(Reads!Filters(a), hot) =
           {i \in Reads!Matching(image, a) : Cooldown => i \notin hot}
<1> DEFINE f == Reads!Filters(a)
           Cold(i) == image[i].fail # "recent" /\ i \notin hot
<1>1. Cooldown \in BOOLEAN
  BY ReadsConstants
<1>2. ASSUME NEW i \in Ids
      PROVE  (/\ image[i].here = "yes"
              /\ IF Reads!ByPixels(f) THEN Reads!Conditions(f, image[i], Cold(i))
                                      ELSE Reads!Where(f, image[i], Cold(i)))
               <=> Reads!Means(a, image[i]) /\ (Cooldown => i \notin hot)
  <2> DEFINE r == image[i]
  <2>1. RowRight(r) /\ r.xRestrict \in {-1, 0, 1, 2} /\ r.width \in Nat \union {-1}
        /\ r.height \in Nat \union {-1} /\ (r.width = -1 <=> r.height = -1)
    BY DEF RowsRight, RowsAre, RowRight, Row, Reads!Null
  <2>2. a.min_pixels \in Nat \union {-1} /\ f.minPixels = a.min_pixels
        /\ f.included = a.included_tags /\ f.excluded = a.excluded_tags
    BY DEF Proper, Reads!Filters
  <2>3. Reads!Cardinality(r.tags \intersect a.included_tags) = Reads!Cardinality(a.included_tags)
          <=> a.included_tags \subseteq r.tags
    BY AsksAreQueries, TagsMeant
  <2> DEFINE Restricted == IF a.r18 \in {1, 2} THEN r.xRestrict = a.r18
                           ELSE IF a.strict = "on" \/ (a.strict = "absent" /\ Strict)
                                THEN r.xRestrict = 0
                           ELSE r.xRestrict <= 0
             Turned == /\ a.orientation = "portrait"  => r.width # Reads!Null /\ r.height > r.width
                       /\ a.orientation = "landscape" => r.width # Reads!Null /\ r.height < r.width
                       /\ a.orientation = "square"    => r.width # Reads!Null /\ r.height = r.width
             Wide == a.min_width >= 0  => r.width # Reads!Null /\ r.width >= a.min_width
             High == a.min_height >= 0 => r.height # Reads!Null /\ r.height >= a.min_height
             Mine == a.user_id >= 0 => r.userId = a.user_id
             Tagged == a.included_tags \subseteq r.tags /\ a.excluded_tags \intersect r.tags = {}
             Large == r.width # Reads!Null /\ r.width * r.height >= a.min_pixels
  <2>4. /\ (IF f.xRestrict = 0 /\ f.allowUnknown THEN r.xRestrict \in {0, Reads!Null}
                                                 ELSE r.xRestrict = f.xRestrict) <=> Restricted
        /\ (\/ f.xRestrict = 0 /\ f.allowUnknown /\ r.xRestrict = Reads!Null
            \/ r.xRestrict = f.xRestrict) <=> Restricted
    BY <2>1, RestrictionMeant
  <2>5. /\ (f.orientation # Reads!Absent => r.orientation = f.orientation) <=> Turned
        /\ (f.minWidth # Reads!Absent => Reads!AtLeast(r.width, f.minWidth)) <=> Wide
        /\ (f.minHeight # Reads!Absent => Reads!AtLeast(r.height, f.minHeight)) <=> High
        /\ (f.userId # Reads!Absent => r.userId = f.userId) <=> Mine
    BY <2>1, GeometryMeant
  <2>6. Reads!Means(a, r) <=>
          /\ r.here = "yes" /\ r.status = Reads!Active /\ (Cooldown => r.fail # "recent")
          /\ Restricted /\ Turned /\ Wide /\ High /\ (a.min_pixels >= 0 => Large)
          /\ Tagged /\ Mine
    BY DEF Reads!Means
  <2>7. Reads!Where(f, r, Cold(i)) <=>
          /\ r.status = Reads!Active /\ Restricted /\ Mine /\ Turned /\ Wide /\ High
          /\ (Cooldown => Cold(i)) /\ Tagged
    <3>1. (\A t \in f.included : t \in r.tags) /\ f.excluded \intersect r.tags = {} <=> Tagged
      BY <2>2
    <3> HIDE DEF Restricted, Turned, Wide, High, Mine, Tagged, f
    <3> QED
      BY <2>4, <2>5, <3>1 DEF Reads!Where
  <2>8. Reads!Conditions(f, r, Cold(i)) <=>
          /\ r.status = Reads!Active /\ Restricted /\ Mine /\ Turned /\ Wide /\ High
          /\ (Cooldown => Cold(i)) /\ Large /\ Tagged
    <3>1. /\ Reads!Cardinality(r.tags \cap f.included) = Reads!Cardinality(f.included)
          /\ ~ \E t \in f.excluded : t \in r.tags
          <=> Tagged
      BY <2>2, <2>3
    <3>2. (r.width # Reads!Null /\ r.height # Reads!Null /\ r.width * r.height >= f.minPixels)
            <=> Large
      BY <2>1, <2>2 DEF Reads!Null
    <3> HIDE DEF Restricted, Turned, Wide, High, Mine, Tagged, Large, f
    <3> QED
      BY <2>4, <2>5, <3>1, <3>2 DEF Reads!Conditions
  <2>9. Reads!ByPixels(f) <=> a.min_pixels >= 0
    BY <2>2 DEF Reads!ByPixels, Reads!Absent
  <2> HIDE DEF Restricted, Turned, Wide, High, Mine, Tagged, Large, f
  <2> QED
    BY <2>6, <2>7, <2>8, <2>9
<1> QED
  BY <1>2 DEF Reads!Found, Reads!Matching

LEMMA ReadsInvGives == ReadsInv => Reads!AnswersMeant /\ Reads!NoHotRetry
BY DEF ReadsInv, RequestRight, Sound, Reads!AnswersMeant, Reads!NoHotRetry

LEMMA NewRowRight ==
  ASSUME NEW m \in Metadata, NEW here \in {"not_yet", "yes", "deleted"}
  PROVE  RowRight(Reads!NewRow(m, here)) /\ Reads!NewRow(m, here).here = here
<1> DEFINE r == Reads!NewRow(m, here)
<1>1. r \in Row
  BY ReadsConstants DEF Reads!NewRow, Reads!Active, Row
<1>2. r.width = m.width /\ r.height = m.height /\ r.orientation = m.orientation /\ r.here = here
  BY DEF Reads!NewRow
<1> HIDE DEF r
<1> QED
  BY <1>1, <1>2, ReadsConstants DEF RowRight, r

\* Another status, another failure or a deletion leaves a row right.
LEMMA ChangedRowRight ==
  ASSUME NEW r, RowRight(r), NEW status \in 1..3, NEW fail \in {"never", "recent", "old"},
         NEW here \in {"not_yet", "yes", "deleted"}
  PROVE  RowRight([r EXCEPT !.status = status, !.fail = fail, !.here = here])
BY DEF RowRight, Row

LEMMA IdleRequest == Reads!Idle \in Reads!Request /\ RequestRight(image, Reads!Idle)
<1>1. Reads!AnAsk \in Asks
  BY ReadsConstants DEF Reads!AnAsk
<1>2. Reads!Idle \in Reads!Request
  BY <1>1 DEF Reads!Idle, Reads!Request
<1>3. Sound(Reads!Idle)
  BY <1>2 DEF Sound, Reads!Idle, Serving
<1> QED
  BY <1>2, <1>3 DEF Reads!Idle, RequestRight, Counted, Informed, Leaves

LEMMA InitReadsInv == Reads!Init => ReadsInv
<1> SUFFICES ASSUME Reads!Init PROVE ReadsInv
  OBVIOUS
<1>1. PICK f \in [Ids -> Metadata], n \in Ids :
        image = [i \in Ids |-> Reads!NewRow(f[i], IF i <= n THEN "yes" ELSE "not_yet")]
  BY DEF Reads!Init
<1>2. \A i \in Ids : RowRight(image[i])
  BY <1>1, NewRowRight
<1>3. RowsRight
  BY <1>1, <1>2 DEF RowsRight, RowsAre, RowRight
<1>4. now = Reads!Idle
  BY DEF Reads!Init
<1> QED
  BY <1>3, <1>4, IdleRequest DEF ReadsInv

-----------------------------------------------------------------------------
(* What the steps of a request make of it.                                 *)

LEMMA SayRight ==
  ASSUME NEW rows, NEW q, RequestRight(rows, q),
         NEW what \in {"none", "image", "no_match", "error", "gone"},
         what = "image" => q.id \in q.ever,
         what = "no_match" => q.steady = {} \/ q.lost \/ q.misses = Reads!ParseAttempts(q.ask)
  PROVE  RequestRight(rows, Reads!Say(q, what))
<1> DEFINE s == [q EXCEPT !.pc = "idle", !.said = what]
<1>1. s \in Reads!Request /\ s.pc = "idle" /\ s.said = what /\ s.steady = q.steady
      /\ s.ever = q.ever /\ s.lost = q.lost
      /\ s.misses = q.misses /\ s.attempt = q.attempt /\ s.id = q.id /\ s.failed = q.failed /\ s.ask = q.ask
  BY DEF RequestRight, Sound, Reads!Request
<1>2. Reads!Say(q, what) = s
  BY DEF Reads!Say
<1> HIDE DEF s
<1> QED
  BY <1>1, <1>2 DEF RequestRight, Sound, Counted, Informed, Leaves, Serving

LEMMA PickedRight ==
  ASSUME NEW rows, NEW q, RequestRight(rows, q), q.pc \in {"pick", "fallback", "load"},
         q.said = "none", NEW i \in Ids,
         i \in q.ever, Cooldown => i \notin q.failed
  PROVE  RequestRight(rows, Reads!Picked(q, i))
<1>1. q \in Reads!Request
  BY DEF RequestRight, Sound
<1>2. CASE Reads!ParseRedirect(q.ask)
  <2> DEFINE s == [q EXCEPT !.pc = "idle", !.said = "image", !.id = i]
  <2>1. s \in Reads!Request /\ s.pc = "idle" /\ s.said = "image" /\ s.steady = q.steady
        /\ s.ever = q.ever /\ s.lost = q.lost
        /\ s.misses = q.misses /\ s.attempt = q.attempt /\ s.id = i /\ s.failed = q.failed
    BY <1>1 DEF Reads!Request
  <2>2. Reads!Picked(q, i) = s
    BY <1>1, <1>2 DEF Reads!Picked, Reads!Say, Reads!Request
  <2> HIDE DEF s
  <2> QED
    BY <2>1, <2>2 DEF RequestRight, Sound, Counted, Informed, Leaves, Serving
<1>3. ASSUME NEW pc \in {"retag", "fetch"}, NEW tries \in 0..2,
             Reads!Picked(q, i) = [q EXCEPT !.pc = pc, !.id = i, !.tries = tries]
      PROVE  RequestRight(rows, Reads!Picked(q, i))
  <2> DEFINE s == [q EXCEPT !.pc = pc, !.id = i, !.tries = tries]
  <2>1. s \in Reads!Request /\ s.pc = pc /\ s.said = "none" /\ s.steady = q.steady
        /\ s.ever = q.ever /\ s.lost = q.lost
        /\ s.misses = q.misses /\ s.attempt = q.attempt /\ s.id = i /\ s.failed = q.failed /\ s.ask = q.ask
    BY <1>1 DEF Reads!Request
  <2> HIDE DEF s
  <2>2. RequestRight(rows, s)
    BY <2>1 DEF RequestRight, Sound, Counted, Informed, Leaves, Serving
  <2> QED
    BY <1>3, <2>2 DEF s
<1>4. CASE ~Reads!ParseRedirect(q.ask) /\ Reads!ParseFormat(q.ask) = "json"
  <2>1. q.tries \in 0..2 /\ Reads!Picked(q, i) = [q EXCEPT !.pc = "retag", !.id = i]
    BY <1>1, <1>4 DEF Reads!Picked, Reads!Request
  <2>2. [q EXCEPT !.pc = "retag", !.id = i] = [q EXCEPT !.pc = "retag", !.id = i, !.tries = q.tries]
    BY <1>1 DEF Reads!Request
  <2> QED
    BY <1>3, <2>1, <2>2
<1>5. CASE ~Reads!ParseRedirect(q.ask) /\ Reads!ParseFormat(q.ask) # "json"
  BY <1>3, <1>5 DEF Reads!Picked
<1> QED
  BY <1>2, <1>4, <1>5

LEMMA ChosenRight ==
  ASSUME RowsRight, NEW q, RequestRight(image, q), q.pc \in {"pick", "fallback"}, q.said = "none",
         Cooldown => q.steady \intersect q.hot = {},
         NEW i \in Reads!Found(Reads!Filters(q.ask), q.hot)
  PROVE  RequestRight(image, Reads!Chosen(q, i))
<1>1. q \in Reads!Request /\ q.ask \in Asks /\ ~Reads!BadRequest(q.ask)
  BY DEF RequestRight, Sound, Reads!Request
<1>2. i \in Reads!Matching(image, q.ask)
  BY <1>1, ProperAsks, FoundMeant
<1>3. i \in Ids /\ i \in q.ever /\ image[i].here = "yes" /\ (Cooldown => image[i].fail # "recent")
  BY <1>2 DEF Reads!Matching, Reads!Means, RequestRight, Informed
<1>4. Cooldown => i \notin q.failed
  BY <1>3 DEF RequestRight, Leaves
<1>5. CASE Reads!ByPixels(Reads!Filters(q.ask))
  <2> DEFINE s == [q EXCEPT !.pc = "load", !.id = i]
  <2>1. s \in Reads!Request /\ s.pc = "load" /\ s.said = "none" /\ s.steady = q.steady
        /\ s.ever = q.ever /\ s.lost = q.lost
        /\ s.misses = q.misses /\ s.attempt = q.attempt /\ s.id = i /\ s.failed = q.failed /\ s.ask = q.ask
        /\ s.hot = q.hot
    BY <1>1, <1>3 DEF Reads!Request
  <2>2. Reads!Chosen(q, i) = s
    BY <1>5 DEF Reads!Chosen
  <2> HIDE DEF s
  <2> QED
    BY <1>3, <1>4, <2>1, <2>2 DEF RequestRight, Sound, Counted, Informed, Leaves, Serving
<1>6. CASE ~Reads!ByPixels(Reads!Filters(q.ask))
  <2>1. Reads!Chosen(q, i) = Reads!Picked(q, i)
    BY <1>6 DEF Reads!Chosen
  <2> QED
    BY <1>3, <1>4, <2>1, PickedRight
<1> QED
  BY <1>5, <1>6

LEMMA AttemptsBounded == ASSUME NEW a \in Asks PROVE Reads!ParseAttempts(a) \in 1..10
<1>1. a.attempts \in Nat \union {-1, -2}
  BY AsksAreQueries
<1> QED
  BY <1>1 DEF Reads!ParseAttempts, Reads!Absent, Reads!Max2, Reads!Min2

\* An attempt has failed: another one, or it was the last.
LEMMA NextAttemptRight ==
  ASSUME NEW q, Sound(q), q.pc \in {"mark", "heal"}, q.said = "none", q.misses = q.attempt,
         q.attempt <= Reads!ParseAttempts(q.ask)
  PROVE  LET s == Reads!NextAttempt(q)
         IN /\ Sound(s) /\ Counted(s) /\ s.failed = q.failed /\ s.pc # "load"
            /\ s.steady = q.steady /\ s.ever = q.ever /\ s.ask = q.ask
<1>1. q \in Reads!Request /\ q.ask \in Asks /\ q.attempt \in 1..10
  BY DEF Sound, Reads!Request
<1>2. Reads!ParseAttempts(q.ask) \in 1..10
  BY <1>1, AttemptsBounded
<1>3. CASE q.attempt < Reads!ParseAttempts(q.ask)
  <2> DEFINE attempt == q.attempt + 1
             s == [q EXCEPT !.pc = "pick", !.attempt = attempt]
  <2>1. attempt \in 1..10 /\ attempt <= Reads!ParseAttempts(q.ask) /\ q.misses = attempt - 1
    BY <1>1, <1>2, <1>3
  <2>2. Reads!NextAttempt(q) = s
    BY <1>3 DEF Reads!NextAttempt
  <2> HIDE DEF attempt
  <2>3. s \in Reads!Request /\ s.pc = "pick" /\ s.said = "none" /\ s.steady = q.steady
        /\ s.ever = q.ever /\ s.failed = q.failed /\ s.ask = q.ask /\ s.misses = q.misses
        /\ s.attempt = attempt
    BY <1>1, <2>1 DEF Reads!Request
  <2> HIDE DEF s
  <2> QED
    BY <2>1, <2>2, <2>3 DEF Sound, Counted, Serving
<1>4. CASE ~(q.attempt < Reads!ParseAttempts(q.ask))
  <2> DEFINE s == [q EXCEPT !.pc = "idle", !.said = "no_match"]
  <2>1. Reads!NextAttempt(q) = s /\ q.misses = Reads!ParseAttempts(q.ask)
    BY <1>1, <1>2, <1>4 DEF Reads!NextAttempt, Reads!Say
  <2>2. s \in Reads!Request /\ s.pc = "idle" /\ s.said = "no_match" /\ s.steady = q.steady
        /\ s.ever = q.ever /\ s.failed = q.failed /\ s.ask = q.ask /\ s.misses = q.misses
    BY <1>1 DEF Reads!Request
  <2> HIDE DEF s
  <2> QED
    BY <2>1, <2>2 DEF Sound, Counted, Serving
<1> QED
  BY <1>3, <1>4

\* Rows change, and the request's watch is kept.
LEMMA WatchRight ==
  ASSUME NEW rows, NEW q, Sound(q), Counted(q), Leaves(rows, q)
  PROVE  RequestRight(rows, Reads!Watch(rows, q))
<1> DEFINE m == Reads!Matching(rows, q.ask)
           steady == q.steady \intersect m
           ever == q.ever \union m
           s == [q EXCEPT !.steady = steady, !.ever = ever]
<1>1. q \in Reads!Request
  BY DEF Sound
<1>2. m \subseteq Ids /\ steady \in SUBSET Ids /\ ever \in SUBSET Ids
  BY <1>1 DEF Reads!Matching, Reads!Request
<1>3. Reads!Watch(rows, q) = s
  BY DEF Reads!Watch
<1>4. steady \subseteq q.steady /\ steady \subseteq m /\ m \subseteq ever /\ q.ever \subseteq ever
  OBVIOUS
<1> HIDE DEF steady, ever
<1>5. s \in Reads!Request /\ s.pc = q.pc /\ s.said = q.said /\ s.steady = steady
      /\ s.ever = ever /\ s.lost = q.lost
      /\ s.misses = q.misses /\ s.attempt = q.attempt /\ s.id = q.id /\ s.failed = q.failed /\ s.ask = q.ask
      /\ s.hot = q.hot
  BY <1>1, <1>2 DEF Reads!Request
<1> HIDE DEF s
<1>6. Sound(s) /\ Counted(s)
  BY <1>4, <1>5 DEF Sound, Counted
<1>7. Informed(rows, s) /\ Leaves(rows, s)
  BY <1>4, <1>5 DEF Informed, Leaves
<1> QED
  BY <1>3, <1>6, <1>7 DEF RequestRight

\* A step of the request alone.
LEMMA RequestSteps ==
  ASSUME ReadsInv,
         \/ \E a \in Asks : Reads!Ask(a)
         \/ Reads!Pick \/ Reads!Fallback \/ Reads!Load \/ Reads!Retag \/ Reads!Served
         \/ Reads!FetchFails \/ Reads!Heal \/ Reads!StreamEnds \/ Reads!Abort \/ Reads!QueryFails
  PROVE  ReadsInv'
<1>1. RowsRight /\ RequestRight(image, now) /\ Sound(now) /\ now \in Reads!Request
  BY Zenon DEF ReadsInv, RequestRight, Sound
<1>2. image' = image
  BY Zenon DEF Reads!Ask, Reads!Pick, Reads!Fallback, Reads!Load, Reads!Retag, Reads!Served,
         Reads!FetchFails, Reads!Heal, Reads!StreamEnds, Reads!Abort, Reads!QueryFails
<1>3. RequestRight(image, now') => ReadsInv'
  BY <1>1, <1>2 DEF ReadsInv, RowsRight
<1> SUFFICES RequestRight(image, now')
  BY <1>3
<1>4. ASSUME NEW a \in Asks, Reads!Ask(a) PROVE RequestRight(image, now')
  <2> DEFINE m == Reads!Matching(image, a)
  <2>1. CASE Reads!BadRequest(a)
    <3> DEFINE q == [Reads!Idle EXCEPT !.ask = a, !.said = "error"]
    <3>1. now' = q
      BY Zenon, <1>4, <2>1 DEF Reads!Ask
    <3>2. q \in Reads!Request /\ q.pc = "idle" /\ q.said = "error" /\ q.failed = {}
      BY IdleRequest DEF Reads!Request, Reads!Idle
    <3> HIDE DEF q
    <3> QED
      BY <3>1, <3>2 DEF RequestRight, Sound, Counted, Informed, Leaves, Serving
  <2>2. CASE ~Reads!BadRequest(a)
    <3> DEFINE n == [Reads!Idle EXCEPT !.pc = "pick", !.ask = a]
               q == [n EXCEPT !.steady = m, !.ever = m]
    <3>1. now' = q
      BY Zenon, <1>4, <2>2, IdleRequest DEF Reads!Ask, Reads!Request
    <3>2. m \in SUBSET Ids
      BY DEF Reads!Matching
    <3> HIDE DEF m
    <3>3. n \in Reads!Request /\ n.pc = "pick" /\ n.said = "none" /\ n.failed = {} /\ n.ask = a
          /\ n.misses = 0 /\ n.attempt = 1
      BY IdleRequest DEF Reads!Request, Reads!Idle
    <3> HIDE DEF n
    <3>4. q \in Reads!Request /\ q.pc = "pick" /\ q.said = "none" /\ q.failed = {} /\ q.ask = a
          /\ q.steady = m /\ q.ever = m /\ q.misses = 0 /\ q.attempt = 1
      BY <3>2, <3>3 DEF Reads!Request
    <3> HIDE DEF q
    <3>5. Sound(q) /\ Counted(q)
      BY <2>2, <3>4, AttemptsBounded DEF Sound, Counted, Serving
    <3>6. Informed(image, q) /\ Leaves(image, q)
      BY <3>4 DEF Informed, Leaves, m
    <3> QED
      BY <3>1, <3>5, <3>6 DEF RequestRight
  <2> QED
    BY <2>1, <2>2
<1>5. CASE Reads!Pick
  <2> DEFINE hot == Reads!Hot
             q == [now EXCEPT !.hot = hot]
  <2>1. now.pc = "pick" /\ now.said = "none"
    BY <1>1, <1>5 DEF Sound, Reads!Pick
  <2>2. hot \in SUBSET Ids /\ \A i \in hot : image[i].fail = "recent"
    BY DEF Reads!Hot
  <2>3. Cooldown => now.steady \intersect hot = {}
    BY <1>1, <2>1, <2>2 DEF RequestRight, Informed, Reads!Matching, Reads!Means
  <2> HIDE DEF hot
  <2>4. q \in Reads!Request /\ q.pc = "pick" /\ q.said = "none" /\ q.steady = now.steady
        /\ q.ever = now.ever /\ q.lost = now.lost
        /\ q.misses = now.misses /\ q.attempt = now.attempt /\ q.id = now.id /\ q.failed = now.failed
        /\ q.ask = now.ask /\ q.hot = hot
    BY <1>1, <2>1, <2>2 DEF Reads!Request
  <2>5. \/ \E i \in Reads!Found(Reads!Filters(now.ask), hot) : now' = Reads!Chosen(q, i)
        \/ now' = [q EXCEPT !.pc = "fallback"]
    BY <1>5 DEF Reads!Pick, hot
  <2> HIDE DEF q
  <2>6. RequestRight(image, q)
    BY <1>1, <2>1, <2>4 DEF RequestRight, Sound, Counted, Informed, Leaves, Serving
  <2>7. ASSUME NEW i \in Reads!Found(Reads!Filters(now.ask), hot), now' = Reads!Chosen(q, i)
        PROVE  RequestRight(image, now')
    BY <1>1, <2>3, <2>4, <2>6, <2>7, ChosenRight
  <2>8. CASE now' = [q EXCEPT !.pc = "fallback"]
    <3> DEFINE s == [q EXCEPT !.pc = "fallback"]
    <3>1. s \in Reads!Request /\ s.pc = "fallback" /\ s.said = "none" /\ s.steady = now.steady
          /\ s.ever = now.ever /\ s.lost = now.lost
          /\ s.misses = now.misses /\ s.attempt = now.attempt /\ s.id = now.id /\ s.failed = now.failed
          /\ s.ask = now.ask /\ s.hot = hot
      BY <2>4 DEF Reads!Request
    <3> HIDE DEF s
    <3>2. RequestRight(image, s)
      BY <1>1, <2>1, <2>3, <3>1 DEF RequestRight, Sound, Counted, Informed, Leaves, Serving
    <3> QED
      BY <2>8, <3>2 DEF s
  <2> QED
    BY <2>5, <2>7, <2>8
<1>6. CASE Reads!Fallback
  <2>1. now.pc = "fallback" /\ now.said = "none" /\ (Cooldown => now.steady \intersect now.hot = {})
        /\ now.ask \in Asks /\ ~Reads!BadRequest(now.ask)
    BY <1>1, <1>6 DEF Sound, Reads!Fallback, Reads!Request
  <2> DEFINE found == Reads!Found(Reads!Filters(now.ask), now.hot)
  <2>2. CASE found = {} /\ now' = Reads!Say(now, "no_match")
    <3>1. now.steady = {}
      <4>1. found = {i \in Reads!Matching(image, now.ask) : Cooldown => i \notin now.hot}
        BY <1>1, <2>1, ProperAsks, FoundMeant
      <4>2. now.steady \subseteq Reads!Matching(image, now.ask)
        BY <1>1, <2>1 DEF RequestRight, Informed
      <4> QED
        BY <2>1, <2>2, <4>1, <4>2
    <3> QED
      BY <1>1, <2>2, <3>1, SayRight
  <2>3. ASSUME NEW i \in found, now' = Reads!Chosen(now, i) PROVE RequestRight(image, now')
    BY <1>1, <2>1, <2>3, ChosenRight
  <2> QED
    BY <1>6, <2>2, <2>3 DEF Reads!Fallback
<1>7. CASE Reads!Load
  <2>1. now.pc = "load" /\ now.said = "none" /\ now.id \in Ids /\ now.id \in now.ever
        /\ (Cooldown => now.id \notin now.failed)
    BY <1>1, <1>7 DEF Sound, Serving, Reads!Load
  <2>2. CASE image[now.id].here = "yes"
    <3>1. now' = Reads!Picked(now, now.id)
      BY <1>7, <2>2 DEF Reads!Load
    <3> QED
      BY <1>1, <2>1, <3>1, PickedRight
  <2>3. CASE image[now.id].here # "yes"
    <3>1. now' = Reads!Say(now, "no_match") /\ now.lost
      BY <1>1, <1>7, <2>1, <2>3 DEF Reads!Load, RequestRight, Leaves
    <3> QED
      BY <1>1, <3>1, SayRight
  <2> QED
    BY <2>2, <2>3
<1>8. CASE Reads!Retag
  <2>1. now' = Reads!Say(now, "image") /\ now.id \in now.ever
    BY <1>1, <1>8 DEF Reads!Retag, Sound, Serving
  <2> QED
    BY <1>1, <2>1, SayRight
<1>9. CASE Reads!Served
  <2> DEFINE s == [now EXCEPT !.pc = "stream", !.said = "image"]
  <2>1. now' = s /\ now.pc = "fetch"
    BY <1>9 DEF Reads!Served
  <2>2. s \in Reads!Request /\ s.pc = "stream" /\ s.said = "image" /\ s.steady = now.steady
        /\ s.ever = now.ever /\ s.lost = now.lost
        /\ s.misses = now.misses /\ s.attempt = now.attempt /\ s.id = now.id /\ s.failed = now.failed
        /\ s.ask = now.ask
    BY <1>1 DEF Reads!Request
  <2> HIDE DEF s
  <2> QED
    BY <1>1, <2>1, <2>2 DEF RequestRight, Sound, Counted, Informed, Leaves, Serving
<1>10. CASE Reads!FetchFails
  <2>1. now.pc = "fetch" /\ now.said = "none"
    BY <1>1, <1>10, Zenon DEF Reads!FetchFails, Sound
  <2>2. PICK terminal \in BOOLEAN, retryable \in BOOLEAN :
          now' = IF retryable /\ ~terminal /\ now.tries < 2
                 THEN [now EXCEPT !.tries = @ + 1]
                 ELSE [now EXCEPT !.pc = "mark", !.terminal = terminal]
    BY Zenon, <1>10 DEF Reads!FetchFails
  <2>3. CASE retryable /\ ~terminal /\ now.tries < 2
    <3> DEFINE tries == now.tries + 1
               s == [now EXCEPT !.tries = tries]
    <3>1. now' = s
      BY <2>2, <2>3
    <3>2. tries \in 0..2
      BY <1>1, <2>3 DEF Reads!Request
    <3> HIDE DEF tries
    <3>3. s \in Reads!Request /\ s.pc = "fetch" /\ s.said = "none" /\ s.steady = now.steady
          /\ s.ever = now.ever /\ s.lost = now.lost
          /\ s.misses = now.misses /\ s.attempt = now.attempt /\ s.id = now.id /\ s.failed = now.failed
          /\ s.ask = now.ask
      BY <1>1, <2>1, <3>2 DEF Reads!Request
    <3> HIDE DEF s
    <3> QED
      BY <1>1, <2>1, <3>1, <3>3 DEF RequestRight, Sound, Counted, Informed, Leaves, Serving
  <2>4. CASE ~(retryable /\ ~terminal /\ now.tries < 2)
    <3> DEFINE s == [now EXCEPT !.pc = "mark", !.terminal = terminal]
    <3>1. now' = s
      BY <2>2, <2>4
    <3>2. s \in Reads!Request /\ s.pc = "mark" /\ s.said = "none" /\ s.steady = now.steady
          /\ s.ever = now.ever /\ s.lost = now.lost
          /\ s.misses = now.misses /\ s.attempt = now.attempt /\ s.id = now.id /\ s.failed = now.failed
          /\ s.ask = now.ask
      BY <1>1, <2>1 DEF Reads!Request
    <3> HIDE DEF s
    <3> QED
      BY <1>1, <2>1, <3>1, <3>2 DEF RequestRight, Sound, Counted, Informed, Leaves, Serving
  <2> QED
    BY <2>3, <2>4
<1>11. CASE Reads!Heal
  <2>1. now' = Reads!NextAttempt(now) /\ now.pc = "heal" /\ now.said = "none"
    BY <1>1, <1>11 DEF Reads!Heal, Sound
  <2>2. now.misses = now.attempt /\ now.attempt <= Reads!ParseAttempts(now.ask)
    BY <1>1, <2>1 DEF RequestRight, Counted
  <2>3. /\ Sound(now') /\ Counted(now') /\ now'.failed = now.failed /\ now'.pc # "load"
        /\ now'.steady = now.steady /\ now'.ever = now.ever /\ now'.ask = now.ask
    BY <1>1, <2>1, <2>2, NextAttemptRight
  <2> QED
    BY <1>1, <2>1, <2>3 DEF RequestRight, Informed, Leaves
<1>12. CASE Reads!StreamEnds
  <2> DEFINE s == [now EXCEPT !.pc = "idle"]
  <2>1. now' = s
    BY <1>12 DEF Reads!StreamEnds
  <2>2. s \in Reads!Request /\ s.pc = "idle" /\ s.said = now.said /\ s.steady = now.steady
        /\ s.ever = now.ever /\ s.lost = now.lost
        /\ s.misses = now.misses /\ s.attempt = now.attempt /\ s.id = now.id /\ s.failed = now.failed
        /\ s.ask = now.ask
    BY <1>1 DEF Reads!Request
  <2> HIDE DEF s
  <2> QED
    BY <1>1, <2>1, <2>2 DEF RequestRight, Sound, Counted, Informed, Leaves, Serving
<1>13. CASE Reads!Abort
  BY <1>1, <1>13, SayRight DEF Reads!Abort
<1>14. CASE Reads!QueryFails
  BY <1>1, <1>14, SayRight DEF Reads!QueryFails
<1> QED
  BY <1>4, <1>5, <1>6, <1>7, <1>8, <1>9, <1>10, <1>11, <1>12, <1>13, <1>14

-----------------------------------------------------------------------------
(* Steps that change rows.                                                 *)

\* One row changes: a failure keeps its mark, and what is read next its place.
LEMMA OneImageRow ==
  ASSUME ReadsInv, NEW i \in Ids, NEW r, RowRight(r), image' = [image EXCEPT ![i] = r]
  PROVE  /\ RowsRight'
         /\ r.fail = image[i].fail /\ (image[i].here = "yes" => r.here = "yes")
              /\ (image[i].here = "deleted" => r.here = "deleted")
            => Leaves(image', now)
<1>1. RowsAre(image) /\ Leaves(image, now) /\ now \in Reads!Request
      /\ (now.pc = "load" => now.id \in Ids)
  BY DEF ReadsInv, RowsRight, RequestRight, Sound, Serving
<1>2. \A k \in Ids : image'[k] = IF k = i THEN r ELSE image[k]
  BY <1>1 DEF RowsAre
<1>3. RowsRight'
  BY <1>1, <1>2 DEF RowsRight, RowsAre, RowRight
<1>4. now.failed \subseteq Ids /\ image[i].here \in {"not_yet", "yes", "deleted"}
  BY <1>1 DEF Reads!Request, RowsAre, Row
<1> QED
  BY <1>1, <1>2, <1>3, <1>4 DEF Leaves

\* The row of a failed fetch.
LEMMA FailedRow ==
  ASSUME ReadsInv, NEW i \in Ids, NEW broken \in BOOLEAN, Reads!Fail(i, broken)
  PROVE  /\ RowsRight'
         /\ \A k \in Ids : image'[k].here = image[k].here
         /\ \A k \in Ids : image[k].fail = "recent" => image'[k].fail = "recent"
         /\ image'[i].fail = "recent"
<1>1. RowsAre(image) /\ image[i] \in Row /\ RowRight(image[i])
  BY DEF ReadsInv, RowsRight, RowsAre
<1> DEFINE status == IF broken THEN 3 ELSE image[i].status
           here   == image[i].here
<1>2. PICK r : r = [image[i] EXCEPT !.status = status, !.fail = "recent", !.here = here]
  OBVIOUS
<1>3. status \in 1..3 /\ here \in {"not_yet", "yes", "deleted"}
  BY <1>1 DEF Row
<1>4. r = [image[i] EXCEPT !.fail = "recent", !.status = status]
  BY <1>1, <1>2 DEF Row
<1>5. image' = [image EXCEPT ![i] = r]
  BY <1>4 DEF Reads!Fail, Reads!Broken
<1> HIDE DEF status
<1>6. RowRight(r) /\ r.fail = "recent" /\ r.here = image[i].here
  <2>1. RowRight(r)
    BY <1>1, <1>2, <1>3, ChangedRowRight, Zenon
  <2> QED
    BY <1>1, <1>2, <2>1 DEF Row
<1>7. RowsRight'
  BY <1>5, <1>6, OneImageRow
<1>8. \A k \in Ids : image'[k] = IF k = i THEN r ELSE image[k]
  BY <1>1, <1>5 DEF RowsAre
<1> QED
  BY <1>6, <1>7, <1>8

LEMMA MarkStep == ASSUME ReadsInv, Reads!Mark PROVE ReadsInv'
<1>1. RowsRight /\ RequestRight(image, now) /\ Sound(now) /\ now \in Reads!Request
      /\ now.pc = "mark" /\ now.said = "none" /\ now.id \in Ids
  BY DEF ReadsInv, RequestRight, Sound, Serving, Reads!Mark
<1>2. CASE image[now.id].here # "yes"
  <2>1. now' = Reads!Say(now, "error") /\ image' = image
    BY <1>2 DEF Reads!Mark
  <2>2. RequestRight(image, now')
    BY <1>1, <2>1, SayRight
  <2> QED
    BY <1>1, <2>1, <2>2 DEF ReadsInv, RowsRight
<1>3. CASE image[now.id].here = "yes"
  <2> DEFINE failed == now.failed \union {now.id}
             misses == now.misses + 1
             tried == [now EXCEPT !.failed = failed, !.misses = misses]
             next == IF now.terminal THEN [tried EXCEPT !.pc = "heal"] ELSE Reads!NextAttempt(tried)
  <2>1. Reads!Fail(now.id, now.terminal) /\ now' = Reads!Watch(image', next)
    BY <1>3 DEF Reads!Mark
  <2>2. /\ now.terminal \in BOOLEAN /\ failed \in SUBSET Ids
        /\ misses \in 0..10 /\ misses = now.attempt
        /\ now.attempt <= Reads!ParseAttempts(now.ask)
    BY <1>1 DEF RequestRight, Counted, Reads!Request
  <2>3. /\ RowsRight'
        /\ \A k \in Ids : image'[k].here = image[k].here
        /\ \A k \in Ids : image[k].fail = "recent" => image'[k].fail = "recent"
        /\ image'[now.id].fail = "recent"
    BY <1>1, <2>1, <2>2, FailedRow
  <2>4. \A i \in failed : image'[i].fail = "recent" /\ image'[i].here # "not_yet"
    BY <1>1, <1>3, <2>2, <2>3 DEF RequestRight, Leaves
  <2> HIDE DEF failed, misses
  <2>5. tried \in Reads!Request /\ tried.pc = "mark" /\ tried.said = "none" /\ tried.steady = now.steady
        /\ tried.ever = now.ever /\ tried.lost = now.lost
        /\ tried.misses = misses /\ tried.attempt = now.attempt /\ tried.id = now.id /\ tried.failed = failed
        /\ tried.ask = now.ask
    BY <1>1, <2>2 DEF Reads!Request
  <2> HIDE DEF tried
  <2>6. Sound(tried)
    BY <1>1, <2>5 DEF Sound, Serving
  <2>7. Sound(next) /\ Counted(next) /\ next.failed = failed /\ next.pc # "load"
    <3>1. CASE now.terminal
      <4> DEFINE s == [tried EXCEPT !.pc = "heal"]
      <4>1. s \in Reads!Request /\ s.pc = "heal" /\ s.said = "none" /\ s.steady = tried.steady
            /\ s.ever = tried.ever /\ s.lost = tried.lost
            /\ s.misses = tried.misses /\ s.attempt = tried.attempt /\ s.id = tried.id /\ s.failed = failed
            /\ s.ask = tried.ask
        BY <2>5 DEF Reads!Request
      <4>2. next = s
        BY <3>1
      <4> HIDE DEF s, next
      <4>3. Sound(s) /\ Counted(s)
        BY <2>2, <2>5, <2>6, <4>1 DEF Sound, Counted, Serving
      <4> QED
        BY <4>1, <4>2, <4>3
    <3>2. CASE ~now.terminal
      BY <2>2, <2>5, <2>6, <3>2, NextAttemptRight
    <3> QED
      BY <3>1, <3>2
  <2> HIDE DEF next
  <2>8. RequestRight(image', now')
    BY <2>1, <2>4, <2>7, WatchRight DEF Leaves
  <2> QED
    BY <2>3, <2>8 DEF ReadsInv
<1> QED
  BY <1>2, <1>3

LEMMA StreamBreaksStep == ASSUME ReadsInv, Reads!StreamBreaks PROVE ReadsInv'
<1>1. RowsRight /\ RequestRight(image, now) /\ Sound(now) /\ now \in Reads!Request
      /\ now.pc = "stream" /\ now.id \in Ids /\ now.failed \subseteq Ids
  BY DEF ReadsInv, RequestRight, Sound, Serving, Reads!StreamBreaks, Reads!Request
<1> DEFINE s == [now EXCEPT !.pc = "idle"]
<1>2. now' = Reads!Watch(image', s)
  BY DEF Reads!StreamBreaks
<1>3. /\ RowsRight'
      /\ \A k \in Ids : image'[k].here = image[k].here
      /\ \A k \in Ids : image[k].fail = "recent" => image'[k].fail = "recent"
  <2>1. CASE image[now.id].here = "yes"
    BY <1>1, <2>1, FailedRow DEF Reads!StreamBreaks
  <2>2. CASE image[now.id].here # "yes"
    BY <1>1, <2>2 DEF Reads!StreamBreaks, RowsRight
  <2> QED
    BY <2>1, <2>2
<1>4. s \in Reads!Request /\ s.pc = "idle" /\ s.said = now.said /\ s.steady = now.steady
      /\ s.ever = now.ever /\ s.lost = now.lost
      /\ s.misses = now.misses /\ s.attempt = now.attempt /\ s.id = now.id /\ s.failed = now.failed
      /\ s.ask = now.ask
  BY <1>1 DEF Reads!Request
<1> HIDE DEF s
<1>5. Sound(s) /\ Counted(s) /\ Leaves(image', s)
  BY <1>1, <1>3, <1>4 DEF RequestRight, Sound, Counted, Leaves, Serving
<1>6. RequestRight(image', now')
  BY <1>2, <1>5, WatchRight
<1> QED
  BY <1>3, <1>6 DEF ReadsInv

\* What others do to a row.
LEMMA EditSteps ==
  ASSUME ReadsInv, NEW i \in Ids,
         \/ \E m \in Metadata : Reads!Hydrate(i, m) \/ Reads!Import(i, m)
         \/ \E s \in {Reads!Active, Reads!Disabled, Reads!Broken} : Reads!SetStatus(i, s)
         \/ Reads!Delete(i) \/ Reads!CoolDown(i)
  PROVE  ReadsInv'
<1>1. RowsAre(image) /\ image[i] \in Row /\ RowRight(image[i]) /\ RequestRight(image, now)
      /\ Sound(now) /\ Counted(now) /\ now \in Reads!Request /\ Leaves(image, now)
      /\ (now.pc = "load" => now.id \in Ids) /\ now.failed \subseteq Ids
  BY DEF ReadsInv, RowsRight, RowsAre, RequestRight, Sound, Serving, Reads!Request
<1>2. ASSUME NEW r, RowRight(r), image' = [image EXCEPT ![i] = r],
             now' = Reads!Watch(image', now), r.fail = image[i].fail,
             image[i].here = "yes" => r.here = "yes",
             image[i].here = "deleted" => r.here = "deleted"
      PROVE  ReadsInv'
  <2>1. RowsRight' /\ Leaves(image', now)
    BY <1>2, OneImageRow
  <2>2. RequestRight(image', now')
    BY <1>1, <1>2, <2>1, WatchRight
  <2> QED
    BY <2>1, <2>2 DEF ReadsInv
<1>3. ASSUME NEW m \in Metadata, Reads!Hydrate(i, m) PROVE ReadsInv'
  <2> DEFINE n == Reads!NewRow(m, "yes")
  <2>1. image[i].here = "yes"
        /\ image' = [image EXCEPT ![i] = [n EXCEPT !.status = image[i].status,
                                                   !.fail = image[i].fail]]
        /\ now' = Reads!Watch(image', now)
    BY Zenon, <1>3 DEF Reads!Hydrate, Reads!Edit
  <2>2. RowRight(n) /\ n.here = "yes"
    BY NewRowRight
  <2> HIDE DEF n
  <2>3. PICK r : r = [n EXCEPT !.status = image[i].status, !.fail = image[i].fail, !.here = "yes"]
    OBVIOUS
  <2>4. r = [n EXCEPT !.status = image[i].status, !.fail = image[i].fail]
    BY <2>2, <2>3 DEF RowRight, Row
  <2>5. RowRight(r)
    BY <1>1, <2>2, <2>3, ChangedRowRight, Zenon DEF Row
  <2>6. r.fail = image[i].fail /\ r.here = "yes"
    BY <2>2, <2>3 DEF RowRight, Row
  <2> QED
    BY <1>2, <2>1, <2>4, <2>5, <2>6
<1>4. ASSUME NEW m \in Metadata, Reads!Import(i, m) PROVE ReadsInv'
  <2>1. image[i].here = "not_yet" /\ image' = [image EXCEPT ![i] = Reads!NewRow(m, "yes")]
        /\ now' = Reads!Watch(image', now)
    BY <1>4 DEF Reads!Import, Reads!Edit
  <2>2. RowRight(Reads!NewRow(m, "yes")) /\ Reads!NewRow(m, "yes").here = "yes"
    BY NewRowRight
  <2>3. RowsRight'
    BY <2>1, <2>2, OneImageRow
  <2>4. \A k \in Ids : image'[k] = IF k = i THEN Reads!NewRow(m, "yes") ELSE image[k]
    BY <1>1, <2>1 DEF RowsAre
  <2>5. Leaves(image', now)
    BY <1>1, <2>1, <2>2, <2>4 DEF Leaves
  <2>6. RequestRight(image', now')
    BY <1>1, <2>1, <2>5, WatchRight
  <2> QED
    BY <2>3, <2>6 DEF ReadsInv
<1>5. ASSUME NEW s \in {Reads!Active, Reads!Disabled, Reads!Broken}, Reads!SetStatus(i, s)
      PROVE  ReadsInv'
  <2>1. image[i].here = "yes" /\ now' = Reads!Watch(image', now) /\ s \in 1..3
        /\ image' = [image EXCEPT ![i].status = s]
    BY <1>5 DEF Reads!SetStatus, Reads!Edit, Reads!Active, Reads!Disabled, Reads!Broken
  <2>2. PICK r : r = [image[i] EXCEPT !.status = s, !.fail = image[i].fail, !.here = "yes"]
    OBVIOUS
  <2>3. r = [image[i] EXCEPT !.status = s]
    BY <1>1, <2>1, <2>2 DEF Row
  <2>4. RowRight(r)
    BY <1>1, <2>1, <2>2, ChangedRowRight, Zenon DEF Row
  <2>5. r.fail = image[i].fail /\ r.here = "yes" /\ image' = [image EXCEPT ![i] = r]
    BY <1>1, <2>1, <2>2, <2>3 DEF Row
  <2> QED
    BY <1>2, <2>1, <2>4, <2>5
<1>6. CASE Reads!Delete(i)
  <2> DEFINE lost == now.lost \/ (now.pc = "load" /\ now.id = i)
             w == Reads!Watch(image', now)
             q == [now EXCEPT !.lost = lost]
  <2>1. image[i].here = "yes" /\ image' = [image EXCEPT ![i].here = "deleted"]
        /\ now' = [w EXCEPT !.lost = @ \/ (now.pc = "load" /\ now.id = i)]
    BY <1>6 DEF Reads!Delete
  <2>2. PICK r : r = [image[i] EXCEPT !.status = image[i].status, !.fail = image[i].fail,
                                      !.here = "deleted"]
    BY Zenon
  <2>3. RowRight(r)
    BY Zenon, <1>1, <2>2, ChangedRowRight DEF Row
  <2>4. r.fail = image[i].fail /\ r.here = "deleted" /\ r = [image[i] EXCEPT !.here = "deleted"]
    BY <1>1, <2>2 DEF Row
  <2>5. RowsRight' /\ \A k \in Ids : image'[k] = IF k = i THEN r ELSE image[k]
    BY <1>1, <2>1, <2>3, <2>4, OneImageRow DEF RowsAre
  <2>6. lost \in BOOLEAN
    BY <1>1 DEF Reads!Request
  <2>7. q \in Reads!Request /\ q.pc = now.pc /\ q.said = now.said /\ q.steady = now.steady
        /\ q.ever = now.ever /\ (q.lost <=> lost)
        /\ q.misses = now.misses /\ q.attempt = now.attempt /\ q.id = now.id /\ q.failed = now.failed
        /\ q.ask = now.ask /\ q.hot = now.hot
    BY <1>1, <2>6, Zenon DEF Reads!Request
  <2>8. Reads!Watch(image', q) = now'
    <3> DEFINE m == Reads!Matching(image', now.ask)
    <3>1. w = [now EXCEPT !.steady = @ \intersect m, !.ever = @ \union m]
      BY DEF Reads!Watch
    <3>2. Reads!Watch(image', q) = [q EXCEPT !.steady = @ \intersect m, !.ever = @ \union m]
      BY <2>7 DEF Reads!Watch
    <3> HIDE DEF m, w
    <3>3. now' = [now EXCEPT !.steady = @ \intersect m, !.ever = @ \union m, !.lost = lost]
      BY <1>1, <2>1, <3>1 DEF Reads!Request
    <3> QED
      BY <1>1, <3>2, <3>3 DEF Reads!Request
  <2> HIDE DEF q, w
  <2>9. Sound(q) /\ Counted(q) /\ Leaves(image', q)
    <3>1. Sound(q) /\ Counted(q)
      BY <1>1, <2>7 DEF Sound, Counted
    <3>2. q.pc = "load" /\ image'[q.id].here # "yes" => q.lost
      <4>1. CASE now.id = i
        BY <2>7, <4>1
      <4>2. CASE now.id # i
        BY <1>1, <2>5, <2>7, <4>2 DEF Leaves
      <4> QED
        BY <4>1, <4>2
    <3>3. ASSUME NEW k \in now.failed
          PROVE  image'[k].fail = "recent" /\ image'[k].here # "not_yet"
      <4>1. k \in Ids /\ image[k].fail = "recent" /\ image[k].here # "not_yet"
        BY <1>1 DEF Leaves
      <4>2. image'[k] = IF k = i THEN r ELSE image[k]
        BY <2>5, <4>1
      <4> QED
        BY <2>4, <4>1, <4>2
    <3>4. q.failed = now.failed
      BY <2>7
    <3> QED
      BY <3>1, <3>2, <3>3, <3>4 DEF Leaves
  <2>10. RequestRight(image', now')
    BY <2>8, <2>9, WatchRight
  <2> QED
    BY <2>5, <2>10 DEF ReadsInv
<1>7. CASE Reads!CoolDown(i)
  <2> DEFINE failed == now.failed \ {i}
             w == Reads!Watch(image', now)
             q == [now EXCEPT !.failed = failed]
  <2>1. image' = [image EXCEPT ![i].fail = "old"] /\ now' = [w EXCEPT !.failed = @ \ {i}]
    BY <1>7 DEF Reads!CoolDown
  <2>2. PICK r : r = [image[i] EXCEPT !.status = image[i].status, !.fail = "old",
                                      !.here = image[i].here]
    BY Zenon
  <2>3. RowRight(r)
    BY Zenon, <1>1, <2>2, ChangedRowRight DEF Row
  <2>4. r.here = image[i].here /\ r = [image[i] EXCEPT !.fail = "old"]
    BY <1>1, <2>2 DEF Row
  <2>5. RowsRight' /\ \A k \in Ids : image'[k] = IF k = i THEN r ELSE image[k]
    BY <1>1, <2>1, <2>3, <2>4, OneImageRow DEF RowsAre
  <2>6. failed \in SUBSET Ids
    BY <1>1
  <2>7. q \in Reads!Request /\ q.pc = now.pc /\ q.said = now.said /\ q.steady = now.steady
        /\ q.ever = now.ever /\ q.lost = now.lost
        /\ q.misses = now.misses /\ q.attempt = now.attempt /\ q.id = now.id /\ q.failed = failed
        /\ q.ask = now.ask /\ q.hot = now.hot
    BY <1>1, <2>6 DEF Reads!Request
  <2>8. Reads!Watch(image', q) = now'
    <3> DEFINE m == Reads!Matching(image', now.ask)
    <3>1. w = [now EXCEPT !.steady = @ \intersect m, !.ever = @ \union m]
      BY DEF Reads!Watch
    <3>2. Reads!Watch(image', q) = [q EXCEPT !.steady = @ \intersect m, !.ever = @ \union m]
      BY <2>7 DEF Reads!Watch
    <3> HIDE DEF m, w
    <3>3. now' = [now EXCEPT !.steady = @ \intersect m, !.ever = @ \union m, !.failed = failed]
      BY <1>1, <2>1, <3>1 DEF Reads!Request
    <3> QED
      BY <1>1, <3>2, <3>3 DEF Reads!Request
  <2> HIDE DEF q, w
  <2>9. Sound(q) /\ Counted(q) /\ Leaves(image', q)
    <3>1. Sound(q) /\ Counted(q)
      BY <1>1, <2>7 DEF Sound, Counted
    <3>2. Leaves(image', q)
      BY <1>1, <2>4, <2>5, <2>7, ZenonT(30) DEF Leaves
    <3> QED
      BY <3>1, <3>2
  <2>10. RequestRight(image', now')
    BY <2>8, <2>9, WatchRight
  <2> QED
    BY <2>5, <2>10 DEF ReadsInv
<1> QED
  BY <1>3, <1>4, <1>5, <1>6, <1>7

LEMMA NextReadsInv == ReadsInv /\ Reads!Next => ReadsInv'
<1> SUFFICES ASSUME ReadsInv, Reads!Next PROVE ReadsInv'
  OBVIOUS
<1>1. UNCHANGED <<image, now>> => ReadsInv'
  BY DEF ReadsInv, RowsRight
<1>2. ASSUME NEW a \in Asks, NEW limit \in {Reads!Absent, 1, 2}, Reads!WalkImages(a, limit)
      PROVE  ReadsInv'
  BY <1>1, <1>2 DEF Reads!WalkImages
<1>3. ASSUME NEW list \in {"tags", "authors"}, NEW q \in {"none", "name", "id"},
             NEW limit \in {Reads!Absent, 1, 2}, Reads!WalkNames(list, q, limit)
      PROVE  ReadsInv'
  BY <1>1, <1>3 DEF Reads!WalkNames
<1>4. CASE Reads!Page \/ Reads!PageRows
  BY <1>1, <1>4 DEF Reads!Page, Reads!PageRows
<1> QED
  BY <1>2, <1>3, <1>4, RequestSteps, MarkStep, StreamBreaksStep, EditSteps DEF Reads!Next

LEMMA SameReadsInv == ReadsInv /\ UNCHANGED <<image, now>> => ReadsInv'
BY DEF ReadsInv, RowsRight

-----------------------------------------------------------------------------
(***************************************************************************)
(* The lists.  What the client has of a list is never after its cursor;    *)
(* what was to be listed all the while and is not listed yet comes after   *)
(* the cursor, or is on the page whose rows are read.  A page takes the    *)
(* first of what comes after the cursor, so nothing is left between it and *)
(* the next cursor.                                                        *)
(***************************************************************************)
After(w, k) == w.cursor = 0 \/ Reads!Before(w.list, w.cursor, k)
Listed(w, k) == \E n \in DOMAIN w.listed : w.listed[n] = k
Once(w) == \A m, n \in DOMAIN w.listed : m # n => w.listed[m] # w.listed[n]

\* What a walk that is under way has asked, and what it watches.
Asked(rows, tagRows, w) ==
  /\ w.list # "none" /\ w.steady \subseteq Reads!Meant(rows, tagRows, w)
  /\ w.list = "images" => Proper(w.ask)
  /\ w.list = "authors" /\ w.q = "id" => w.cursor = 0

Behind(w) == \A n \in DOMAIN w.listed : w.cursor # 0 /\ ~Reads!Before(w.list, w.cursor, w.listed[n])

\* A page, of which none is past the next cursor; and what is neither on it nor
\* listed comes after.
Paged(w, keys, next) ==
  /\ keys \subseteq Reads!Keys /\ IsFiniteSet(keys) /\ next \in Nat
  /\ \A k \in keys : After(w, k)
  /\ next # 0 => /\ After(w, next) /\ \A k \in keys : ~Reads!Before(w.list, next, k)
                 /\ ~(w.list = "authors" /\ w.q = "id")
  /\ \A k \in w.steady : Listed(w, k) \/ k \in keys \/ (next # 0 /\ Reads!Before(w.list, next, k))

Walking(rows, tagRows, w) ==
  /\ w \in Reads!Walk /\ Once(w)
  /\ w.list = "none" => w.pc = "idle"
  /\ w.list # "none" /\ w.pc = "idle" => \A k \in w.steady : Listed(w, k)
  /\ w.pc # "idle" => Asked(rows, tagRows, w) /\ Behind(w)
  /\ w.pc = "page" => \A k \in w.steady : Listed(w, k) \/ After(w, k)
  /\ w.pc = "rows" => w.list = "images" /\ Paged(w, w.page, w.next)

WalkInv ==
  /\ tags \subseteq Reads!Keys /\ IsFiniteSet(tags)
  /\ walk.list # "none" => now.pc = "idle"
  /\ Walking(image, tags, walk)

LEMMA WalkInvGives == WalkInv => Reads!WalkListsAll
BY DEF WalkInv, Walking, Once, Listed, Reads!WalkListsAll

\* The places of the keys of a list, in its order.
LEMMA KeysPlaced ==
  ASSUME NEW keys, keys \subseteq Reads!Keys, IsFiniteSet(keys), NEW list
  PROVE  /\ Reads!Cardinality(keys) \in Nat
         /\ \A i \in keys : Reads!Place(list, keys, i) \in 0..Reads!Cardinality(keys) - 1
         /\ \A i, j \in keys :
              Reads!Before(list, j, i) <=> Reads!Place(list, keys, j) < Reads!Place(list, keys, i)
         /\ \A n \in 0..Reads!Cardinality(keys) - 1 : \E i \in keys : Reads!Place(list, keys, i) = n
<1> DEFINE ahead == [i \in keys |-> {j \in keys : Reads!Before(list, j, i)}]
<1>1. \A i, j \in keys : j \in ahead[i] <=> Reads!Before(list, j, i)
  OBVIOUS
<1>2. ahead \in [keys -> SUBSET keys]
  OBVIOUS
<1>3. \A i \in keys : Reads!Place(list, keys, i) = Cardinality(ahead[i])
  BY DEF Reads!Place, Reads!Cardinality, Cardinality
<1>4. Reads!Cardinality(keys) = Cardinality(keys)
  BY DEF Reads!Cardinality, Cardinality
<1> HIDE DEF ahead
<1>5. /\ \A i \in keys : i \notin ahead[i]
      /\ \A i, j \in keys : j \in ahead[i] => ahead[j] \subseteq ahead[i]
      /\ \A i, j \in keys : i # j => i \in ahead[j] \/ j \in ahead[i]
  <2>1. keys \subseteq Nat
    BY DEF Reads!Keys
  <2>2. \A i \in keys : i \notin ahead[i]
    BY <1>1, <2>1 DEF Reads!Before
  <2>3. ASSUME NEW i \in keys, NEW j \in keys, j \in ahead[i], NEW k \in ahead[j]
        PROVE  k \in ahead[i]
    <3>1. k \in keys /\ Reads!Before(list, k, j) /\ Reads!Before(list, j, i)
      BY <1>1, <1>2, <2>3
    <3>2. Reads!Before(list, k, i)
      BY <2>1, <3>1 DEF Reads!Before
    <3> QED
      BY <1>1, <3>1, <3>2
  <2>4. \A i, j \in keys : i # j => i \in ahead[j] \/ j \in ahead[i]
    BY <1>1, <2>1 DEF Reads!Before
  <2> QED
    BY <2>2, <2>3, <2>4
<1>6. /\ Cardinality(keys) \in Nat
      /\ \A i \in keys : Cardinality(ahead[i]) \in 0..Cardinality(keys) - 1
      /\ \A i, j \in keys : j \in ahead[i] <=> Cardinality(ahead[j]) < Cardinality(ahead[i])
      /\ \A n \in 0..Cardinality(keys) - 1 : \E i \in keys : Cardinality(ahead[i]) = n
  BY <1>2, <1>5, PlacesTaken
<1> QED
  BY <1>1, <1>3, <1>4, <1>6

\* A page in order has every key of it, and each once.
LEMMA InOrderLists ==
  ASSUME NEW keys, keys \subseteq Reads!Keys, IsFiniteSet(keys), NEW list
  PROVE  LET s == Reads!InOrder(list, keys)
         IN /\ s \in Seq(Reads!Keys)
            /\ \A n \in DOMAIN s : s[n] \in keys
            /\ \A m, n \in DOMAIN s : m # n => s[m] # s[n]
            /\ \A k \in keys : \E n \in DOMAIN s : s[n] = k
<1> DEFINE card == Reads!Cardinality(keys)
           place == [i \in keys |-> Reads!Place(list, keys, i)]
           s == Reads!InOrder(list, keys)
<1>1. /\ card \in Nat /\ \A i \in keys : place[i] \in 0..card - 1
      /\ \A i, j \in keys : Reads!Before(list, j, i) <=> place[j] < place[i]
      /\ \A n \in 0..card - 1 : \E i \in keys : place[i] = n
  <2>1. \A i \in keys : place[i] = Reads!Place(list, keys, i)
    OBVIOUS
  <2> HIDE DEF place
  <2> QED
    BY <2>1, KeysPlaced
<1>2. s = [n \in 1..card |-> CHOOSE i \in keys : place[i] = n - 1]
  BY DEF Reads!InOrder
<1> HIDE DEF card, place, s
<1>3. \A n \in 1..card : s[n] \in keys /\ place[s[n]] = n - 1
  <2> SUFFICES ASSUME NEW n \in 1..card PROVE s[n] \in keys /\ place[s[n]] = n - 1
    OBVIOUS
  <2>1. n - 1 \in 0..card - 1
    BY <1>1
  <2> QED
    BY <1>1, <1>2, <2>1
<1>4. s \in Seq(Reads!Keys) /\ DOMAIN s = 1..card
  <2>1. s \in [1..card -> Reads!Keys]
    BY <1>2, <1>3
  <2> QED
    BY <1>1, <2>1
<1>5. \A m, n \in DOMAIN s : m # n => s[m] # s[n]
  BY <1>3, <1>4
<1>6. ASSUME NEW k \in keys PROVE \E n \in DOMAIN s : s[n] = k
  <2>1. PICK n : n = place[k] + 1
    OBVIOUS
  <2>2. n \in 1..card /\ place[k] = n - 1
    BY <1>1, <2>1
  <2>3. s[n] \in keys /\ place[s[n]] = place[k]
    BY <1>3, <2>2
  <2>4. s[n] = k
    <3>1. PICK i \in keys : i = s[n]
      BY <2>3
    <3>2. ~Reads!Before(list, i, k) /\ ~Reads!Before(list, k, i)
      BY <1>1, <2>3, <3>1
    <3>3. i \in Nat /\ k \in Nat
      BY DEF Reads!Keys
    <3> QED
      BY <3>1, <3>2, <3>3 DEF Reads!Before
  <2> QED
    BY <1>4, <2>2, <2>4
<1> QED
  BY <1>3, <1>4, <1>5, <1>6 DEF s

\* What is to be listed are finitely many keys, and authors by their id one at most.
LEMMA MeantKeys ==
  ASSUME RowsRight, tags \subseteq Reads!Keys, IsFiniteSet(tags),
         NEW w \in Reads!Walk, w.list # "none"
  PROVE  LET meant == Reads!Meant(image, tags, w)
         IN /\ meant \subseteq Reads!Keys /\ IsFiniteSet(meant)
            /\ w.list = "authors" /\ w.q = "id" => meant \subseteq {1}
<1>1. CASE w.list = "images"
  <2>1. Reads!Meant(image, tags, w) = Reads!Matching(image, w.ask)
    BY <1>1 DEF Reads!Meant
  <2>2. Reads!Matching(image, w.ask) \in SUBSET Ids
    BY DEF Reads!Matching
  <2>3. IsFiniteSet(Reads!Matching(image, w.ask))
    BY <2>2, ReadsConstants, FS_Subset
  <2> QED
    BY <1>1, <2>1, <2>2, <2>3, ReadsConstants DEF Reads!Keys
<1>2. CASE w.list = "tags"
  <2>1. Reads!Meant(image, tags, w) \in SUBSET tags
    BY <1>2 DEF Reads!Meant
  <2> QED
    BY <1>2, <2>1, FS_Subset
<1>3. CASE w.list = "authors"
  <2> DEFINE rows == {j \in Ids : /\ image[j].here = "yes"
                                  /\ image[j].userId # Reads!Null
                                  /\ w.q = "name" => image[j].named
                                  /\ w.q = "id" => image[j].userId = 1}
  <2>1. Reads!Meant(image, tags, w) = {image[i].userId : i \in rows}
    BY <1>3 DEF Reads!Meant
  <2>2. \A i \in rows : image[i].userId \in Reads!Keys
    BY DEF RowsRight, RowsAre, Row
  <2>3. w.q = "id" => \A i \in rows : image[i].userId = 1
    OBVIOUS
  <2>4. IsFiniteSet(rows)
    BY ReadsConstants, FS_Subset
  <2> HIDE DEF rows
  <2> DEFINE ids == {image[i].userId : i \in rows}
             f == [i \in rows |-> image[i].userId]
  <2>5. f \in Surjection(rows, ids)
    BY DEF Surjection
  <2>6. IsFiniteSet(ids)
    BY <2>4, <2>5, FS_Surjection
  <2> QED
    BY <2>1, <2>2, <2>3, <2>6
<1> QED
  BY <1>1, <1>2, <1>3 DEF Reads!Walk

\* A query for a page finds what comes after the cursor of what is to be listed.
LEMMA RowsMeant ==
  ASSUME RowsRight, NEW w \in Reads!Walk, Asked(image, tags, w)
  PROVE  Reads!Rows(w) = {k \in Reads!Meant(image, tags, w) : After(w, k)}
<1>1. CASE w.list = "images"
  <2>1. w.ask \in Asks /\ Proper(w.ask)
    BY <1>1 DEF Asked, Reads!Walk
  <2>2. Reads!Found(Reads!Filters(w.ask), Reads!Hot)
          = {i \in Reads!Matching(image, w.ask) : Cooldown => i \notin Reads!Hot}
    BY <2>1, FoundMeant
  <2>3. \A i \in Reads!Matching(image, w.ask) : Cooldown => i \notin Reads!Hot
    BY DEF Reads!Matching, Reads!Means, Reads!Hot
  <2> QED
    BY <1>1, <2>2, <2>3 DEF Reads!Rows, Reads!Meant, After
<1>2. CASE w.list = "tags"
  BY <1>2 DEF Reads!Rows, Reads!Meant, Reads!TagRows, After
<1>3. CASE w.list = "authors"
  <2> DEFINE rows == {j \in Ids : /\ image[j].here = "yes"
                                  /\ image[j].userId # Reads!Null
                                  /\ w.q = "name" => image[j].named
                                  /\ w.q = "id" => image[j].userId = 1}
  <2>1. w.q \in {"none", "name", "id"}
    BY DEF Reads!Walk
  <2>2. Reads!AuthorRows(w.q) = {image[i].userId : i \in rows}
    BY <2>1 DEF Reads!AuthorRows
  <2>3. Reads!Meant(image, tags, w) = {image[i].userId : i \in rows}
    BY <1>3 DEF Reads!Meant
  <2>4. w.q = "id" => w.cursor = 0
    BY <1>3 DEF Asked
  <2> HIDE DEF rows
  <2> QED
    BY <1>3, <2>2, <2>3, <2>4 DEF Reads!Rows, After
<1> QED
  BY <1>1, <1>2, <1>3 DEF Asked, Reads!Walk

\* The first of the rows, as many as a page has, and the last of these.
LEMMA PageTaken ==
  ASSUME NEW w \in Reads!Walk, NEW rows, rows \subseteq Reads!Keys, IsFiniteSet(rows)
  PROVE  LET taken == Reads!Taken(w, rows)
             next == Reads!NextCursor(w, rows)
         IN /\ taken \subseteq rows /\ IsFiniteSet(taken) /\ next \in Nat
            /\ next = 0 => taken = rows
            /\ next # 0 => /\ next \in rows
                           /\ \A k \in taken : ~Reads!Before(w.list, next, k)
                           /\ \A k \in rows \ taken : Reads!Before(w.list, next, k)
            /\ rows \subseteq {1} => next = 0
<1> DEFINE card == Reads!Cardinality(rows)
           place == [i \in rows |-> Reads!Place(w.list, rows, i)]
           limit == w.limit
<1>1. /\ card \in Nat /\ \A i \in rows : place[i] \in 0..card - 1
      /\ \A i, j \in rows : Reads!Before(w.list, j, i) <=> place[j] < place[i]
      /\ \A n \in 0..card - 1 : \E i \in rows : place[i] = n
  <2>1. \A i \in rows : place[i] = Reads!Place(w.list, rows, i)
    OBVIOUS
  <2> HIDE DEF place
  <2> QED
    BY <2>1, KeysPlaced
<1>2. limit \in Nat \ {0}
  BY DEF Reads!Walk
<1>3. Reads!Taken(w, rows) = {i \in rows : place[i] < limit}
  BY DEF Reads!Taken
<1>4. Reads!NextCursor(w, rows)
        = IF card <= limit THEN 0
          ELSE CHOOSE i \in rows : Reads!Place(w.list, rows, i) = limit - 1
  BY DEF Reads!NextCursor
<1>5. IsFiniteSet(Reads!Taken(w, rows))
  BY <1>3, FS_Subset
<1>6. rows \subseteq {1} => card <= limit
  <2>1. card = Cardinality(rows)
    BY DEF Reads!Cardinality, Cardinality
  <2>2. rows \subseteq {1} => rows \in SUBSET {1}
    OBVIOUS
  <2>3. IsFiniteSet({1}) /\ Cardinality({1}) = 1
    BY FS_Singleton
  <2>4. rows \subseteq {1} => Cardinality(rows) <= 1
    BY <2>2, <2>3, FS_Subset
  <2> QED
    BY <1>1, <1>2, <2>1, <2>4
<1> HIDE DEF card, place, limit
<1>7. CASE card <= limit
  BY <1>1, <1>2, <1>3, <1>4, <1>5, <1>7
<1>8. CASE card > limit
  <2> DEFINE next == Reads!NextCursor(w, rows)
  <2>1. limit - 1 \in 0..card - 1
    BY <1>1, <1>2, <1>8
  <2>2. next = CHOOSE i \in rows : Reads!Place(w.list, rows, i) = limit - 1
    BY <1>1, <1>2, <1>4, <1>8
  <2>3. \A i \in rows : place[i] = Reads!Place(w.list, rows, i)
    BY DEF place
  <2>4. \E i \in rows : Reads!Place(w.list, rows, i) = limit - 1
    BY <1>1, <2>1, <2>3
  <2> HIDE DEF next
  <2>5. next \in rows /\ place[next] = limit - 1
    BY <2>2, <2>3, <2>4
  <2>6. next \in Nat \ {0}
    BY <2>5 DEF Reads!Keys
  <2>7. \A k \in rows : place[k] < limit => ~Reads!Before(w.list, next, k)
    BY <1>1, <1>2, <2>5
  <2>8. \A k \in rows : ~(place[k] < limit) => Reads!Before(w.list, next, k)
    BY <1>1, <1>2, <2>5
  <2> QED
    BY <1>1, <1>2, <1>3, <1>5, <1>6, <1>8, <2>5, <2>6, <2>7, <2>8 DEF next
<1> QED
  BY <1>1, <1>2, <1>7, <1>8

\* A page is delivered, and the walk goes on from its last key or is over.
LEMMA DeliverRight ==
  ASSUME NEW rows, NEW tagRows, NEW w \in Reads!Walk, Once(w), Asked(rows, tagRows, w), Behind(w),
         NEW keys, NEW next, Paged(w, keys, next)
  PROVE  Walking(rows, tagRows, Reads!Deliver(w, keys, next))
<1> DEFINE more == Reads!InOrder(w.list, keys)
           old == w.listed
           listed == old \o more
           pc == IF next = 0 THEN "idle" ELSE "page"
           s == Reads!Deliver(w, keys, next)
<1>1. old \in Seq(Reads!Keys) /\ w.cursor \in Nat /\ w.steady \subseteq Reads!Keys
      /\ keys \subseteq Reads!Keys /\ next \in Nat
  BY DEF Reads!Walk, Paged
<1>2. /\ more \in Seq(Reads!Keys)
      /\ \A n \in DOMAIN more : more[n] \in keys
      /\ \A m, n \in DOMAIN more : m # n => more[m] # more[n]
      /\ \A k \in keys : \E n \in DOMAIN more : more[n] = k
  BY InOrderLists DEF Paged
<1> HIDE DEF more
<1>3. /\ listed \in Seq(Reads!Keys) /\ DOMAIN listed = 1..Len(old) + Len(more)
      /\ \A n \in DOMAIN old : n \in DOMAIN listed /\ listed[n] = old[n]
      /\ \A n \in DOMAIN more : n + Len(old) \in DOMAIN listed /\ listed[n + Len(old)] = more[n]
      /\ \A n \in DOMAIN listed : \/ n \in DOMAIN old
                                  \/ n > Len(old) /\ n - Len(old) \in DOMAIN more
  BY <1>1, <1>2
<1>4. s = [w EXCEPT !.listed = listed, !.cursor = next, !.page = {}, !.next = 0, !.pc = pc]
  BY DEF Reads!Deliver, more
<1>5. /\ s \in Reads!Walk /\ s.listed = listed /\ s.cursor = next /\ s.pc = pc
      /\ s.list = w.list /\ s.ask = w.ask /\ s.q = w.q /\ s.steady = w.steady
  <2>1. listed \in Seq(Reads!Keys) /\ pc \in {"idle", "page"} /\ {} \subseteq Reads!Keys
    BY <1>3
  <2> HIDE DEF listed, pc, s
  <2>2. /\ s.listed = listed /\ s.cursor = next /\ s.pc = pc
        /\ s.list = w.list /\ s.ask = w.ask /\ s.q = w.q /\ s.steady = w.steady
    BY <1>4 DEF Reads!Walk
  <2>3. s \in Reads!Walk
    BY <1>1, <1>4, <2>1 DEF Reads!Walk
  <2> QED
    BY <2>2, <2>3
<1> HIDE DEF s, listed
<1>6. \A m \in DOMAIN old, n \in DOMAIN more : old[m] # more[n]
  BY <1>2 DEF Behind, Paged, After
<1>7. Once(s)
  <2> SUFFICES ASSUME NEW m \in DOMAIN listed, NEW n \in DOMAIN listed, listed[m] = listed[n]
               PROVE  m = n
    BY <1>5 DEF Once
  <2>1. CASE m \in DOMAIN old /\ n \in DOMAIN old
    BY <1>3, <2>1 DEF Once
  <2>2. ASSUME NEW i \in DOMAIN more, m = i + Len(old) PROVE m = n
    <3>1. n \notin DOMAIN old
      BY <1>3, <1>6, <2>2
    <3>2. PICK j : j = n - Len(old)
      OBVIOUS
    <3>3. j \in DOMAIN more /\ n = j + Len(old)
      BY <1>1, <1>3, <3>1, <3>2
    <3>4. more[i] = more[j]
      BY <1>3, <2>2, <3>3
    <3> QED
      BY <1>2, <2>2, <3>3, <3>4
  <2>3. CASE m \notin DOMAIN old
    <3>1. PICK i : i = m - Len(old)
      OBVIOUS
    <3>2. i \in DOMAIN more /\ m = i + Len(old)
      BY <1>1, <1>3, <2>3, <3>1
    <3> QED
      BY <2>2, <3>2
  <2>4. CASE m \in DOMAIN old /\ n \notin DOMAIN old
    <3>1. PICK i : i = n - Len(old)
      OBVIOUS
    <3>2. i \in DOMAIN more /\ n = i + Len(old)
      BY <1>1, <1>3, <2>4, <3>1
    <3> QED
      BY <1>3, <1>6, <2>4, <3>2
  <2> QED
    BY <2>1, <2>3, <2>4
<1>8. \A k \in w.steady : Listed(s, k) \/ (next # 0 /\ Reads!Before(w.list, next, k))
  <2> SUFFICES ASSUME NEW k \in w.steady, Listed(w, k) \/ k \in keys PROVE Listed(s, k)
    BY DEF Paged
  <2>1. CASE Listed(w, k)
    BY <1>3, <1>5, <2>1 DEF Listed
  <2>2. CASE k \in keys
    <3>1. PICK n \in DOMAIN more : more[n] = k
      BY <1>2, <2>2
    <3> QED
      BY <1>3, <1>5, <3>1 DEF Listed
  <2> QED
    BY <2>1, <2>2
<1>9. next # 0 => Behind(s)
  <2> SUFFICES ASSUME next # 0, NEW n \in DOMAIN listed
               PROVE  ~Reads!Before(w.list, next, listed[n])
    BY <1>5 DEF Behind
  <2>1. CASE n \in DOMAIN old
    <3>1. PICK k : k = old[n]
      OBVIOUS
    <3>2. w.cursor # 0 /\ ~Reads!Before(w.list, w.cursor, k) /\ k \in Nat
      BY <1>1, <2>1, <3>1 DEF Behind, Reads!Keys
    <3>3. Reads!Before(w.list, w.cursor, next)
      BY <3>2 DEF Paged, After
    <3>4. ~Reads!Before(w.list, next, k)
      BY <1>1, <3>2, <3>3 DEF Reads!Before
    <3> QED
      BY <1>3, <2>1, <3>1, <3>4
  <2>2. CASE n \notin DOMAIN old
    <3>1. PICK i : i = n - Len(old)
      OBVIOUS
    <3>2. i \in DOMAIN more /\ n = i + Len(old)
      BY <1>1, <1>3, <2>2, <3>1
    <3>3. listed[n] = more[i] /\ more[i] \in keys
      BY <1>2, <1>3, <3>2
    <3> QED
      BY <3>3 DEF Paged
  <2> QED
    BY <2>1, <2>2
<1>10. next # 0 => Asked(rows, tagRows, s)
  <2>1. Reads!Meant(rows, tagRows, s) = Reads!Meant(rows, tagRows, w)
    BY <1>5 DEF Reads!Meant
  <2> QED
    BY <1>5, <2>1 DEF Asked, Paged
<1> SUFFICES Walking(rows, tagRows, s)
  BY DEF s
<1>11. CASE next = 0
  <2>1. s.pc = "idle" /\ \A k \in s.steady : Listed(s, k)
    BY <1>5, <1>8, <1>11
  <2> QED
    BY <1>5, <1>7, <2>1 DEF Walking
<1>12. CASE next # 0
  <2>1. s.pc = "page" /\ \A k \in s.steady : Listed(s, k) \/ After(s, k)
    BY <1>5, <1>8, <1>12 DEF After
  <2> QED
    BY <1>5, <1>7, <1>9, <1>10, <1>12, <2>1 DEF Walking, Asked
<1> QED
  BY <1>11, <1>12

LEMMA ListPageSteps ==
  ASSUME RowsRight, WalkInv, Reads!Page \/ Reads!PageRows
  PROVE  WalkInv'
<1>1. walk \in Reads!Walk /\ Once(walk) /\ Walking(image, tags, walk) /\ walk.pc # "idle"
      /\ Asked(image, tags, walk) /\ Behind(walk)
  BY DEF WalkInv, Walking, Reads!Page, Reads!PageRows
<1>2. tags' = tags /\ image' = image /\ now' = now
  BY DEF Reads!Page, Reads!PageRows
<1>3. tags \subseteq Reads!Keys /\ IsFiniteSet(tags) /\ now.pc = "idle"
  BY <1>1 DEF WalkInv, Asked
<1>4. ASSUME Reads!Page PROVE Walking(image, tags, walk')
  <2> DEFINE rows == Reads!Rows(walk)
             taken == Reads!Taken(walk, rows)
             next == Reads!NextCursor(walk, rows)
             two == walk.list = "images" /\ Reads!ByPixels(Reads!Filters(walk.ask)) /\ taken # {}
  <2>1. walk.pc = "page"
        /\ walk' = IF two THEN [walk EXCEPT !.pc = "rows", !.page = taken, !.next = next]
                          ELSE Reads!Deliver(walk, taken, next)
    BY <1>4 DEF Reads!Page
  <2>2. rows = {k \in Reads!Meant(image, tags, walk) : After(walk, k)}
    BY <1>1, RowsMeant
  <2>3. /\ Reads!Meant(image, tags, walk) \subseteq Reads!Keys
        /\ IsFiniteSet(Reads!Meant(image, tags, walk))
        /\ walk.list = "authors" /\ walk.q = "id" => Reads!Meant(image, tags, walk) \subseteq {1}
    BY <1>1, <1>3, MeantKeys DEF Asked
  <2> HIDE DEF rows
  <2>4. rows \subseteq Reads!Keys /\ rows \in SUBSET Reads!Meant(image, tags, walk)
    BY <2>2, <2>3
  <2>5. IsFiniteSet(rows)
    BY <2>3, <2>4, FS_Subset
  <2>6. /\ taken \subseteq rows /\ IsFiniteSet(taken) /\ next \in Nat
        /\ next = 0 => taken = rows
        /\ next # 0 => /\ next \in rows
                       /\ \A k \in taken : ~Reads!Before(walk.list, next, k)
                       /\ \A k \in rows \ taken : Reads!Before(walk.list, next, k)
        /\ rows \subseteq {1} => next = 0
    BY <1>1, <2>4, <2>5, PageTaken
  <2> HIDE DEF taken, next
  <2>7. \A k \in walk.steady : Listed(walk, k) \/ k \in rows
    BY <1>1, <2>1, <2>2 DEF Walking, Asked
  <2>8. Paged(walk, taken, next)
    <3>1. \A k \in taken : After(walk, k)
      BY <2>2, <2>6
    <3>2. next # 0 => After(walk, next) /\ ~(walk.list = "authors" /\ walk.q = "id")
      BY <2>2, <2>3, <2>4, <2>6
    <3>3. \A k \in walk.steady : Listed(walk, k) \/ k \in taken
                                 \/ (next # 0 /\ Reads!Before(walk.list, next, k))
      BY <2>6, <2>7
    <3> QED
      BY <2>4, <2>6, <3>1, <3>2, <3>3 DEF Paged
  <2>9. CASE two
    <3> DEFINE s == [walk EXCEPT !.pc = "rows", !.page = taken, !.next = next]
    <3>1. walk' = s /\ taken \subseteq Reads!Keys /\ next \in Nat
      BY <2>1, <2>4, <2>6, <2>9
    <3>2. /\ s.pc = "rows" /\ s.page = taken /\ s.next = next /\ s.listed = walk.listed
          /\ s.cursor = walk.cursor /\ s.list = walk.list /\ s.ask = walk.ask /\ s.q = walk.q
          /\ s.steady = walk.steady
      BY <1>1 DEF Reads!Walk
    <3>3. s \in Reads!Walk
      BY <1>1, <3>1 DEF Reads!Walk
    <3> HIDE DEF s
    <3>4. Once(s) /\ Behind(s)
      BY <1>1, <3>2 DEF Once, Behind
    <3>5. Asked(image, tags, s)
      <4>1. Reads!Meant(image, tags, s) = Reads!Meant(image, tags, walk)
        BY <3>2 DEF Reads!Meant
      <4> QED
        BY <1>1, <3>2, <4>1 DEF Asked
    <3>6. Paged(s, taken, next)
      BY <2>8, <3>2 DEF Paged, After, Listed
    <3> QED
      BY <2>9, <3>1, <3>2, <3>3, <3>4, <3>5, <3>6 DEF Walking, Asked
  <2>10. CASE ~two
    <3>1. walk' = Reads!Deliver(walk, taken, next)
      BY <2>1, <2>10
    <3> QED
      BY <1>1, <2>8, <3>1, DeliverRight
  <2> QED
    BY <2>9, <2>10
<1>5. ASSUME Reads!PageRows PROVE Walking(image, tags, walk')
  <2> DEFINE keys == {i \in walk.page : image[i].here = "yes"}
  <2>1. walk.pc = "rows" /\ walk' = Reads!Deliver(walk, keys, walk.next)
    BY <1>5 DEF Reads!PageRows
  <2>2. walk.list = "images" /\ Paged(walk, walk.page, walk.next)
    BY <1>1, <2>1 DEF Walking
  <2>3. \A k \in walk.steady : image[k].here = "yes"
    BY <1>1, <2>2 DEF Asked, Reads!Meant, Reads!Matching, Reads!Means
  <2>4. IsFiniteSet(walk.page) /\ keys \in SUBSET walk.page
    BY <2>2 DEF Paged
  <2>5. IsFiniteSet(keys)
    BY <2>4, FS_Subset
  <2>6. Paged(walk, keys, walk.next)
    <3>1. \A k \in walk.steady : k \in walk.page => k \in keys
      BY <2>3
    <3> HIDE DEF keys
    <3> QED
      BY <2>2, <2>4, <2>5, <3>1 DEF Paged
  <2> QED
    BY <1>1, <2>1, <2>6, DeliverRight
<1>6. Walking(image, tags, walk')
  BY <1>4, <1>5
<1> QED
  BY <1>2, <1>3, <1>6 DEF WalkInv

\* A walk begins, before anything is listed.
LEMMA WalkBegins ==
  ASSUME WalkInv, Reads!Unused, NEW w \in Reads!Walk, w.pc = "page", w.list # "none",
         w.cursor = 0, w.listed = <<>>, w.list = "images" => Proper(w.ask),
         walk' = [w EXCEPT !.steady = Reads!Meant(image, tags, w)],
         Reads!Meant(image, tags, w) \subseteq Reads!Keys,
         UNCHANGED <<image, tags, now>>
  PROVE  WalkInv'
<1> DEFINE meant == Reads!Meant(image, tags, w)
           s == [w EXCEPT !.steady = meant]
<1>1. now.pc = "idle" /\ tags \subseteq Reads!Keys /\ IsFiniteSet(tags)
  BY DEF WalkInv, Reads!Unused
<1>2. /\ s.pc = "page" /\ s.listed = <<>> /\ s.cursor = 0 /\ s.list = w.list /\ s.ask = w.ask
      /\ s.q = w.q /\ s.steady = meant
  BY DEF Reads!Walk
<1>3. s \in Reads!Walk
  <2> HIDE DEF meant
  <2>1. meant \subseteq Reads!Keys
    BY DEF meant
  <2> QED
    BY <2>1 DEF Reads!Walk
<1> HIDE DEF s
<1>4. Reads!Meant(image, tags, s) = meant
  BY <1>2 DEF Reads!Meant
<1>5. DOMAIN s.listed = {}
  BY <1>2
<1>6. Once(s) /\ Behind(s) /\ Asked(image, tags, s)
  BY <1>2, <1>4, <1>5 DEF Once, Behind, Asked
<1>7. Walking(image, tags, s)
  BY <1>2, <1>3, <1>6 DEF Walking, After
<1> QED
  BY <1>1, <1>7 DEF WalkInv, s

LEMMA WalkStarts ==
  ASSUME RowsRight, WalkInv,
         \/ \E a \in Asks, limit \in {Reads!Absent, 1, 2} : Reads!WalkImages(a, limit)
         \/ \E list \in {"tags", "authors"}, q \in {"none", "name", "id"},
               limit \in {Reads!Absent, 1, 2} : Reads!WalkNames(list, q, limit)
  PROVE  WalkInv'
<1>1. tags \subseteq Reads!Keys /\ IsFiniteSet(tags)
  BY DEF WalkInv
<1> DEFINE none == Reads!NoWalk
<1>2. none \in Reads!Walk /\ none.listed = <<>> /\ none.cursor = 0
  <2>1. Reads!AnAsk \in Asks /\ <<>> \in Seq(Reads!Keys)
    BY ReadsConstants DEF Reads!AnAsk
  <2> QED
    BY <2>1 DEF Reads!NoWalk, Reads!Walk
<1> HIDE DEF none
<1>3. ASSUME NEW w \in Reads!Walk, w.pc = "page", w.list # "none", w.cursor = 0, w.listed = <<>>,
             Reads!Unused, w.list = "images" => Proper(w.ask),
             walk' = [w EXCEPT !.steady = Reads!Meant(image, tags, w)],
             UNCHANGED <<image, tags, now>>
      PROVE  WalkInv'
  <2>1. Reads!Meant(image, tags, w) \subseteq Reads!Keys
    BY <1>1, <1>3, MeantKeys
  <2> QED
    BY <1>3, <2>1, WalkBegins
<1>4. ASSUME NEW a \in Asks, NEW limit \in {Reads!Absent, 1, 2}, Reads!WalkImages(a, limit)
      PROVE  WalkInv'
  <2> DEFINE n == Reads!ListLimit(limit)
             w == [none EXCEPT !.pc = "page", !.list = "images", !.ask = a, !.limit = n]
  <2>1. Proper(a)
    BY Zenon, <1>4, ProperAsks DEF Reads!WalkImages
  <2>2. n \in Nat \ {0}
    BY DEF Reads!ListLimit, Reads!Absent
  <2>3. /\ Reads!Unused /\ walk' = [w EXCEPT !.steady = Reads!Meant(image, tags, w)]
        /\ UNCHANGED <<image, tags, now>>
    BY Zenon, <1>4 DEF Reads!WalkImages, none
  <2> HIDE DEF n
  <2>4. /\ w \in Reads!Walk /\ w.pc = "page" /\ w.list = "images" /\ w.cursor = 0
        /\ w.listed = <<>> /\ w.ask = a
    BY <1>2, <2>2 DEF Reads!Walk
  <2> HIDE DEF w
  <2> QED
    BY <1>3, <2>1, <2>3, <2>4
<1>5. ASSUME NEW list \in {"tags", "authors"}, NEW q \in {"none", "name", "id"},
             NEW limit \in {Reads!Absent, 1, 2}, Reads!WalkNames(list, q, limit)
      PROVE  WalkInv'
  <2> DEFINE n == Reads!SearchLimit(limit)
             w == [none EXCEPT !.pc = "page", !.list = list, !.q = q, !.limit = n]
  <2>1. n \in Nat \ {0}
    BY DEF Reads!SearchLimit, Reads!Absent
  <2>2. /\ Reads!Unused /\ walk' = [w EXCEPT !.steady = Reads!Meant(image, tags, w)]
        /\ UNCHANGED <<image, tags, now>>
    BY <1>5 DEF Reads!WalkNames, none
  <2> HIDE DEF n
  <2>3. /\ w \in Reads!Walk /\ w.pc = "page" /\ w.list = list /\ w.cursor = 0
        /\ w.listed = <<>>
    BY <1>2, <2>1 DEF Reads!Walk
  <2> HIDE DEF w
  <2> QED
    BY <1>3, <2>2, <2>3
<1> QED
  BY <1>4, <1>5

\* A request for an image leaves the walks alone, of which there is none.
LEMMA RequestWalks ==
  ASSUME WalkInv,
         \/ \E a \in Asks : Reads!Ask(a)
         \/ Reads!Pick \/ Reads!Fallback \/ Reads!Load \/ Reads!Retag \/ Reads!Served
         \/ Reads!FetchFails \/ Reads!Mark \/ Reads!Heal \/ Reads!StreamBreaks \/ Reads!StreamEnds
         \/ Reads!Abort \/ Reads!QueryFails
  PROVE  WalkInv'
<1>1. walk' = walk /\ tags' = tags /\ walk.list = "none"
  BY Zenon DEF WalkInv, Reads!Unused, Reads!Ask, Reads!Pick, Reads!Fallback, Reads!Load, Reads!Retag,
         Reads!Served, Reads!FetchFails, Reads!Mark, Reads!Heal, Reads!StreamBreaks,
         Reads!StreamEnds, Reads!Abort, Reads!QueryFails
<1>2. walk.pc = "idle"
  BY <1>1 DEF WalkInv, Walking
<1>3. Walking(image', tags', walk')
  BY <1>1, <1>2 DEF WalkInv, Walking
<1> QED
  BY <1>1, <1>3 DEF WalkInv

\* Rows change, and what the walk was to list all the while shrinks.
LEMMA WatchedWalk ==
  ASSUME NEW rows, NEW tagRows, NEW rows1, NEW tagRows1, NEW w, Walking(rows, tagRows, w)
  PROVE  /\ Walking(rows1, tagRows1, Reads!Watched(rows1, tagRows1, w))
         /\ Reads!Watched(rows1, tagRows1, w).list = w.list
<1>1. CASE w.pc = "idle"
  <2>1. Reads!Watched(rows1, tagRows1, w) = w
    BY <1>1 DEF Reads!Watched
  <2> QED
    BY <1>1, <2>1 DEF Walking
<1>2. CASE w.pc # "idle"
  <2> DEFINE meant == Reads!Meant(rows1, tagRows1, w)
             steady == w.steady \intersect meant
             s == [w EXCEPT !.steady = steady]
  <2>1. Reads!Watched(rows1, tagRows1, w) = s
    BY <1>2 DEF Reads!Watched
  <2>2. w \in Reads!Walk /\ steady \subseteq w.steady /\ steady \subseteq meant
    BY DEF Walking
  <2> HIDE DEF meant, steady
  <2>3. /\ s.pc = w.pc /\ s.list = w.list /\ s.ask = w.ask /\ s.q = w.q /\ s.cursor = w.cursor
        /\ s.page = w.page /\ s.next = w.next /\ s.listed = w.listed /\ s.steady = steady
    BY <2>2 DEF Reads!Walk
  <2>4. s \in Reads!Walk
    BY <2>2 DEF Reads!Walk
  <2> HIDE DEF s
  <2>5. Reads!Meant(rows1, tagRows1, s) = meant
    BY <2>3 DEF Reads!Meant, meant
  <2>6. Once(s) /\ Behind(s) /\ Asked(rows1, tagRows1, s)
    BY <1>2, <2>2, <2>3, <2>5 DEF Walking, Once, Behind, Asked
  <2>7. /\ s.pc = "page" => \A k \in s.steady : Listed(s, k) \/ After(s, k)
        /\ s.pc = "rows" => s.list = "images" /\ Paged(s, s.page, s.next)
    BY <2>2, <2>3 DEF Walking, Listed, After, Paged
  <2> QED
    BY <1>2, <2>1, <2>3, <2>4, <2>6, <2>7 DEF Walking, Asked
<1> QED
  BY <1>1, <1>2

LEMMA EditWalks ==
  ASSUME now \in Reads!Request, WalkInv, NEW i \in Ids,
         \/ \E m \in Metadata : Reads!Hydrate(i, m) \/ Reads!Import(i, m)
         \/ \E s \in {Reads!Active, Reads!Disabled, Reads!Broken} : Reads!SetStatus(i, s)
         \/ Reads!Delete(i) \/ Reads!CoolDown(i)
  PROVE  WalkInv'
<1>1. walk' = Reads!Watched(image', tags', walk)
  BY ZenonT(30) DEF Reads!Hydrate, Reads!Import, Reads!SetStatus, Reads!Delete, Reads!CoolDown, Reads!Edit
<1>2. tags' = tags \/ \E m \in Metadata : tags' = tags \union m.tags
  BY Zenon DEF Reads!Hydrate, Reads!Import, Reads!SetStatus, Reads!Delete, Reads!CoolDown, Reads!Edit
<1>3. tags' \subseteq Reads!Keys /\ IsFiniteSet(tags')
  <2>1. ASSUME NEW m \in Metadata
        PROVE  IsFiniteSet(tags \union m.tags) /\ m.tags \subseteq Reads!Keys
    BY ReadsConstants, FS_Union, Zenon DEF WalkInv
  <2> QED
    BY <1>2, <2>1 DEF WalkInv
<1>4. now'.pc = now.pc
  <2>1. Reads!Watch(image', now) \in [pc: {now.pc}, ask: Asks, attempt: 1..10, tries: 0..2,
                                      id: Ids \union {0}, hot: SUBSET Ids, terminal: BOOLEAN,
                                      failed: SUBSET Ids, misses: 0..10, said: {now.said},
                                      steady: SUBSET Ids,
                                      ever: {now.ever \union Reads!Matching(image', now.ask)},
                                      lost: BOOLEAN]
    BY DEF Reads!Watch, Reads!Request
  <2> QED
    BY Zenon, <2>1 DEF Reads!Hydrate, Reads!Import, Reads!SetStatus, Reads!Delete, Reads!CoolDown,
                Reads!Edit
<1>5. Walking(image', tags', walk') /\ walk'.list = walk.list
  BY <1>1, WatchedWalk DEF WalkInv
<1> QED
  BY <1>3, <1>4, <1>5, Zenon DEF WalkInv

LEMMA InitWalkInv == Reads!Init => WalkInv
<1> SUFFICES ASSUME Reads!Init PROVE WalkInv
  OBVIOUS
<1>1. PICK f \in [Ids -> Metadata], n \in Ids :
        image = [i \in Ids |-> Reads!NewRow(f[i], IF i <= n THEN "yes" ELSE "not_yet")]
  BY DEF Reads!Init
<1>2. \A i \in Ids : image[i].tags \subseteq Reads!Keys /\ IsFiniteSet(image[i].tags)
  BY <1>1, ReadsConstants DEF Reads!NewRow
<1> DEFINE there == {j \in Ids : image[j].here = "yes"}
           sets == {image[i].tags : i \in there}
           g == [i \in there |-> image[i].tags]
<1>3. tags = UNION sets
  BY DEF Reads!Init
<1>4. g \in Surjection(there, sets)
  BY DEF Surjection
<1>5. IsFiniteSet(there)
  BY ReadsConstants, FS_Subset
<1>6. IsFiniteSet(sets)
  BY <1>4, <1>5, FS_Surjection
<1>7. tags \subseteq Reads!Keys /\ IsFiniteSet(tags)
  BY <1>2, <1>3, <1>6, FS_UNION
<1>8. walk = Reads!NoWalk /\ Reads!AnAsk \in Asks
  BY ReadsConstants DEF Reads!Init, Reads!AnAsk
<1>9. Walking(image, tags, walk) /\ walk.list = "none"
  BY <1>8 DEF Reads!NoWalk, Reads!Walk, Walking, Once
<1> QED
  BY <1>7, <1>9 DEF WalkInv

LEMMA NextWalkInv == ReadsInv /\ WalkInv /\ Reads!Next => WalkInv'
<1> SUFFICES ASSUME ReadsInv, WalkInv, Reads!Next PROVE WalkInv'
  OBVIOUS
<1>1. RowsRight /\ now \in Reads!Request
  BY DEF ReadsInv, RequestRight, Sound
<1>2. ASSUME \/ \E a \in Asks : Reads!Ask(a)
             \/ Reads!Pick \/ Reads!Fallback \/ Reads!Load \/ Reads!Retag \/ Reads!Served
             \/ Reads!FetchFails \/ Reads!Mark \/ Reads!Heal \/ Reads!StreamBreaks
             \/ Reads!StreamEnds \/ Reads!Abort \/ Reads!QueryFails
      PROVE  WalkInv'
  BY <1>2, RequestWalks
<1>3. ASSUME \/ \E a \in Asks, limit \in {Reads!Absent, 1, 2} : Reads!WalkImages(a, limit)
             \/ \E list \in {"tags", "authors"}, q \in {"none", "name", "id"},
                   limit \in {Reads!Absent, 1, 2} : Reads!WalkNames(list, q, limit)
      PROVE  WalkInv'
  BY <1>1, <1>3, WalkStarts
<1>4. CASE Reads!Page \/ Reads!PageRows
  BY <1>1, <1>4, ListPageSteps
<1>5. ASSUME NEW i \in Ids,
             \/ \E m \in Metadata : Reads!Hydrate(i, m) \/ Reads!Import(i, m)
             \/ \E s \in {Reads!Active, Reads!Disabled, Reads!Broken} : Reads!SetStatus(i, s)
             \/ Reads!Delete(i) \/ Reads!CoolDown(i)
      PROVE  WalkInv'
  BY <1>1, <1>5, EditWalks
<1> QED
  BY <1>2, <1>3, <1>4, <1>5 DEF Reads!Next

LEMMA SameWalkInv == WalkInv /\ UNCHANGED <<image, tags, now, walk>> => WalkInv'
BY DEF WalkInv

-----------------------------------------------------------------------------
(* The types of the reads, with the bounds on edits and faults.            *)

ReadsBounded == edits \in 0..MaxEdits /\ faults \in 0..MaxFaults

LEMMA InitReadsBounded == Reads!Init => ReadsBounded
BY ReadsAssumption DEF Reads!Init, Reads!ReadsAssumption, ReadsBounded

LEMMA NextReadsBounded == ReadsBounded /\ Reads!Next => ReadsBounded'
<1> SUFFICES ASSUME ReadsBounded, Reads!Next PROVE ReadsBounded'
  OBVIOUS
<1>1. MaxEdits \in Nat /\ MaxFaults \in Nat /\ edits \in 0..MaxEdits /\ faults \in 0..MaxFaults
  BY ReadsAssumption DEF Reads!ReadsAssumption, ReadsBounded
<1>2. ASSUME UNCHANGED edits, faults' = faults \/ Reads!Faulty PROVE ReadsBounded'
  BY <1>1, <1>2 DEF Reads!Faulty, ReadsBounded
<1>3. ASSUME edits < MaxEdits, edits' = edits + 1, UNCHANGED faults PROVE ReadsBounded'
  BY <1>1, <1>3, SMTT(30) DEF ReadsBounded
<1>4. CASE \/ \E a \in Asks : Reads!Ask(a)
           \/ Reads!Pick \/ Reads!Fallback \/ Reads!Load \/ Reads!Retag \/ Reads!Served
           \/ Reads!FetchFails \/ Reads!Mark
  BY Zenon, <1>2, <1>4 DEF Reads!Ask, Reads!Pick, Reads!Fallback, Reads!Load, Reads!Retag, Reads!Served,
                    Reads!FetchFails, Reads!Mark
<1>5. CASE Reads!Heal \/ Reads!StreamBreaks \/ Reads!StreamEnds \/ Reads!Abort \/ Reads!QueryFails
  BY <1>2, <1>5, ZenonT(30) DEF Reads!Heal, Reads!StreamBreaks, Reads!StreamEnds, Reads!Abort, Reads!QueryFails
<1>6. CASE \/ \E a \in Asks, limit \in {Reads!Absent, 1, 2} : Reads!WalkImages(a, limit)
           \/ \E list \in {"tags", "authors"}, q \in {"none", "name", "id"},
                 limit \in {Reads!Absent, 1, 2} : Reads!WalkNames(list, q, limit)
           \/ Reads!Page \/ Reads!PageRows
  BY <1>2, <1>6, Zenon DEF Reads!WalkImages, Reads!WalkNames, Reads!Page, Reads!PageRows
<1>7. ASSUME NEW i \in Ids,
             \/ \E m \in Metadata : Reads!Hydrate(i, m) \/ Reads!Import(i, m)
             \/ \E s \in {Reads!Active, Reads!Disabled, Reads!Broken} : Reads!SetStatus(i, s)
             \/ Reads!Delete(i) \/ Reads!CoolDown(i)
      PROVE  ReadsBounded'
  BY Zenon, <1>3, <1>7 DEF Reads!Hydrate, Reads!Import, Reads!SetStatus, Reads!Edit, Reads!Delete,
                    Reads!CoolDown
<1> QED
  BY <1>4, <1>5, <1>6, <1>7 DEF Reads!Next

LEMMA ReadsTypes == ReadsInv /\ WalkInv /\ ReadsBounded => Reads!TypeOK
BY DEF ReadsInv, RowsRight, RowsAre, Row, RequestRight, Sound, WalkInv, Walking, ReadsBounded,
       Reads!TypeOK

-----------------------------------------------------------------------------
(***************************************************************************)
(* The spread of tokens over proxies.  SpreadRight needs that a trimmed    *)
(* proxy keeps exactly as many as the cap says, the first of an order of   *)
(* its tokens; and that proxies which all have the default cap leave no    *)
(* token over, by counting.                                                *)
(***************************************************************************)
Bound(p) == Spread!On(byToken, p)
Were(p)  == Spread!On(current, p)
First(p) == Spread!Kept(Were(p), p)

LEMMA SpreadConstants ==
  /\ SpreadTokens \subseteq Nat \ {0} /\ Proxies \subseteq Nat \ {0}
  /\ IsFiniteSet(SpreadTokens) /\ IsFiniteSet(Proxies)
  /\ Scores \subseteq [SpreadTokens -> [Proxies -> Nat]] /\ Caps \subseteq Nat \ {0}
<1>1. \A S : Spread!IsFiniteSet(S) <=> IsFiniteSet(S)
  BY DEF Spread!IsFiniteSet, IsFiniteSet
<1> QED
  BY <1>1, SpreadAssumption DEF Spread!SpreadAssumption

LEMMA SpreadCounts == \A S : Spread!Cardinality(S) = Cardinality(S)
BY DEF Spread!Cardinality, Cardinality

SpreadTypes ==
  /\ score \in Scores /\ proxyIds \subseteq Proxies /\ proxyIds # {}
  /\ current \in [SpreadTokens -> Proxies \union {0}] /\ given \in Caps \union {0}
  /\ stage \in {"adopt", "trim", "assign", "done"} /\ over \subseteq proxyIds
  /\ byToken \in [SpreadTokens -> proxyIds \union {0}] /\ loads \in [proxyIds -> Nat]

LoadsRight == \A p \in proxyIds : loads[p] = Cardinality(Bound(p))

Adopting == stage = "adopt" => byToken = [t \in SpreadTokens |-> 0]
Trimming ==
  stage = "trim" =>
    /\ \A p \in over : Bound(p) = Were(p) /\ Cardinality(Were(p)) > Spread!Cap
    /\ \A p \in proxyIds \ over : loads[p] <= Spread!Cap /\ First(p) \subseteq Bound(p)
Assigning ==
  stage \in {"assign", "done"} =>
    /\ \A p \in proxyIds : First(p) \subseteq Bound(p)
    /\ \A p, q \in proxyIds : loads[p] > Spread!Cap => loads[q] >= Spread!Cap
    /\ given = 0 => \A p \in proxyIds : loads[p] <= Spread!Cap
Assigned == stage = "done" => Spread!Need = {}

SpreadInv ==
  SpreadTypes /\ LoadsRight /\ Adopting /\ Trimming /\ Assigning /\ Assigned

LEMMA SpreadInvGives == SpreadInv => Spread!SpreadRight /\ Spread!TypeOK
<1> SUFFICES ASSUME SpreadInv PROVE Spread!SpreadRight /\ Spread!TypeOK
  OBVIOUS
<1>1. Spread!TypeOK
  BY DEF SpreadInv, SpreadTypes, Spread!TypeOK, Spread!Nobody, Spread!Default
<1>2. ASSUME stage = "done"
      PROVE  /\ \A t \in SpreadTokens : byToken[t] \in proxyIds
             /\ \A p \in proxyIds : loads[p] = Spread!Cardinality(Spread!On(byToken, p))
             /\ \A p, q \in proxyIds : loads[p] > Spread!Cap => loads[q] >= Spread!Cap
             /\ given = Spread!Default => \A p \in proxyIds : loads[p] <= Spread!Cap
             /\ \A p \in proxyIds :
                  Spread!Kept(Spread!On(current, p), p) \subseteq Spread!On(byToken, p)
  <2>1. \A t \in SpreadTokens : byToken[t] \in proxyIds
    BY <1>2 DEF SpreadInv, SpreadTypes, Assigned, Spread!Need, Spread!Nobody
  <2>2. \A p \in proxyIds : loads[p] = Spread!Cardinality(Spread!On(byToken, p))
    BY SpreadCounts DEF SpreadInv, LoadsRight, Bound
  <2> QED
    BY <1>2, <2>1, <2>2 DEF SpreadInv, Assigning, First, Were, Bound, Spread!Default
<1> QED
  BY <1>1, <1>2 DEF Spread!SpreadRight

LEMMA CapType ==
  ASSUME SpreadTypes
  PROVE  Spread!Cap \in Nat /\ Spread!Cap >= 1
<1>1. IsFiniteSet(proxyIds) /\ Cardinality(proxyIds) \in Nat /\ Cardinality(SpreadTokens) \in Nat
      /\ Cardinality(proxyIds) # 0
  <2>1. IsFiniteSet(proxyIds)
    BY SpreadConstants, FS_Subset DEF SpreadTypes
  <2> QED
    BY <2>1, SpreadConstants, FS_CardinalityType, FS_EmptySet DEF SpreadTypes
<1> DEFINE n == Cardinality(SpreadTokens)
           m == Cardinality(proxyIds)
<1>2. CASE given # 0
  BY <1>2, SpreadConstants DEF SpreadTypes, Spread!Cap, Spread!Default
<1>3. CASE given = 0 /\ m >= n
  BY <1>3, SpreadCounts DEF Spread!Cap, Spread!Default
<1>4. CASE given = 0 /\ ~(m >= n)
  <2>1. Spread!Cap = (n + m - 1) \div m
    BY <1>4, SpreadCounts DEF Spread!Cap, Spread!Default, Spread!CeilDiv
  <2> HIDE DEF n, m
  <2>2. n \in Nat /\ m \in Nat \ {0} /\ n > m
    BY <1>1, <1>4 DEF n, m
  <2>3. (n + m - 1) \div m \in Nat /\ (n + m - 1) \div m >= 1
    BY <2>2
  <2> QED
    BY <2>1, <2>3
<1> QED
  BY <1>1, <1>2, <1>3, <1>4

\* The default cap has room for every token.
LEMMA DefaultCapSuffices ==
  ASSUME SpreadTypes, given = 0
  PROVE  Cardinality(SpreadTokens) <= Cardinality(proxyIds) * Spread!Cap
<1>1. Cardinality(proxyIds) \in Nat \ {0} /\ Cardinality(SpreadTokens) \in Nat
  <2>1. IsFiniteSet(proxyIds)
    BY SpreadConstants, FS_Subset DEF SpreadTypes
  <2> QED
    BY <2>1, SpreadConstants, FS_CardinalityType, FS_EmptySet DEF SpreadTypes
<1> DEFINE n == Cardinality(SpreadTokens)
           m == Cardinality(proxyIds)
<1>2. CASE m >= n
  <2>1. Spread!Cap = 1
    BY <1>2, SpreadCounts DEF Spread!Cap, Spread!Default
  <2> QED
    BY <1>1, <1>2, <2>1
<1>3. CASE ~(m >= n)
  <2>1. Spread!Cap = (n + m - 1) \div m
    BY <1>3, SpreadCounts DEF Spread!Cap, Spread!Default, Spread!CeilDiv
  <2> HIDE DEF n, m
  <2>2. n \in Nat /\ m \in Nat \ {0}
    BY <1>1 DEF n, m
  <2>3. PICK c \in Int : c = (n + m - 1) \div m
    BY <2>2
  <2>4. n + m - 1 < m * (c + 1)
    BY <2>2, <2>3
  <2>5. m * (c + 1) = m * c + m
    BY <2>2
  <2>6. m * c \in Int
    BY <2>2
  <2>7. n <= m * c
    BY <2>2, <2>4, <2>5, <2>6
  <2> QED
    BY <2>1, <2>3, <2>7 DEF n, m
<1> QED
  BY <1>2, <1>3

LEMMA ScoreType ==
  ASSUME SpreadTypes
  PROVE  \A t \in SpreadTokens, p \in Proxies : score[t][p] \in Nat
<1>1. score \in [SpreadTokens -> [Proxies -> Nat]]
  BY SpreadConstants DEF SpreadTypes
<1> QED
  BY <1>1

\* Of more tokens than the cap, exactly as many as the cap are kept.
LEMMA KeptCount ==
  ASSUME SpreadTypes, NEW p \in proxyIds, NEW ts \in SUBSET SpreadTokens,
         Spread!Cap <= Cardinality(ts)
  PROVE  Cardinality(Spread!Kept(ts, p)) = Spread!Cap
<1> DEFINE s == [t \in ts |-> score[t][p]]
           ahead == [t \in ts |-> {u \in ts : Spread!Closer(u, t, p)}]
<1>1. \A t \in ts : score[t][p] \in Nat /\ t \in Nat
  <2>1. p \in Proxies /\ ts \subseteq SpreadTokens
    BY DEF SpreadTypes
  <2>2. ASSUME NEW t \in SpreadTokens PROVE score[t][p] \in Nat
    BY <2>1, ScoreType
  <2>3. \A t \in SpreadTokens : t \in Nat
    BY SpreadConstants
  <2> QED
    BY <2>1, <2>2, <2>3
<1>2. s \in [ts -> Nat] /\ \A t \in ts : s[t] = score[t][p]
  BY <1>1
<1> HIDE DEF s
<1>3. \A t, u \in ts : u \in ahead[t] <=> s[u] > s[t] \/ (s[u] = s[t] /\ u < t)
  BY <1>2 DEF Spread!Closer
<1>4. ahead \in [ts -> SUBSET ts] /\ IsFiniteSet(ts)
  BY SpreadConstants, FS_Subset
<1> HIDE DEF ahead
<1>5. \A t \in ts : t \notin ahead[t]
  BY <1>1, <1>2, <1>3
<1>6. ASSUME NEW t \in ts, NEW u \in ts, u \in ahead[t] PROVE ahead[u] \subseteq ahead[t]
  <2>1. ASSUME NEW v \in ahead[u] PROVE v \in ahead[t]
    <3>1. v \in ts
      BY <1>4
    <3> QED
      BY <1>1, <1>2, <1>3, <1>6, <2>1, <3>1
  <2> QED
    BY <2>1
<1>7. \A t, u \in ts : t # u => t \in ahead[u] \/ u \in ahead[t]
  BY <1>1, <1>2, <1>3
<1>8. Cardinality({t \in ts : Cardinality(ahead[t]) < Spread!Cap}) = Spread!Cap
  BY <1>4, <1>5, <1>6, <1>7, CapType, PlacesCount
<1>9. Spread!Kept(ts, p) = {t \in ts : Cardinality(ahead[t]) < Spread!Cap}
  BY SpreadCounts DEF Spread!Kept, ahead
<1> QED
  BY <1>8, <1>9

LEMMA KeptSome == ASSUME NEW ts, NEW p PROVE Spread!Kept(ts, p) \subseteq ts
BY DEF Spread!Kept

LEMMA LeastOne ==
  ASSUME NEW S \in SUBSET Nat, S # {}
  PROVE  Spread!Min(S) \in S
<1>1. \E x \in S : \A y \in S : x <= y
  BY LeastNatural
<1> QED
  BY <1>1 DEF Spread!Min

LEMMA FirstOne ==
  ASSUME SpreadTypes, NEW t \in SpreadTokens, NEW ps \in SUBSET proxyIds, ps # {}
  PROVE  Spread!First(t, ps) \in ps
<1> DEFINE f == [p \in ps |-> score[t][p]]
           best == {p \in ps : \A q \in ps : score[t][q] <= score[t][p]}
<1>1. f \in [ps -> Nat] /\ IsFiniteSet(ps)
  <2>1. ps \subseteq Proxies
    BY DEF SpreadTypes
  <2>2. IsFiniteSet(ps)
    BY <2>1, SpreadConstants, FS_Subset
  <2>3. \A p \in ps : score[t][p] \in Nat
    BY <2>1, ScoreType
  <2> QED
    BY <2>2, <2>3
<1>2. \E p \in ps : \A q \in ps : f[q] <= f[p]
  <2> HIDE DEF f
  <2> QED
    BY <1>1, BestExists
<1>3. best \in SUBSET Nat /\ best # {}
  BY <1>2, SpreadConstants DEF SpreadTypes
<1>4. Spread!Min(best) \in best
  <2> HIDE DEF best
  <2> QED
    BY <1>3, LeastOne
<1> QED
  BY <1>4 DEF Spread!First

LEMMA InitSpreadInv == Spread!Init => SpreadInv
<1> SUFFICES ASSUME Spread!Init PROVE SpreadInv
  OBVIOUS
<1> USE DEF Spread!Init, Spread!Nobody, Spread!Default
<1>1. SpreadTypes
  <2>1. score \in Scores /\ proxyIds \subseteq Proxies /\ proxyIds # {}
    OBVIOUS
  <2>2. current \in [SpreadTokens -> Proxies \union {0}] /\ given \in Caps \union {0}
    OBVIOUS
  <2>3. byToken \in [SpreadTokens -> proxyIds \union {0}] /\ loads \in [proxyIds -> Nat]
    OBVIOUS
  <2>4. stage \in {"adopt", "trim", "assign", "done"} /\ over \subseteq proxyIds
    OBVIOUS
  <2> QED
    BY <2>1, <2>2, <2>3, <2>4 DEF SpreadTypes
<1>2. LoadsRight
  <2>1. \A p \in proxyIds : Bound(p) = {}
    BY SpreadConstants DEF Bound, Spread!On
  <2> QED
    BY <2>1, FS_EmptySet DEF LoadsRight
<1> QED
  BY <1>1, <1>2 DEF SpreadInv, Adopting, Trimming, Assigning, Assigned

LEMMA AdoptStep == ASSUME SpreadInv, Spread!Adopt PROVE SpreadInv'
<1>1. SpreadTypes
  BY DEF SpreadInv
<1>2. UNCHANGED <<score, proxyIds, current, given>> /\ stage' = "trim"
      /\ byToken' = [t \in SpreadTokens |-> IF current[t] \in proxyIds THEN current[t] ELSE 0]
      /\ loads' = [p \in proxyIds |-> Cardinality(Were(p))]
      /\ over' = {p \in proxyIds : Cardinality(Were(p)) > Spread!Cap}
  BY SpreadCounts DEF Spread!Adopt, Spread!input, Spread!Nobody, Were
<1>3. \A p \in proxyIds : Bound(p)' = Were(p) /\ Were(p)' = Were(p)
  BY <1>1, <1>2, SpreadConstants DEF Bound, Were, Spread!On, SpreadTypes
<1>4. Spread!Cap' = Spread!Cap
  BY <1>2 DEF Spread!Cap
<1>5. \A p \in proxyIds : Were(p) \subseteq SpreadTokens /\ IsFiniteSet(Were(p))
        /\ Cardinality(Were(p)) \in Nat
  BY SpreadConstants, FS_Subset, FS_CardinalityType DEF Were, Spread!On
<1>6. SpreadTypes'
  BY <1>1, <1>2, <1>5 DEF SpreadTypes
<1>7. LoadsRight'
  BY <1>2, <1>3 DEF LoadsRight
<1>8. Trimming'
  <2>1. \A p \in over' : Bound(p)' = Were(p)' /\ Cardinality(Were(p)') > Spread!Cap'
    BY <1>2, <1>3, <1>4
  <2>2. ASSUME NEW p \in proxyIds' \ over'
        PROVE  loads'[p] <= Spread!Cap' /\ First(p)' \subseteq Bound(p)'
    <3>1. p \in proxyIds /\ loads'[p] = Cardinality(Were(p)) /\ Cardinality(Were(p)) \in Nat
          /\ ~(Cardinality(Were(p)) > Spread!Cap)
      BY <1>2, <1>5, <2>2
    <3>2. First(p)' \subseteq Were(p)'
      BY DEF First, Spread!Kept
    <3> QED
      BY <1>1, <1>3, <1>4, <3>1, <3>2, CapType
  <2> QED
    BY <2>1, <2>2 DEF Trimming
<1> QED
  BY <1>2, <1>6, <1>7, <1>8 DEF SpreadInv, Adopting, Assigning, Assigned

LEMMA TrimStep == ASSUME SpreadInv, Spread!Trim PROVE SpreadInv'
<1>1. SpreadTypes /\ LoadsRight /\ Trimming /\ stage = "trim" /\ over # {}
  BY DEF SpreadInv, Spread!Trim
<1>2. PICK p \in over : p = Spread!Min(over)
  BY <1>1, SpreadConstants, LeastOne DEF SpreadTypes
<1> DEFINE kept == Spread!Kept(Bound(p), p)
<1>3. UNCHANGED <<score, proxyIds, current, given, stage>> /\ over' = over \ {p}
      /\ byToken' = [t \in SpreadTokens |-> IF t \in Bound(p) \ kept THEN 0 ELSE byToken[t]]
      /\ loads' = [loads EXCEPT ![p] = Spread!Cap]
  BY <1>2 DEF Spread!Trim, Spread!input, Spread!Nobody, Bound
<1>4. p \in proxyIds /\ Bound(p) = Were(p) /\ Cardinality(Were(p)) > Spread!Cap
      /\ kept \subseteq Bound(p) /\ Bound(p) \in SUBSET SpreadTokens /\ kept = First(p)
  BY <1>1, <1>2, KeptSome DEF SpreadTypes, Trimming, Bound, Spread!On, First
<1>5. Cardinality(kept) = Spread!Cap /\ Spread!Cap \in Nat
  <2>1. Spread!Cap \in Nat /\ Cardinality(Bound(p)) \in Nat
    BY <1>1, <1>4, CapType, SpreadConstants, FS_Subset, FS_CardinalityType
  <2>2. Spread!Cap <= Cardinality(Bound(p))
    BY <1>4, <2>1
  <2> QED
    BY <1>1, <1>4, <2>1, <2>2, KeptCount
<1>6. Bound(p)' = kept
  BY <1>1, <1>3, <1>4, SpreadConstants DEF SpreadTypes, Bound, Spread!On
<1>7. \A q \in proxyIds : q # p => Bound(q)' = Bound(q)
  BY <1>1, <1>3, <1>4, SpreadConstants DEF SpreadTypes, Bound, Spread!On
<1>8. \A q \in proxyIds : Were(q)' = Were(q) /\ First(q)' = First(q)
  BY <1>3 DEF Were, First, Spread!On, Spread!Kept, Spread!Closer, Spread!Cap
<1>9. Spread!Cap' = Spread!Cap
  BY <1>3 DEF Spread!Cap
<1> HIDE DEF kept
<1>10. SpreadTypes'
  <2>1. byToken' \in [SpreadTokens -> proxyIds \union {0}]
    BY <1>1, <1>3 DEF SpreadTypes
  <2> QED
    BY <1>1, <1>3, <1>5, <2>1 DEF SpreadTypes
<1>11. LoadsRight'
  BY <1>1, <1>3, <1>4, <1>5, <1>6, <1>7 DEF LoadsRight, SpreadTypes
<1>12. Trimming'
  <2>1. \A q \in over' : Bound(q)' = Were(q)' /\ Cardinality(Were(q)') > Spread!Cap'
    BY <1>1, <1>3, <1>7, <1>8, <1>9 DEF Trimming, SpreadTypes
  <2>2. ASSUME NEW q \in proxyIds \ over'
        PROVE  loads'[q] <= Spread!Cap' /\ First(q)' \subseteq Bound(q)'
    <3>1. CASE q = p
      BY <1>1, <1>3, <1>4, <1>5, <1>6, <1>8, <1>9, <3>1 DEF SpreadTypes
    <3>2. CASE q # p
      <4>1. q \in proxyIds \ over
        BY <1>3, <2>2, <3>2
      <4>2. loads'[q] = loads[q]
        BY <1>1, <1>3, <3>2, <4>1 DEF SpreadTypes
      <4> QED
        BY <1>1, <1>7, <1>8, <1>9, <3>2, <4>1, <4>2 DEF Trimming
    <3> QED
      BY <3>1, <3>2
  <2> QED
    BY <1>3, <2>1, <2>2 DEF Trimming
<1> QED
  BY <1>1, <1>3, <1>10, <1>11, <1>12 DEF SpreadInv, Adopting, Assigning, Assigned

LEMMA AssignStep == ASSUME SpreadInv, Spread!Assign PROVE SpreadInv'
<1>1. SpreadTypes /\ LoadsRight /\ Assigning /\ stage = "assign" /\ Spread!Need # {}
      /\ Spread!Cap \in Nat
  BY CapType DEF SpreadInv, Spread!Assign
<1>2. PICK t \in Spread!Need : t = Spread!Min(Spread!Need)
  BY <1>1, SpreadConstants, LeastOne DEF Spread!Need
<1> DEFINE room == {q \in proxyIds : loads[q] < Spread!Cap}
           to   == IF room = {} THEN proxyIds ELSE room
<1>3. PICK p \in to : p = Spread!First(t, to)
  <2>1. to \in SUBSET proxyIds /\ to # {} /\ t \in SpreadTokens
    BY <1>1 DEF SpreadTypes, Spread!Need
  <2> HIDE DEF to
  <2> QED
    BY <1>1, <2>1, FirstOne
<1>4. UNCHANGED <<score, proxyIds, current, given, stage, over>>
      /\ byToken' = [byToken EXCEPT ![t] = p] /\ loads' = [loads EXCEPT ![p] = @ + 1]
  BY <1>2, <1>3 DEF Spread!Assign, Spread!input
<1>5. t \in SpreadTokens /\ byToken[t] = 0 /\ p \in proxyIds /\ p # 0 /\ loads[p] \in Nat
      /\ (room # {} => loads[p] < Spread!Cap)
  BY <1>1, <1>3, SpreadConstants DEF SpreadTypes, Spread!Need, Spread!Nobody
<1>6. Bound(p)' = Bound(p) \union {t} /\ t \notin Bound(p)
  BY <1>1, <1>4, <1>5 DEF SpreadTypes, Bound, Spread!On
<1>7. \A q \in proxyIds : q # p => Bound(q)' = Bound(q)
  BY <1>1, <1>4, <1>5, SpreadConstants DEF SpreadTypes, Bound, Spread!On
<1>8. \A q \in proxyIds : First(q)' = First(q)
  BY <1>4 DEF Were, First, Spread!On, Spread!Kept, Spread!Closer, Spread!Cap
<1>9. Spread!Cap' = Spread!Cap
  BY <1>4 DEF Spread!Cap
<1>10. SpreadTypes'
  BY <1>1, <1>4, <1>5 DEF SpreadTypes
<1>11. LoadsRight'
  <2>1. IsFiniteSet(Bound(p))
    BY SpreadConstants, FS_Subset DEF Bound, Spread!On
  <2>2. Cardinality(Bound(p) \union {t}) = Cardinality(Bound(p)) + 1
    BY <1>6, <2>1, FS_AddElement
  <2>3. \A q \in proxyIds : loads'[q] = IF q = p THEN loads[p] + 1 ELSE loads[q]
    BY <1>1, <1>4 DEF SpreadTypes
  <2> QED
    BY <1>1, <1>4, <1>5, <1>6, <1>7, <2>2, <2>3 DEF LoadsRight
<1>12. \A q \in proxyIds : First(q)' \subseteq Bound(q)'
  BY <1>1, <1>6, <1>7, <1>8 DEF Assigning
<1>13. given = 0 => room # {}
  <2> SUFFICES ASSUME given = 0, room = {} PROVE FALSE
    OBVIOUS
  <2> DEFINE T == SpreadTokens \ {t}
             owns == [q \in proxyIds |-> Bound(q)]
  <2>1. IsFiniteSet(proxyIds) /\ IsFiniteSet(SpreadTokens)
    BY <1>1, SpreadConstants, FS_Subset DEF SpreadTypes
  <2>2. IsFiniteSet(T) /\ Cardinality(T) = Cardinality(SpreadTokens) - 1
        /\ Cardinality(SpreadTokens) \in Nat
    BY <1>5, <2>1, FS_RemoveElement, FS_CardinalityType
  <2>3. owns \in [proxyIds -> SUBSET T]
    BY <1>5, SpreadConstants, <1>1 DEF Bound, Spread!On, SpreadTypes
  <2>4. \A q, r \in proxyIds : q # r => owns[q] \intersect owns[r] = {}
    BY DEF Bound, Spread!On
  <2>5. \A q \in proxyIds : Spread!Cap <= Cardinality(owns[q])
    BY <1>1 DEF LoadsRight, SpreadTypes
  <2> HIDE DEF T, owns
  <2>6. Cardinality(proxyIds) * Spread!Cap <= Cardinality(T)
    BY <1>1, <2>1, <2>2, <2>3, <2>4, <2>5, OwnersCount
  <2>7. Cardinality(SpreadTokens) <= Cardinality(proxyIds) * Spread!Cap
    BY <1>1, DefaultCapSuffices
  <2>8. Cardinality(proxyIds) * Spread!Cap \in Nat
    BY <1>1, <2>1, FS_CardinalityType
  <2> QED
    BY <2>2, <2>6, <2>7, <2>8
<1>14. Assigning'
  <2> DEFINE cap == Spread!Cap
  <2>1. /\ \A q \in proxyIds : loads'[q] = IF q = p THEN loads[p] + 1 ELSE loads[q]
        /\ \A q \in proxyIds : loads[q] \in Nat
    BY <1>1, <1>4 DEF SpreadTypes
  <2>2. /\ \A q, r \in proxyIds : loads[q] > cap => loads[r] >= cap
        /\ given = 0 => \A q \in proxyIds : loads[q] <= cap
    BY <1>1 DEF Assigning
  <2> HIDE DEF cap
  <2>3. CASE room # {}
    <3>1. loads[p] < cap
      BY <1>5, <2>3 DEF cap
    <3>2. \A q \in proxyIds : loads[q] <= cap
      BY <1>1, <1>5, <2>1, <2>2, <3>1 DEF cap
    <3>3. \A q \in proxyIds : loads'[q] <= cap
      BY <1>1, <1>5, <2>1, <3>1, <3>2 DEF cap
    <3> QED
      BY <1>1, <1>4, <1>9, <1>12, <2>1, <3>3 DEF Assigning, cap
  <2>4. CASE room = {}
    <3>1. \A q \in proxyIds : loads[q] >= cap
      BY <1>1, <2>1, <2>4 DEF cap
    <3>2. \A q \in proxyIds : loads'[q] >= cap
      BY <1>1, <1>5, <2>1, <3>1 DEF cap
    <3> QED
      BY <1>4, <1>9, <1>12, <1>13, <2>4, <3>2 DEF Assigning, cap
  <2> QED
    BY <2>3, <2>4
<1> QED
  BY <1>1, <1>4, <1>10, <1>11, <1>14 DEF SpreadInv, Adopting, Trimming, Assigned

LEMMA NextSpreadInv == SpreadInv /\ Spread!Next => SpreadInv'
<1> SUFFICES ASSUME SpreadInv, Spread!Next PROVE SpreadInv'
  OBVIOUS
<1>1. CASE Spread!Trimmed
  <2>1. UNCHANGED <<score, proxyIds, current, given, over, byToken, loads>> /\ over = {}
        /\ stage = "trim" /\ stage' = "assign"
    BY <1>1 DEF Spread!Trimmed, Spread!input
  <2>2. \A p \in proxyIds : Bound(p)' = Bound(p) /\ First(p)' = First(p)
    BY <2>1 DEF Bound, Were, First, Spread!On, Spread!Kept, Spread!Closer, Spread!Cap
  <2>3. Spread!Cap' = Spread!Cap /\ Spread!Cap \in Nat
    BY <2>1, CapType DEF Spread!Cap, SpreadInv
  <2>4. \A p \in proxyIds : loads[p] <= Spread!Cap /\ First(p) \subseteq Bound(p)
                            /\ loads[p] \in Nat
    BY <2>1 DEF SpreadInv, Trimming, SpreadTypes
  <2>5. Assigning'
    BY <2>1, <2>2, <2>3, <2>4 DEF Assigning
  <2>6. SpreadTypes' /\ LoadsRight'
    BY <2>1, <2>2 DEF SpreadInv, SpreadTypes, LoadsRight
  <2> QED
    BY <2>1, <2>5, <2>6 DEF SpreadInv, Adopting, Trimming, Assigned
<1>2. CASE Spread!Return
  <2>1. UNCHANGED <<score, proxyIds, current, given, over, byToken, loads>> /\ Spread!Need = {}
        /\ stage = "assign" /\ stage' = "done"
    BY <1>2 DEF Spread!Return, Spread!input
  <2>2. \A p \in proxyIds : Bound(p)' = Bound(p) /\ First(p)' = First(p)
    BY <2>1 DEF Bound, Were, First, Spread!On, Spread!Kept, Spread!Closer, Spread!Cap
  <2>3. Spread!Cap' = Spread!Cap /\ Spread!Need' = Spread!Need
    BY <2>1 DEF Spread!Cap, Spread!Need
  <2>4. Assigning'
    BY <2>1, <2>2, <2>3 DEF SpreadInv, Assigning
  <2>5. SpreadTypes' /\ LoadsRight'
    BY <2>1, <2>2 DEF SpreadInv, SpreadTypes, LoadsRight
  <2> QED
    BY <2>1, <2>3, <2>4, <2>5 DEF SpreadInv, Adopting, Trimming, Assigned
<1> QED
  BY <1>1, <1>2, AdoptStep, TrimStep, AssignStep DEF Spread!Next

LEMMA SameSpreadInv == SpreadInv /\ UNCHANGED spread => SpreadInv'
<1> SUFFICES ASSUME SpreadInv, UNCHANGED spread PROVE SpreadInv'
  OBVIOUS
<1>1. UNCHANGED <<score, proxyIds, current, given, stage, over, byToken, loads>>
  BY DEF spread
<1>2. \A p \in proxyIds : Bound(p)' = Bound(p) /\ First(p)' = First(p) /\ Were(p)' = Were(p)
  BY <1>1 DEF Bound, Were, First, Spread!On, Spread!Kept, Spread!Closer, Spread!Cap
<1>3. Spread!Cap' = Spread!Cap /\ Spread!Need' = Spread!Need
  BY <1>1 DEF Spread!Cap, Spread!Need
<1>4. SpreadTypes' /\ LoadsRight' /\ Adopting' /\ Assigned'
  BY <1>1, <1>2, <1>3 DEF SpreadInv, SpreadTypes, LoadsRight, Adopting, Assigned
<1>5. Trimming' /\ Assigning'
  BY <1>1, <1>2, <1>3 DEF SpreadInv, SpreadTypes, Trimming, Assigning
<1> QED
  BY <1>4, <1>5 DEF SpreadInv

-----------------------------------------------------------------------------
(***************************************************************************)
(* The page that imports (ImportPage).  What its recursive functions       *)
(* compute is proved by induction over a set of numbers.                   *)
(***************************************************************************)

\* Induction up to m over a set of numbers: what the theorems with an operator say.
LEMMA UpTo ==
  ASSUME NEW m \in Nat, NEW T, 0 \in T, \A n \in 0..m - 1 : n \in T => n + 1 \in T
  PROVE  \A n \in 0..m : n \in T
<1> SUFFICES ASSUME \E n \in 0..m : n \notin T PROVE FALSE
  OBVIOUS
<1> DEFINE bad == {n \in 0..m : n \notin T}
<1>1. bad \in SUBSET Nat /\ bad # {}
  OBVIOUS
<1>2. PICK n \in bad : \A k \in bad : n <= k
  BY <1>1, LeastNatural
<1>3. n # 0 /\ n - 1 \in 0..m - 1 /\ n - 1 \notin bad
  BY <1>2
<1>4. n - 1 \in T /\ n = (n - 1) + 1
  BY <1>2, <1>3
<1> QED
  BY <1>2, <1>3, <1>4

\* A function defined by recursion from b to t exists.
Steps(V, b, t, F) == F \in [V \X (b..t) -> V]
Chain(V, b, t, v, F, g) ==
  g \in [b..t -> V] /\ \A n \in b..t : g[n] = IF n = b THEN v ELSE F[<<g[n - 1], n>>]

LEMMA ChainExists ==
  ASSUME NEW V, NEW b \in Nat, NEW t \in Nat, b <= t, NEW v \in V, NEW F, Steps(V, b, t, F)
  PROVE  \E g : Chain(V, b, t, v, F, g)
<1> USE DEF Steps
<1> DEFINE T == {k \in 0..t - b : \E g \in [b..b + k -> V] :
                   \A n \in b..b + k : g[n] = IF n = b THEN v ELSE F[<<g[n - 1], n>>]}
<1>1. 0 \in T
  <2> DEFINE g == [n \in b..b + 0 |-> v]
  <2>1. g \in [b..b + 0 -> V] /\ \A n \in b..b + 0 : n = b /\ g[n] = v
    OBVIOUS
  <2>2. 0 \in 0..t - b
    OBVIOUS
  <2> HIDE DEF g
  <2>3. \A n \in b..b + 0 : g[n] = IF n = b THEN v ELSE F[<<g[n - 1], n>>]
    BY <2>1
  <2> QED
    BY <2>1, <2>2, <2>3
<1>2. ASSUME NEW k \in 0..t - b - 1, k \in T PROVE k + 1 \in T
  <2>1. PICK g \in [b..b + k -> V] :
          \A n \in b..b + k : g[n] = IF n = b THEN v ELSE F[<<g[n - 1], n>>]
    BY <1>2
  <2> DEFINE top == b + (k + 1)
             h == [n \in b..top |-> IF n = top THEN F[<<g[b + k], top>>] ELSE g[n]]
  <2>2. /\ k + 1 \in 0..t - b /\ top \in b..t /\ top # b /\ top - 1 = b + k /\ top - 1 # top
        /\ b + k \in b..b + k /\ top - 1 \in b..top
        /\ \A n \in b..top : n # top => n \in b..b + k /\ n # top
        /\ \A n \in b..b + k : n # b => n - 1 \in b..b + k
        /\ \A n \in b..b + k : n \in b..top /\ n # top
    OBVIOUS
  <2> HIDE DEF top
  <2>3. F[<<g[b + k], top>>] \in V
    BY <2>2
  <2>4. h \in [b..top -> V]
    BY <2>2, <2>3
  <2>5. /\ h[top] = F[<<g[b + k], top>>]
        /\ \A n \in b..b + k : h[n] = g[n]
    BY <2>2
  <2> HIDE DEF h
  <2>6. ASSUME NEW n \in b..top
        PROVE  h[n] = IF n = b THEN v ELSE F[<<h[n - 1], n>>]
    <3>1. CASE n = top
      BY <2>2, <2>5, <3>1
    <3>2. CASE n # top
      BY <2>1, <2>2, <2>5, <3>2
    <3> QED
      BY <3>1, <3>2
  <2> QED
    BY <2>2, <2>4, <2>6 DEF top
<1> HIDE DEF T
<1>3. t - b \in T
  BY <1>1, <1>2, UpTo
<1>4. b + (t - b) = t
  OBVIOUS
<1> QED
  BY <1>3, <1>4 DEF T, Chain

\* A line is kept or dropped.
KeptOf(ls, g) == g = [n \in 0..Len(ls) |-> IF n = 0 THEN << >> ELSE Page!Keep(g[n - 1], ls[n])]

LEMMA DedupedLines ==
  ASSUME NEW ls \in Seq(Lines)
  PROVE  Page!Deduped(ls) \in Seq(Lines)
<1>0. PICK L \in Nat : L = Len(ls)
  OBVIOUS
<1> DEFINE V == Seq(Lines)
           F == [x \in V \X (0..L) |->
                   IF x[2] = 0 THEN << >> ELSE Page!Keep(x[1], ls[x[2]])]
           kept == CHOOSE g : KeptOf(ls, g)
<1>1. ASSUME NEW out \in Seq(Lines), NEW l \in Lines PROVE Page!Keep(out, l) \in Seq(Lines)
  BY DEF Page!Keep
<1>2. F \in [V \X (0..L) -> V]
  BY <1>0, <1>1
<1>3. \A x \in V \X (0..L) :
        F[x] = IF x[2] = 0 THEN << >> ELSE Page!Keep(x[1], ls[x[2]])
  OBVIOUS
<1>4. << >> \in V /\ << >> \in Seq(Lines) /\ 0 \in Nat /\ 0 <= L
  OBVIOUS
<1> HIDE DEF V, F
<1>5. PICK g : Chain(V, 0, L, << >>, F, g)
  <2>1. Steps(V, 0, L, F)
    BY <1>2 DEF Steps
  <2> QED
    BY <1>4, <2>1, ChainExists
<1>6. \A n \in 0..L : g[n] = IF n = 0 THEN << >> ELSE Page!Keep(g[n - 1], ls[n])
  <2> TAKE n \in 0..L
  <2>1. CASE n # 0
    <3>1. n - 1 \in 0..L /\ n \in 0..L
      BY <1>4, <2>1
    <3> QED
      BY <1>3, <1>5, <2>1, <3>1 DEF Chain
  <2> QED
    BY <1>4, <1>5, <2>1 DEF Chain
<1>7. KeptOf(ls, g)
  <2>1. g = [n \in 0..L |-> g[n]]
    BY <1>4, <1>5 DEF Chain
  <2> QED
    BY <1>0, <1>6, <2>1 DEF KeptOf
<1>8. KeptOf(ls, kept)
  BY <1>7
<1>9. Page!Deduped(ls) = IF dedupe THEN kept[L] ELSE ls
  BY <1>0 DEF Page!Deduped, KeptOf
<1> HIDE DEF kept
<1> DEFINE T == {n \in 0..L : kept[n] \in Seq(Lines)}
<1>10. \A n \in 0..L : kept[n] = IF n = 0 THEN << >> ELSE Page!Keep(kept[n - 1], ls[n])
  <2>1. \A n \in 0..L :
          kept[n] = [j \in 0..L |-> IF j = 0 THEN << >> ELSE Page!Keep(kept[j - 1], ls[j])][n]
    BY <1>0, <1>8 DEF KeptOf
  <2> QED
    BY <2>1
<1>11. 0 \in T
  <2>1. kept[0] = << >>
    BY <1>4, <1>10
  <2>2. 0 \in 0..L /\ kept[0] \in Seq(Lines)
    BY <1>4, <2>1
  <2> QED
    BY <2>2
<1>12. ASSUME NEW n \in 0..L - 1, n \in T PROVE n + 1 \in T
  <2>1. n + 1 \in 0..L /\ n + 1 # 0 /\ (n + 1) - 1 = n /\ ls[n + 1] \in Lines
    BY <1>0
  <2>2. kept[n + 1] = Page!Keep(kept[n], ls[n + 1])
    BY <1>10, <2>1
  <2> QED
    BY <1>1, <1>12, <2>1, <2>2
<1> HIDE DEF T
<1>13. \A n \in 0..L : n \in T
  BY <1>4, <1>11, <1>12, UpTo
<1> QED
  BY <1>4, <1>9, <1>13 DEF T

\* Sequences one after another.
FlatOf(ss, g) == g = [i \in 1..Len(ss) |-> IF i = 1 THEN ss[i] ELSE g[i - 1] \o ss[i]]

LEMMA FlatExists ==
  ASSUME NEW ss \in Seq(Seq(Lines)), ss # << >>
  PROVE  /\ \E g \in [1..Len(ss) -> Seq(Lines)] : FlatOf(ss, g)
         /\ Page!FlattenSeq(ss) = (CHOOSE g : FlatOf(ss, g))[Len(ss)]
<1> DEFINE V == Seq(Lines)
           t == Len(ss)
           F == [x \in V \X (1..t) |-> x[1] \o ss[x[2]]]
<1>1. t \in Nat /\ 1 <= t /\ 1 \in Nat /\ ss[1] \in V /\ t = Len(ss)
  OBVIOUS
<1>2. \A u \in V, i \in 1..t : u \o ss[i] \in V
  OBVIOUS
<1> HIDE DEF t
<1>3. F \in [V \X (1..t) -> V] /\ \A x \in V \X (1..t) : F[x] = x[1] \o ss[x[2]]
  BY <1>2
<1> HIDE DEF F
<1>4. PICK g : Chain(V, 1, t, ss[1], F, g)
  <2>1. Steps(V, 1, t, F)
    BY <1>3 DEF Steps
  <2> HIDE DEF V
  <2> QED
    BY <1>1, <2>1, ChainExists
<1>5. \A n \in 1..Len(ss) : g[n] = IF n = 1 THEN ss[n] ELSE g[n - 1] \o ss[n]
  <2> TAKE n \in 1..Len(ss)
  <2>1. CASE n # 1
    <3>1. n - 1 \in 1..t /\ n \in 1..t
      BY <1>1, <2>1
    <3> QED
      BY <1>3, <1>4, <2>1, <3>1 DEF Chain
  <2> QED
    BY <1>1, <1>4, <2>1 DEF Chain
<1>6. FlatOf(ss, g)
  <2>1. g = [n \in 1..Len(ss) |-> g[n]]
    BY <1>1, <1>4 DEF Chain
  <2> QED
    BY <1>5, <2>1 DEF FlatOf
<1>7. Page!FlattenSeq(ss) = (CHOOSE h : FlatOf(ss, h))[Len(ss)]
  BY <1>1 DEF Page!FlattenSeq, FlatOf
<1> QED
  BY <1>1, <1>4, <1>6, <1>7 DEF Chain

LEMMA FlatGrows ==
  ASSUME NEW ss, NEW g, FlatOf(ss, g), NEW k \in Nat, NEW j \in 1..Len(ss), j = k + 1
  PROVE  g[j] = IF k = 0 THEN ss[j] ELSE g[k] \o ss[j]
<1>1. g[j] = [i \in 1..Len(ss) |-> IF i = 1 THEN ss[i] ELSE g[i - 1] \o ss[i]][j]
  BY DEF FlatOf
<1>2. j - 1 = k /\ (j = 1 <=> k = 0)
  OBVIOUS
<1> QED
  BY <1>1, <1>2

LEMMA OneMore ==
  ASSUME NEW ss \in Seq(Seq(Lines)), NEW s \in Seq(Lines)
  PROVE  Append(ss, s) \in Seq(Seq(Lines)) /\ Append(ss, s) # << >>
<1>1. Append(ss, s) \in Seq(Seq(Lines)) /\ Len(Append(ss, s)) # 0 /\ Len(<< >>) = 0
  OBVIOUS
<1> QED
  BY <1>1

\* Of no sequence nothing comes, of one itself, and of one more it comes last.
LEMMA FlattenNone == Page!FlattenSeq(<< >>) = << >>
BY DEF Page!FlattenSeq

LEMMA FlattenType ==
  ASSUME NEW ss \in Seq(Seq(Lines))
  PROVE  Page!FlattenSeq(ss) \in Seq(Lines)
<1>1. CASE ss = << >>
  <2>1. << >> \in Seq(Lines)
    OBVIOUS
  <2> QED
    BY <1>1, <2>1, FlattenNone
<1>2. CASE ss # << >>
  <2> DEFINE h == CHOOSE g : FlatOf(ss, g)
             L == Len(ss)
             T == {k \in 0..L - 1 : h[k + 1] \in Seq(Lines)}
  <2>1. FlatOf(ss, h) /\ Page!FlattenSeq(ss) = h[Len(ss)]
    BY <1>2, FlatExists
  <2> HIDE DEF h
  <2>2. L - 1 \in Nat /\ L \in Nat /\ (L - 1) + 1 = L /\ 1 \in 1..Len(ss)
    BY <1>2
  <2>7. 1 = 0 + 1 /\ 0 \in Nat
    OBVIOUS
  <2>3. 0 \in T
    <3>1. h[1] = ss[1] /\ ss[1] \in Seq(Lines)
      BY <2>1, <2>2, <2>7, FlatGrows
    <3> QED
      BY <2>2, <3>1
  <2>4. ASSUME NEW n \in 0..(L - 1) - 1, n \in T PROVE n + 1 \in T
    <3> DEFINE k == n + 1
               j == k + 1
    <3>1. k \in 0..L - 1 /\ k \in Nat /\ k # 0 /\ j \in 1..Len(ss) /\ ss[j] \in Seq(Lines)
      BY <2>2
    <3>2. h[j] = h[k] \o ss[j]
      <4>1. j = k + 1
        OBVIOUS
      <4> HIDE DEF j, k
      <4> QED
        BY <2>1, <3>1, <4>1, FlatGrows
    <3>3. h[k] \in Seq(Lines)
      BY <2>4
    <3> HIDE DEF k
    <3>4. h[j] \in Seq(Lines)
      BY <3>1, <3>2, <3>3
    <3> QED
      BY <3>1, <3>4 DEF k
  <2> HIDE DEF T
  <2>5. \A n \in 0..L - 1 : n \in T
    BY <2>2, <2>3, <2>4, UpTo
  <2>6. L - 1 \in T
    BY <2>2, <2>5
  <2> QED
    BY <2>1, <2>2, <2>6 DEF T
<1> QED
  BY <1>1, <1>2

LEMMA FlattenAppend ==
  ASSUME NEW ss \in Seq(Seq(Lines)), NEW s \in Seq(Lines)
  PROVE  Page!FlattenSeq(Append(ss, s)) = Page!FlattenSeq(ss) \o s
<1> DEFINE all == Append(ss, s)
           f == CHOOSE g : FlatOf(all, g)
           L == Len(ss)
<1>1. /\ all \in Seq(Seq(Lines)) /\ all # << >> /\ Len(all) = L + 1 /\ L \in Nat /\ all[L + 1] = s
      /\ \A i \in 1..L : all[i] = ss[i] /\ i \in 1..Len(all) /\ i - 1 # L
  OBVIOUS
<1>2. L + 1 \in 1..Len(all) /\ (L + 1) - 1 = L /\ (L + 1 = 1 <=> L = 0)
  BY <1>1
<1> HIDE DEF all
<1>3. FlatOf(all, f) /\ Page!FlattenSeq(all) = f[L + 1]
  BY <1>1, FlatExists
<1> HIDE DEF f
<1>4. f[L + 1] = IF L = 0 THEN s ELSE f[L] \o s
  BY <1>1, <1>2, <1>3, FlatGrows
<1>5. CASE ss = << >>
  <2>1. L = 0 /\ << >> \o s = s
    BY <1>5
  <2> QED
    BY <1>3, <1>4, <1>5, <2>1, FlattenNone DEF all
<1>6. CASE ss # << >>
  <2> DEFINE h == CHOOSE g : FlatOf(ss, g)
             T == {k \in 0..L - 1 : f[k + 1] = h[k + 1]}
  <2>1. FlatOf(ss, h) /\ Page!FlattenSeq(ss) = h[L]
    BY <1>6, FlatExists
  <2> HIDE DEF h
  <2>2. L # 0 /\ L - 1 \in Nat /\ (L - 1) + 1 = L /\ 1 \in 1..Len(ss) /\ 1 \in 1..Len(all)
        /\ all[1] = ss[1]
    BY <1>1, <1>6
  <2>8. 1 = 0 + 1 /\ 0 \in Nat
    OBVIOUS
  <2>3. 0 \in T
    <3>1. h[1] = ss[1] /\ f[1] = all[1]
      BY <1>3, <2>1, <2>2, <2>8, FlatGrows
    <3> QED
      BY <2>2, <3>1
  <2>4. ASSUME NEW n \in 0..(L - 1) - 1, n \in T PROVE n + 1 \in T
    <3> DEFINE k == n + 1
               j == k + 1
    <3>1. k \in 0..L - 1 /\ k \in Nat /\ k # 0 /\ j \in 1..Len(ss)
      BY <2>2
    <3>2. j \in 1..Len(all) /\ all[j] = ss[j]
      BY <1>1, <3>1
    <3>3. h[j] = h[k] \o ss[j] /\ f[j] = f[k] \o all[j]
      <4>1. j = k + 1
        OBVIOUS
      <4> HIDE DEF j, k
      <4> QED
        BY <1>3, <2>1, <3>1, <3>2, <4>1, FlatGrows, ZenonT(30)
    <3>4. f[k] = h[k]
      BY <2>4
    <3> HIDE DEF k
    <3>5. f[j] = h[j]
      BY <3>2, <3>3, <3>4
    <3> QED
      BY <3>1, <3>5 DEF k
  <2> HIDE DEF T
  <2>5. \A n \in 0..L - 1 : n \in T
    BY <2>2, <2>3, <2>4, UpTo
  <2>6. L - 1 \in T
    BY <2>2, <2>5
  <2>7. f[L] = h[L]
    BY <2>2, <2>6 DEF T
  <2> QED
    BY <1>3, <1>4, <2>1, <2>2, <2>7 DEF all
<1> QED
  BY <1>5, <1>6

LEMMA FlattenOne ==
  ASSUME NEW s \in Seq(Lines)
  PROVE  Page!FlattenSeq(<<s>>) = s
<1>1. << >> \in Seq(Seq(Lines)) /\ Append(<< >>, s) = <<s>> /\ << >> \o s = s
  OBVIOUS
<1> QED
  BY <1>1, FlattenAppend, FlattenNone

\* A line is put at the end of the last batch, or in one of its own.
LEMMA PutAtTheEnd ==
  ASSUME NEW cs \in Seq(Seq(Lines)), NEW l \in Lines, NEW lines, NEW bytes
  PROVE  /\ Page!Put(cs, l, lines, bytes) \in Seq(Seq(Lines))
         /\ Page!Put(cs, l, lines, bytes) # << >>
         /\ Page!FlattenSeq(Page!Put(cs, l, lines, bytes)) = Append(Page!FlattenSeq(cs), l)
<1>1. <<l>> \in Seq(Lines)
  OBVIOUS
<1>2. ASSUME NEW s \in Seq(Lines) PROVE s \o <<l>> = Append(s, l)
  OBVIOUS
<1>3. CASE cs = << >>
  <2>1. Page!Put(cs, l, lines, bytes) = <<<<l>>>> /\ Append(<< >>, l) = <<l>>
    BY <1>3 DEF Page!Put
  <2>2. <<<<l>>>> \in Seq(Seq(Lines)) /\ <<<<l>>>> # << >>
    OBVIOUS
  <2> QED
    BY <1>1, <1>3, <2>1, <2>2, FlattenOne, FlattenNone
<1>4. CASE cs # << >>
  <2> DEFINE first == Page!Front(cs)
             last == Page!Last(cs)
             more == Append(last, l)
  <2>1. first \in Seq(Seq(Lines)) /\ last \in Seq(Lines) /\ cs = Append(first, last)
    BY <1>4 DEF Page!Front, Page!Last
  <2>2. more \in Seq(Lines) /\ more = last \o <<l>>
    BY <2>1
  <2> HIDE DEF first, last, more
  <2>3. Page!FlattenSeq(cs) \in Seq(Lines) /\ Page!FlattenSeq(first) \in Seq(Lines)
    BY <2>1, FlattenType
  <2>4. CASE Page!Put(cs, l, lines, bytes) = Append(cs, <<l>>)
    <3>1. Append(cs, <<l>>) \in Seq(Seq(Lines)) /\ Append(cs, <<l>>) # << >>
      BY <1>1, OneMore, Zenon
    <3>2. Page!FlattenSeq(Append(cs, <<l>>)) = Page!FlattenSeq(cs) \o <<l>>
      BY <1>1, FlattenAppend
    <3> QED
      BY <1>2, <2>3, <2>4, <3>1, <3>2
  <2>5. CASE Page!Put(cs, l, lines, bytes) = Append(first, more)
    <3>1. Append(first, more) \in Seq(Seq(Lines)) /\ Append(first, more) # << >>
      BY <2>1, <2>2, OneMore
    <3>2. Page!FlattenSeq(Append(first, more)) = Page!FlattenSeq(first) \o more
      BY <2>1, <2>2, FlattenAppend
    <3>3. Page!FlattenSeq(cs) = Page!FlattenSeq(first) \o last
      BY <2>1, FlattenAppend
    <3>4. Page!FlattenSeq(first) \o more = Append(Page!FlattenSeq(cs), l)
      <4>1. ASSUME NEW s \in Seq(Lines), NEW t \in Seq(Lines)
            PROVE  s \o Append(t, l) = Append(s \o t, l)
        OBVIOUS
      <4> QED
        BY <2>1, <2>3, <3>3, <4>1 DEF more
    <3> QED
      BY <2>5, <3>1, <3>2, <3>4
  <2> QED
    BY <1>4, <2>4, <2>5 DEF Page!Put, first, last, more
<1> QED
  BY <1>3, <1>4

\* The lines are cut, and nothing else happens to them.
CutOf(ls, lines, bytes, g) ==
  g = [n \in 0..Len(ls) |-> IF n = 0 THEN << >> ELSE Page!Put(g[n - 1], ls[n], lines, bytes)]

LEMMA CutExists ==
  ASSUME NEW ls \in Seq(Lines), NEW lines, NEW bytes
  PROVE  \E g : CutOf(ls, lines, bytes, g)
<1>0. PICK L \in Nat : L = Len(ls)
  OBVIOUS
<1> DEFINE V == Seq(Seq(Lines))
           F == [x \in V \X (0..L) |->
                   IF x[2] = 0 THEN << >> ELSE Page!Put(x[1], ls[x[2]], lines, bytes)]
<1>1. F \in [V \X (0..L) -> V]
  BY <1>0, PutAtTheEnd
<1>2. \A x \in V \X (0..L) :
        F[x] = IF x[2] = 0 THEN << >> ELSE Page!Put(x[1], ls[x[2]], lines, bytes)
  OBVIOUS
<1>3. << >> \in V /\ 0 \in Nat /\ 0 <= L
  OBVIOUS
<1> HIDE DEF V, F
<1>4. PICK g : Chain(V, 0, L, << >>, F, g)
  <2>1. Steps(V, 0, L, F)
    BY <1>1 DEF Steps
  <2> QED
    BY <1>3, <2>1, ChainExists
<1>5. \A n \in 0..L : g[n] = IF n = 0 THEN << >> ELSE Page!Put(g[n - 1], ls[n], lines, bytes)
  <2> TAKE n \in 0..L
  <2>1. CASE n # 0
    <3>1. n - 1 \in 0..L /\ n \in 0..L
      BY <1>3, <2>1
    <3> QED
      BY <1>2, <1>4, <2>1, <3>1 DEF Chain
  <2> QED
    BY <1>3, <1>4, <2>1 DEF Chain
<1>6. g = [n \in 0..L |-> g[n]]
  BY <1>4 DEF Chain
<1> QED
  BY <1>0, <1>5, <1>6 DEF CutOf

LEMMA ChunksAreCut ==
  ASSUME NEW ls \in Seq(Lines), NEW lines, NEW bytes
  PROVE  /\ Page!ChunkLines(ls, lines, bytes) \in Seq(Seq(Lines))
         /\ Page!FlattenSeq(Page!ChunkLines(ls, lines, bytes)) = ls
         /\ ls # << >> => Page!ChunkLines(ls, lines, bytes) # << >>
<1>0. PICK L \in Nat : L = Len(ls)
  OBVIOUS
<1> DEFINE cut == CHOOSE g : CutOf(ls, lines, bytes, g)
<1>1. CutOf(ls, lines, bytes, cut)
  BY CutExists
<1>2. Page!ChunkLines(ls, lines, bytes) = cut[L]
  BY <1>0 DEF Page!ChunkLines, CutOf
<1> HIDE DEF cut
<1>3. \A n \in 0..L :
        cut[n] = IF n = 0 THEN << >> ELSE Page!Put(cut[n - 1], ls[n], lines, bytes)
  <2>1. \A n \in 0..L :
          cut[n] = [j \in 0..L |-> IF j = 0 THEN << >>
                                   ELSE Page!Put(cut[j - 1], ls[j], lines, bytes)][n]
    BY <1>0, <1>1 DEF CutOf
  <2> QED
    BY <2>1
<1> DEFINE T == {n \in 0..L : /\ cut[n] \in Seq(Seq(Lines)) /\ (n # 0 => cut[n] # << >>)
                              /\ Page!FlattenSeq(cut[n]) = SubSeq(ls, 1, n)}
<1>4. 0 \in T
  <2>1. cut[0] = << >> /\ 0 \in 0..L
    BY <1>3
  <2>2. << >> \in Seq(Seq(Lines)) /\ SubSeq(ls, 1, 0) = << >>
    OBVIOUS
  <2> QED
    BY <2>1, <2>2, FlattenNone
<1>5. ASSUME NEW n \in 0..L - 1, n \in T PROVE n + 1 \in T
  <2> DEFINE j == n + 1
  <2>1. /\ j \in 0..L /\ j # 0 /\ j - 1 = n /\ ls[j] \in Lines
        /\ Append(SubSeq(ls, 1, n), ls[j]) = SubSeq(ls, 1, j)
    BY <1>0
  <2>2. cut[n] \in Seq(Seq(Lines)) /\ Page!FlattenSeq(cut[n]) = SubSeq(ls, 1, n)
    BY <1>5
  <2> HIDE DEF j
  <2>3. cut[j] = Page!Put(cut[n], ls[j], lines, bytes)
    BY <1>3, <2>1
  <2>4. /\ cut[j] \in Seq(Seq(Lines)) /\ cut[j] # << >>
        /\ Page!FlattenSeq(cut[j]) = Append(Page!FlattenSeq(cut[n]), ls[j])
    BY <2>1, <2>2, <2>3, PutAtTheEnd, SMTT(30)
  <2> QED
    BY <2>1, <2>2, <2>4 DEF j
<1> HIDE DEF T
<1>6. \A n \in 0..L : n \in T
  BY <1>4, <1>5, UpTo
<1>7. L \in T /\ SubSeq(ls, 1, L) = ls /\ (ls # << >> => L # 0)
  BY <1>0, <1>6
<1> QED
  BY <1>2, <1>7 DEF T

LEMMA InputLines ==
  ASSUME NEW mode, text \in Seq(Lines), batch \in Nat
  PROVE  Page!Input(mode) \in Seq(Lines)
<1> DEFINE some == IF mode = "preview"
                   THEN SubSeq(text, 1, IF Len(text) < batch THEN Len(text) ELSE batch)
                   ELSE text
<1>1. some \in Seq(Lines)
  OBVIOUS
<1>2. Page!Input(mode) = Page!Deduped(some)
  BY DEF Page!Input
<1> HIDE DEF some
<1> QED
  BY <1>1, <1>2, DedupedLines

\* What is planned is what the submit is about, in batches.
LEMMA PlannedIsInput ==
  ASSUME NEW mode, text \in Seq(Lines), batch \in Nat
  PROVE  /\ Page!Planned(mode) \in Seq(Seq(Lines)) /\ Page!Planned(mode) # << >>
         /\ mode # "preview" => Page!FlattenSeq(Page!Planned(mode)) = Page!Input(mode)
<1> DEFINE ls == Page!Input(mode)
           lines == IF config /\ ServerLines < batch THEN ServerLines ELSE batch
           bytes == IF config THEN ServerBytes ELSE Page!Bytes(ls)
           cs == IF chunking /\ Len(ls) > lines THEN Page!ChunkLines(ls, lines, bytes) ELSE <<ls>>
<1>1. ls \in Seq(Lines)
  BY InputLines
<1>2. lines \in Nat
  BY PageAssumption DEF Page!PageAssumption
<1>3. Page!Planned(mode) = IF mode = "preview" THEN SubSeq(cs, 1, 1) ELSE cs
  BY DEF Page!Planned
<1> HIDE DEF lines, bytes, ls
<1>4. cs \in Seq(Seq(Lines)) /\ cs # << >> /\ Page!FlattenSeq(cs) = ls
  <2>1. CASE chunking /\ Len(ls) > lines
    <3>1. ls # << >>
      BY <1>1, <1>2, <2>1
    <3> QED
      BY <1>1, <2>1, <3>1, ChunksAreCut
  <2>2. CASE ~(chunking /\ Len(ls) > lines)
    <3>1. cs = <<ls>>
      BY <2>2
    <3>2. <<ls>> \in Seq(Seq(Lines)) /\ <<ls>> # << >>
      BY <1>1
    <3> HIDE DEF cs
    <3> QED
      BY <1>1, <3>1, <3>2, FlattenOne
  <2> QED
    BY <2>1, <2>2
<1> HIDE DEF cs
<1>5. SubSeq(cs, 1, 1) \in Seq(Seq(Lines)) /\ SubSeq(cs, 1, 1) # << >>
  <2> DEFINE one == SubSeq(cs, 1, 1)
  <2>1. one \in Seq(Seq(Lines)) /\ Len(one) # 0 /\ Len(<< >>) = 0
    BY <1>4
  <2> HIDE DEF one
  <2>2. one # << >>
    BY <2>1
  <2> QED
    BY <2>1, <2>2 DEF one
<1> QED
  BY <1>3, <1>4, <1>5 DEF ls

Sums == [lines: Nat, images: Nat, failed: Nat, jobs: Nat, ids: Seq(Nat)]
PageRecords == [pc: {"ready", "posting"}, mode: Page!Modes, left: Seq(Seq(Lines)),
                sum: Sums, shows: {"nothing", "result", "error"}, progress: SUBSET Nat]
Fetches == [pc: {"roll", "ask"}, id: Nat, next: Seq(Nat), rolls: BOOLEAN]
ImportRows == Seq(Lines)
Befores == [imports: Nat, hydrations: Nat]

PageTypes ==
  /\ text \in Seq(Lines) /\ dedupe \in BOOLEAN /\ chunking \in BOOLEAN /\ config \in BOOLEAN
  /\ batch \in Batches /\ page \in PageRecords
  /\ imports \in Seq(ImportRows) /\ hydrations \in Nat /\ before \in Befores
  /\ submits \in 0..MaxSubmits /\ faults \in 0..MaxFaults

\* Only imports that there are are told, asked for, or shown.
Told(ids, n) == \A i \in DOMAIN ids : ids[i] \in 1..n
FetchRight(f, n) == f \in Fetches /\ f.id \in 1..n /\ Told(f.next, n)
FetchesRight(n) == \A f \in fetch : FetchRight(f, n)
PageKnows(n) ==
  /\ Told(page.sum.ids, n) /\ page.progress \subseteq 1..n
  /\ FetchesRight(n)

\* What was answered so far and what is left are the input, and the sum is of
\* what was answered.
AnsweredBy(ids, rows) == [i \in DOMAIN ids |-> rows[ids[i]]]
TellsFrom(rows, ids, a) == Len(rows) = a + Len(ids) /\ \A i \in DOMAIN ids : ids[i] = a + i
Adds(p, rows, sent, from, input) ==
  /\ p.mode = "import" => /\ TellsFrom(rows, p.sum.ids, from.imports)
                          /\ Page!FlattenSeq(AnsweredBy(p.sum.ids, rows) \o p.left) = input
  /\ p.mode # "import" => Len(rows) = from.imports
  /\ p.mode # "preview" => \E passed \in Seq(Seq(Lines)) :
                             /\ Page!FlattenSeq(passed \o p.left) = input
                             /\ p.sum.lines = Len(Page!FlattenSeq(passed))
  /\ sent = from.hydrations + p.sum.jobs
PageSums ==
  /\ page.pc = "posting" => page.shows = "nothing" /\ page.left # << >>
  /\ page.shows = "result" => page.left = << >>
  /\ \A m \in Page!Modes :
       page.mode = m /\ (page.pc = "posting" \/ page.shows = "result")
         => Adds(page, imports, hydrations, before, Page!Input(m))

PageInv == PageTypes /\ PageKnows(Len(imports)) /\ PageSums

\* A batch goes from what is left to what was answered.
LEMMA MovedBatch ==
  ASSUME NEW passed \in Seq(Seq(Lines)), NEW left \in Seq(Seq(Lines)), left # << >>
  PROVE  /\ Head(left) \in Seq(Lines) /\ Tail(left) \in Seq(Seq(Lines))
         /\ Append(passed, Head(left)) \o Tail(left) = passed \o left
OBVIOUS

\* One more import is told.
OneTold(rows, ids, new, rows1, ids1) ==
  rows1 = Append(rows, new) /\ ids1 = ids \o <<Len(rows) + 1>>

LEMMA AppendShape ==
  ASSUME NEW S, NEW s \in Seq(S), NEW n \in Nat, Len(s) = n, NEW x \in S
  PROVE  /\ Append(s, x) = [i \in 1..n + 1 |-> Append(s, x)[i]]
         /\ \A i \in 1..n : Append(s, x)[i] = s[i]
         /\ Append(s, x)[n + 1] = x
<1>1. PICK a \in Seq(S) : a = Append(s, x)
  <2>1. Append(s, x) \in Seq(S)
    OBVIOUS
  <2> QED
    BY <2>1
<1>2. Len(a) = n + 1 /\ a[n + 1] = x /\ \A i \in 1..n : a[i] = s[i]
  <2>1. n + 1 \in 1..n + 1 /\ \A i \in 1..n : i \in 1..n + 1 /\ i # n + 1
    OBVIOUS
  <2> QED
    BY <1>1, <2>1
<1>3. a = [i \in 1..n + 1 |-> a[i]]
  BY <1>2
<1> QED
  BY <1>1, <1>2, <1>3

LEMMA PostedMore ==
  ASSUME NEW rows \in Seq(ImportRows), NEW ids \in Seq(Nat), NEW a \in Nat, TellsFrom(rows, ids, a),
         NEW new \in ImportRows, NEW rows1, NEW ids1, OneTold(rows, ids, new, rows1, ids1)
  PROVE  /\ TellsFrom(rows1, ids1, a)
         /\ AnsweredBy(ids, rows) \in Seq(Seq(Lines))
         /\ AnsweredBy(ids1, rows1) = Append(AnsweredBy(ids, rows), new)
<1>1. PICK n \in Nat : n = Len(ids)
  OBVIOUS
<1>2. PICK L \in Nat : L = Len(rows)
  OBVIOUS
<1>3. /\ L = a + n /\ L + 1 = a + (n + 1) /\ n + 1 \in 1..n + 1
      /\ \A i \in 1..n : i \in 1..n + 1 /\ i # n + 1 /\ a + i \in 1..L
      /\ \A i \in 1..n + 1 : i # n + 1 => i \in 1..n
  BY <1>1, <1>2 DEF TellsFrom
<1>4. /\ DOMAIN ids = 1..n /\ DOMAIN ids1 = 1..n + 1 /\ Len(ids1) = n + 1
      /\ ids1[n + 1] = L + 1 /\ \A i \in 1..n : ids1[i] = ids[i]
  BY <1>1, <1>2 DEF OneTold
<1>5. Len(rows1) = L + 1 /\ rows1[L + 1] = new /\ \A i \in 1..L : rows1[i] = rows[i]
  BY <1>2 DEF OneTold
<1>6. Len(rows1) = a + Len(ids1)
  BY <1>3, <1>4, <1>5
<1>7. \A i \in DOMAIN ids1 : ids1[i] = a + i
  BY <1>3, <1>4 DEF TellsFrom
<1>8. \A i \in 1..n : ids[i] = a + i /\ rows[a + i] \in ImportRows /\ rows1[a + i] = rows[a + i]
  <2> TAKE i \in 1..n
  <2>1. PICK j \in 1..L : j = a + i
    BY <1>3
  <2>2. ids[i] = j
    BY <1>4, <2>1 DEF TellsFrom
  <2>3. rows[j] \in ImportRows
    BY <1>2, <2>1
  <2> QED
    BY <1>5, <2>1, <2>2, <2>3
<1> DEFINE old == AnsweredBy(ids, rows)
           all == AnsweredBy(ids1, rows1)
<1>9. DOMAIN old = 1..n /\ old = [i \in 1..n |-> old[i]] /\ \A i \in 1..n : old[i] = rows[a + i]
  BY <1>4, <1>8 DEF AnsweredBy
<1>10. DOMAIN all = 1..n + 1 /\ all = [i \in 1..n + 1 |-> all[i]]
       /\ \A i \in 1..n + 1 : all[i] = rows1[a + i]
  BY <1>4, <1>7 DEF AnsweredBy
<1> HIDE DEF old, all
<1>11. new \in Seq(Lines) /\ \A i \in 1..n : old[i] \in Seq(Lines)
  BY <1>8, <1>9 DEF ImportRows
<1>12. old \in Seq(Seq(Lines)) /\ Len(old) = n
  <2>1. old \in [1..n -> Seq(Lines)]
    BY <1>9, <1>11
  <2> QED
    BY <2>1
<1>13. all[n + 1] = new /\ \A i \in 1..n : all[i] = old[i]
  <2>1. all[n + 1] = rows1[a + (n + 1)]
    BY <1>3, <1>10, Zenon
  <2>2. rows1[a + (n + 1)] = new
    BY <1>3, <1>5
  <2>3. \A i \in 1..n : all[i] = rows1[a + i]
    BY <1>3, <1>10
  <2> QED
    BY <1>8, <1>9, <2>1, <2>2, <2>3, ZenonT(30)
<1>14. all = Append(old, new)
  <2>1. /\ Append(old, new) = [i \in 1..n + 1 |-> Append(old, new)[i]]
        /\ \A i \in 1..n : Append(old, new)[i] = old[i]
        /\ Append(old, new)[n + 1] = new
    <3>1. n \in Nat
      BY <1>1
    <3> QED
      BY <3>1, <1>11, <1>12, AppendShape
  <2>2. \A i \in 1..n + 1 : all[i] = Append(old, new)[i]
    BY <1>3, <1>13, <2>1
  <2> QED
    BY <1>10, <2>1, <2>2
<1> QED
  BY <1>6, <1>7, <1>12, <1>14 DEF old, all, TellsFrom

LEMMA AnswerAdds ==
  ASSUME NEW p \in PageRecords, p.left # << >>, NEW rows \in Seq(ImportRows), NEW sent \in Nat,
         NEW from \in Befores, NEW input, Adds(p, rows, sent, from, input),
         NEW jobs1 \in Nat, NEW rows1, NEW ids, NEW q,
         q.mode = p.mode, q.left = Tail(p.left), q.sum.lines = p.sum.lines + Len(Head(p.left)),
         q.sum.jobs = p.sum.jobs + jobs1, q.sum.ids = p.sum.ids \o ids,
         \/ p.mode # "import" /\ rows1 = rows
         \/ /\ p.mode = "import" /\ ids = <<Len(rows) + 1>>
            /\ rows1 = Append(rows, Head(p.left))
  PROVE  Adds(q, rows1, sent + jobs1, from, input)
<1> DEFINE AnyDone == \E passed \in Seq(Seq(Lines)) : /\ Page!FlattenSeq(passed \o q.left) = input
                                                    /\ q.sum.lines = Len(Page!FlattenSeq(passed))
           AllTold == /\ TellsFrom(rows1, q.sum.ids, from.imports)
                      /\ Page!FlattenSeq(AnsweredBy(q.sum.ids, rows1) \o q.left) = input
<1>1. p.left \in Seq(Seq(Lines)) /\ p.sum.ids \in Seq(Nat) /\ p.sum.jobs \in Nat /\ p.sum.lines \in Nat
  BY DEF PageRecords, Sums
<1>2. from.imports \in Nat /\ from.hydrations \in Nat
  BY DEF Befores
<1>3. Head(p.left) \in Seq(Lines)
  BY <1>1, MovedBatch
<1>4. sent + jobs1 = from.hydrations + q.sum.jobs
  <2>1. sent = from.hydrations + p.sum.jobs
    BY DEF Adds
  <2> QED
    BY <1>1, <1>2, <2>1
<1>5. p.mode # "preview" => AnyDone
  <2> SUFFICES ASSUME p.mode # "preview" PROVE AnyDone
    OBVIOUS
  <2>1. PICK passed \in Seq(Seq(Lines)) : /\ Page!FlattenSeq(passed \o p.left) = input
                                        /\ p.sum.lines = Len(Page!FlattenSeq(passed))
    BY DEF Adds
  <2>2. Append(passed, Head(p.left)) \in Seq(Seq(Lines))
    BY <1>3, OneMore
  <2>3. Append(passed, Head(p.left)) \o q.left = passed \o p.left
    BY <1>1, MovedBatch
  <2>4. Page!FlattenSeq(Append(passed, Head(p.left))) = Page!FlattenSeq(passed) \o Head(p.left)
    BY <1>3, FlattenAppend
  <2>5. Page!FlattenSeq(passed) \in Seq(Lines)
    BY FlattenType
  <2>6. Len(Page!FlattenSeq(passed) \o Head(p.left)) = Len(Page!FlattenSeq(passed)) + Len(Head(p.left))
    BY <1>3, <2>5
  <2> QED
    BY <2>1, <2>2, <2>3, <2>4, <2>6
<1>6. p.mode = "import" => AllTold
  <2> SUFFICES ASSUME p.mode = "import" PROVE AllTold
    OBVIOUS
  <2> DEFINE new == Head(p.left)
             old == AnsweredBy(p.sum.ids, rows)
             all == AnsweredBy(q.sum.ids, rows1)
  <2>1. /\ TellsFrom(rows, p.sum.ids, from.imports)
        /\ Page!FlattenSeq(old \o p.left) = input
    BY DEF Adds
  <2>2. new = Head(p.left) /\ new \in ImportRows /\ OneTold(rows, p.sum.ids, new, rows1, q.sum.ids)
    BY <1>3 DEF ImportRows, OneTold
  <2> HIDE DEF new
  <2>3. /\ TellsFrom(rows1, q.sum.ids, from.imports)
        /\ old \in Seq(Seq(Lines)) /\ all = Append(old, new)
    BY <1>1, <1>2, <2>1, <2>2, PostedMore, SMTT(30)
  <2> HIDE DEF old, all
  <2>4. all \o q.left = old \o p.left
    BY <1>1, <2>2, <2>3, MovedBatch
  <2> QED
    BY <2>1, <2>3, <2>4 DEF all
<1>7. p.mode # "import" => Len(rows1) = from.imports
  BY DEF Adds
<1> QED
  BY <1>4, <1>5, <1>6, <1>7 DEF Adds

\* What a line names counts once, and what names nothing each time.
LEMMA LinesCounted ==
  ASSUME NEW ls \in Seq(Lines)
  PROVE  Page!Cardinality(Page!Good(ls)) \in Nat /\ Page!Junk(ls) \in Nat
<1> DEFINE all == {Image[ls[i]] : i \in DOMAIN ls}
           f == [i \in DOMAIN ls |-> Image[ls[i]]]
<1>1. IsFiniteSet(DOMAIN ls)
  <2>1. DOMAIN ls = 1..Len(ls) /\ Len(ls) \in Nat
    OBVIOUS
  <2> QED
    BY <2>1, FS_Interval
<1>2. f \in Surjection(DOMAIN ls, all)
  BY DEF Surjection
<1>3. IsFiniteSet(all)
  BY <1>1, <1>2, FS_Surjection
<1>4. IsFiniteSet(all \ {"junk"}) /\ IsFiniteSet({i \in DOMAIN ls : Image[ls[i]] = "junk"})
  BY <1>1, <1>3, FS_Subset
<1>5. \A S : Page!Cardinality(S) = Cardinality(S)
  BY DEF Page!Cardinality, Cardinality
<1> QED
  BY <1>4, <1>5, FS_CardinalityType DEF Page!Good, Page!Junk

LEMMA SameInput ==
  ASSUME UNCHANGED <<text, dedupe, batch>>, NEW m
  PROVE  Page!Input(m)' = Page!Input(m)
BY DEF Page!Input, Page!Deduped

LEMMA AddsKept ==
  ASSUME NEW p, NEW q, q.mode = p.mode, q.left = p.left, q.sum = p.sum,
         NEW rows, NEW rows1, Len(rows1) = Len(rows),
         \A i \in DOMAIN p.sum.ids : rows1[p.sum.ids[i]] = rows[p.sum.ids[i]],
         NEW sent, NEW from, NEW input, Adds(p, rows, sent, from, input)
  PROVE  Adds(q, rows1, sent, from, input)
<1>1. AnsweredBy(q.sum.ids, rows1) = AnsweredBy(p.sum.ids, rows)
  BY DEF AnsweredBy
<1> QED
  BY <1>1 DEF Adds, TellsFrom

LEMMA InitPageInv == Page!Init => PageInv
<1> SUFFICES ASSUME Page!Init PROVE PageInv
  OBVIOUS
<1> USE PageAssumption DEF Page!PageAssumption, Page!Init
<1>1. << >> \in Seq(Nat) /\ << >> \in Seq(Seq(Lines)) /\ << >> \in Seq(ImportRows)
      /\ DOMAIN << >> = {}
  OBVIOUS
<1>2. text \in Seq(Lines)
  OBVIOUS
<1>4. Page!Nothing \in Sums /\ Page!Nothing.ids = << >>
  BY <1>1 DEF Page!Nothing, Sums
<1>5. page \in PageRecords /\ page.sum = Page!Nothing /\ page.progress = {} /\ page.left = << >>
      /\ page.pc = "ready" /\ page.shows = "nothing"
  BY <1>1, <1>4 DEF PageRecords, Page!Modes
<1>6. fetch = {}
  OBVIOUS
<1>7. before \in Befores
  BY DEF Befores
<1>8. PageTypes
  <2>1. submits \in 0..MaxSubmits /\ faults \in 0..MaxFaults /\ hydrations \in Nat
    OBVIOUS
  <2>2. imports \in Seq(ImportRows) /\ config \in BOOLEAN /\ dedupe \in BOOLEAN
        /\ chunking \in BOOLEAN /\ batch \in Batches
    BY <1>1
  <2> QED
    BY <1>2, <1>5, <1>7, <2>1, <2>2 DEF PageTypes
<1>9. PageKnows(Len(imports))
  BY <1>1, <1>4, <1>5, <1>6 DEF PageKnows, FetchesRight, Told
<1>10. PageSums
  BY <1>5 DEF PageSums
<1> QED
  BY <1>8, <1>9, <1>10 DEF PageInv

\* Imports come, and stay.
LEMMA KnowsMore ==
  ASSUME NEW n \in Nat, NEW m \in Nat, n <= m, PageKnows(n)
  PROVE  PageKnows(m)
BY DEF PageKnows, FetchesRight, FetchRight, Told

\* A submit that is refused, fails or is cleared shows nothing.
LEMMA PageForgets ==
  ASSUME PageInv, page' \in PageRecords, page'.sum = Page!Nothing, page'.pc = "ready",
         page'.shows # "result", page'.progress = page.progress,
         text' \in Seq(Lines), UNCHANGED <<dedupe, chunking, config, batch, fetch, before>>,
         imports' \in Seq(ImportRows), Len(imports') >= Len(imports), hydrations' \in Nat,
         submits' \in 0..MaxSubmits, faults' \in 0..MaxFaults
  PROVE  PageInv'
<1>1. PageTypes'
  BY DEF PageInv, PageTypes
<1>2. PageSums'
  BY DEF PageSums
<1>3. PageKnows(Len(imports))'
  <2>1. Len(imports) \in Nat /\ Len(imports') \in Nat
    BY DEF PageInv, PageTypes
  <2>2. PageKnows(Len(imports'))
    BY <2>1, KnowsMore DEF PageInv
  <2>3. Told(page'.sum.ids, Len(imports'))
    BY DEF Page!Nothing, Told
  <2> QED
    BY <2>2, <2>3 DEF PageKnows, FetchesRight
<1> QED
  BY <1>1, <1>2, <1>3 DEF PageInv

\* What a submit did so far stays true while the page does something else.
LEMMA PageKeeps ==
  ASSUME PageInv, page' \in PageRecords, page'.mode = page.mode, page'.left = page.left,
         page'.sum = page.sum, page'.shows = page.shows,
         page'.pc = "posting" <=> page.pc = "posting",
         page'.progress \subseteq 1..Len(imports),
         UNCHANGED <<text, dedupe, chunking, batch, hydrations, before, submits>>, faults' \in 0..MaxFaults,
         config' \in BOOLEAN, imports' \in Seq(ImportRows), Len(imports') = Len(imports),
         \A i \in 1..Len(imports) : imports'[i] = imports[i],
         FetchesRight(Len(imports))'
  PROVE  PageInv'
<1>1. PageTypes'
  BY DEF PageInv, PageTypes
<1>2. PageKnows(Len(imports))'
  BY DEF PageInv, PageKnows
<1>3. \A i \in DOMAIN page.sum.ids :
        imports'[page.sum.ids[i]] = imports[page.sum.ids[i]]
  BY DEF PageInv, PageKnows, Told
<1>4. PageSums'
  <2>1. /\ page'.pc = "posting" => page'.shows = "nothing" /\ page'.left # << >>
        /\ page'.shows = "result" => page'.left = << >>
    BY DEF PageInv, PageSums
  <2>2. ASSUME NEW m \in Page!Modes, page'.mode = m,
               page'.pc = "posting" \/ page'.shows = "result"
        PROVE  Adds(page', imports', hydrations', before', Page!Input(m)')
    <3>1. Adds(page, imports, hydrations, before, Page!Input(m))
      BY <2>2 DEF PageInv, PageSums
    <3>2. Page!Input(m)' = Page!Input(m)
      BY SameInput
    <3> QED
      BY <1>3, <3>1, <3>2, AddsKept
  <2> QED
    BY <2>1, <2>2 DEF PageSums
<1> QED
  BY <1>1, <1>2, <1>4 DEF PageInv

LEMMA LengthZero ==
  ASSUME NEW S, NEW s \in Seq(S)
  PROVE  s = << >> <=> Len(s) = 0
OBVIOUS

LEMMA OneAtTheEnd ==
  ASSUME NEW s \in Seq(Nat), NEW x \in Nat, NEW i \in DOMAIN (s \o <<x>>)
  PROVE  (i \in DOMAIN s /\ (s \o <<x>>)[i] = s[i]) \/ (s \o <<x>>)[i] = x
<1>1. PICK L \in Nat : L = Len(s)
  OBVIOUS
<1>2. i \in 1..L + 1
  BY <1>1
<1>3. CASE i = L + 1
  BY <1>1, <1>3
<1>4. CASE i # L + 1
  <2>1. i \in 1..L
    BY <1>2, <1>4
  <2> QED
    BY <1>1, <2>1
<1> QED
  BY <1>3, <1>4

\* An answer is added.
LEMMA AnswerShape ==
  ASSUME page \in PageRecords, page.left # << >>, NEW images \in Nat, NEW jobs1 \in Nat,
         NEW ids1 \in Seq(Nat), Page!Answered(Page!Batch, images, jobs1, ids1)
  PROVE  /\ page' \in PageRecords /\ page'.mode = page.mode /\ page'.left = Tail(page.left)
         /\ page'.sum.lines = page.sum.lines + Len(Head(page.left))
         /\ page'.sum.jobs = page.sum.jobs + jobs1 /\ page'.sum.ids = page.sum.ids \o ids1
         /\ page'.progress = page.progress
         /\ page'.pc = "posting" => page'.shows = "nothing" /\ page'.left # << >>
         /\ page'.shows = "result" => page'.left = << >>
<1> DEFINE s == [lines |-> page.sum.lines + Len(Page!Batch), images |-> page.sum.images + images,
                 failed |-> page.sum.failed + Page!Junk(Page!Batch),
                 jobs |-> page.sum.jobs + jobs1, ids |-> page.sum.ids \o ids1]
           ends == Len(page.left) = 1
<1>1. page.left \in Seq(Seq(Lines)) /\ page.sum \in Sums
  BY DEF PageRecords
<1>2. /\ Page!Batch = Head(page.left) /\ Page!Batch \in Seq(Lines)
      /\ Tail(page.left) \in Seq(Seq(Lines)) /\ (ends <=> Tail(page.left) = << >>)
  <2>1. PICK b \in Seq(Seq(Lines)) : b = page.left /\ b # << >>
    BY <1>1
  <2>2. Head(b) \in Seq(Lines) /\ Tail(b) \in Seq(Seq(Lines))
    BY <2>1, MovedBatch
  <2>3. Len(Tail(b)) = Len(b) - 1 /\ Len(b) \in Nat
    BY <2>1
  <2>4. Tail(b) = << >> <=> Len(Tail(b)) = 0
    BY <2>2, LengthZero
  <2> QED
    BY <2>1, <2>2, <2>3, <2>4 DEF Page!Batch
<1>3. s \in Sums
  <2>1. Len(Page!Batch) \in Nat /\ Page!Junk(Page!Batch) \in Nat
    <3>1. Page!Batch \in Seq(Lines)
      BY <1>2
    <3> QED
      BY <3>1, LinesCounted
  <2>2. /\ page.sum.lines \in Nat /\ page.sum.images \in Nat /\ page.sum.failed \in Nat
        /\ page.sum.jobs \in Nat /\ page.sum.ids \in Seq(Nat)
    BY <1>1, Zenon DEF Sums
  <2>3. page.sum.ids \o ids1 \in Seq(Nat)
    BY <2>2
  <2>4. /\ page.sum.lines + Len(Page!Batch) \in Nat /\ page.sum.images + images \in Nat
        /\ page.sum.failed + Page!Junk(Page!Batch) \in Nat /\ page.sum.jobs + jobs1 \in Nat
    <3>1. \A a, b \in Nat : a + b \in Nat
      OBVIOUS
    <3> QED
      BY <2>1, <2>2, <3>1
  <2> QED
    BY <2>3, <2>4 DEF Sums
<1>4. /\ s.lines = page.sum.lines + Len(Head(page.left)) /\ s.jobs = page.sum.jobs + jobs1
      /\ s.ids = page.sum.ids \o ids1
  BY <1>2
<1>5. page' = [page EXCEPT !.left = Tail(page.left), !.pc = IF ends THEN "ready" ELSE "posting",
                           !.shows = IF ends THEN "result" ELSE "nothing", !.sum = s]
  BY DEF Page!Answered
<1> HIDE DEF s, ends
<1>6. page' \in PageRecords
  BY <1>2, <1>3, <1>5 DEF PageRecords
<1>7. /\ page'.mode = page.mode /\ page'.left = Tail(page.left) /\ page'.sum = s
      /\ page'.progress = page.progress
      /\ page'.pc = "posting" => page'.shows = "nothing" /\ ~ends
      /\ page'.shows = "result" => ends
  BY <1>5 DEF PageRecords
<1> QED
  BY <1>2, <1>4, <1>6, <1>7

\* Of what is told one is asked for after another.
LEMMA AskingRight ==
  ASSUME NEW s \in Seq(Nat), NEW n, Told(s, n)
  PROVE  \A f \in Page!Asking(s) : FetchRight(f, n)
<1>1. CASE s = << >>
  BY <1>1 DEF Page!Asking
<1>2. CASE s # << >>
  <2> DEFINE f == [pc |-> "ask", id |-> Head(s), next |-> Tail(s), rolls |-> FALSE]
  <2>1. Page!Asking(s) = {f}
    BY <1>2 DEF Page!Asking
  <2>2. /\ Head(s) \in Nat /\ Tail(s) \in Seq(Nat) /\ Head(s) = s[1] /\ 1 \in DOMAIN s
        /\ \A i \in DOMAIN Tail(s) : i + 1 \in DOMAIN s /\ Tail(s)[i] = s[i + 1]
    BY <1>2
  <2>3. Head(s) \in 1..n /\ Told(Tail(s), n)
    BY <2>2 DEF Told
  <2>4. FetchRight(f, n)
    BY <2>2, <2>3 DEF Fetches, FetchRight
  <2> QED
    BY <2>1, <2>4
<1> QED
  BY <1>1, <1>2

LEMMA AnswerKept ==
  ASSUME PageInv, page.pc = "posting", NEW images \in Nat, NEW jobs1 \in Nat,
         NEW ids1 \in Seq(Nat), Page!Answered(Page!Batch, images, jobs1, ids1),
         UNCHANGED <<text, dedupe, chunking, config, batch, before, submits>>,
         faults' \in 0..MaxFaults, hydrations' = hydrations + jobs1,
         \/ page.mode # "import" /\ imports' = imports /\ ids1 = << >>
         \/ /\ page.mode = "import" /\ ids1 = <<Len(imports) + 1>>
            /\ imports' = Append(imports, Page!Batch),
         NEW asked \in {<< >>, page'.sum.ids}, fetch' = fetch \union Page!Asking(asked)
  PROVE  PageInv'
<1>1. page \in PageRecords /\ page.left # << >> /\ page.left \in Seq(Seq(Lines))
      /\ page.sum.ids \in Seq(Nat) /\ imports \in Seq(ImportRows) /\ hydrations \in Nat
      /\ before \in Befores /\ page.mode \in Page!Modes
  BY DEF PageInv, PageTypes, PageSums, PageRecords, Sums
<1>2. /\ page' \in PageRecords /\ page'.mode = page.mode /\ page'.left = Tail(page.left)
      /\ page'.sum.lines = page.sum.lines + Len(Head(page.left))
      /\ page'.sum.jobs = page.sum.jobs + jobs1 /\ page'.sum.ids = page.sum.ids \o ids1
      /\ page'.progress = page.progress
      /\ page'.pc = "posting" => page'.shows = "nothing" /\ page'.left # << >>
      /\ page'.shows = "result" => page'.left = << >>
  BY <1>1, AnswerShape
<1>3. Page!Batch = Head(page.left) /\ Page!Batch \in Seq(Lines)
  BY <1>1 DEF Page!Batch
<1>4. PICK n \in Nat, n1 \in Nat : n = Len(imports) /\ n1 = Len(imports') /\ n <= n1
  <2>1. Len(imports) \in Nat /\ Len(Append(imports, Page!Batch))
                               = Len(imports) + 1
    BY <1>1
  <2>2. Len(imports') = Len(imports) \/ Len(imports') = Len(imports) + 1
    BY <2>1
  <2> QED
    BY <2>1, <2>2
<1>5. imports' \in Seq(ImportRows)
  <2>1. Page!Batch \in ImportRows
    BY <1>3 DEF ImportRows
  <2>2. \A new \in ImportRows : Append(imports, new) \in Seq(ImportRows)
    BY <1>1
  <2> QED
    BY <1>1, <2>1, <2>2
<1>6. PageKnows(n1)
  BY <1>4, KnowsMore DEF PageInv
<1>7. Told(page'.sum.ids, n1)
  <2>1. CASE ids1 = << >>
    BY <1>1, <1>2, <1>6, <2>1 DEF PageKnows, Told
  <2>2. CASE ids1 = <<Len(imports) + 1>> /\ n1 = n + 1
    <3>1. ids1 = <<n1>> /\ n1 \in 1..n1
      BY <1>4, <2>2
    <3>2. Told(page.sum.ids, n1)
      BY <1>6 DEF PageKnows
    <3>3. Told(page.sum.ids \o <<n1>>, n1)
      <4>1. ASSUME NEW i \in DOMAIN (page.sum.ids \o <<n1>>)
            PROVE  (page.sum.ids \o <<n1>>)[i] \in 1..n1
        BY <1>1, <3>1, <3>2, <4>1, OneAtTheEnd DEF Told
      <4> QED
        BY <4>1 DEF Told
    <3> QED
      BY <1>2, <3>1, <3>3
  <2>3. ids1 = <<Len(imports) + 1>> => n1 = n + 1
    <3>1. ids1 = <<Len(imports) + 1>> => ids1 # << >>
      OBVIOUS
    <3> QED
      BY <1>1, <1>4, <3>1
  <2> QED
    BY <2>1, <2>2, <2>3
<1>8. FetchesRight(n1)'
  <2>1. asked \in Seq(Nat) /\ Told(asked, n1)
    <3>1. page'.sum.ids \in Seq(Nat)
      BY <1>2 DEF PageRecords, Sums
    <3>2. << >> \in Seq(Nat) /\ Told(<< >>, n1)
      BY DEF Told
    <3> QED
      BY <1>7, <3>1, <3>2
  <2>2. \A f \in Page!Asking(asked) : FetchRight(f, n1)
    BY <2>1, AskingRight
  <2> QED
    BY <1>6, <2>2 DEF PageKnows, FetchesRight
<1>9. PageKnows(Len(imports))'
  BY <1>2, <1>4, <1>6, <1>7, <1>8 DEF PageKnows
<1>10. PageTypes'
  BY <1>1, <1>2, <1>5, <1>8 DEF PageInv, PageTypes
<1>11. PageSums'
  <2>2. ASSUME NEW m \in Page!Modes, page'.mode = m,
               page'.pc = "posting" \/ page'.shows = "result"
        PROVE  Adds(page', imports', hydrations', before', Page!Input(m)')
    <3>1. Adds(page, imports, hydrations, before, Page!Input(m))
      BY <1>2, <2>2 DEF PageInv, PageSums
    <3>2. Page!Input(m)' = Page!Input(m)
      BY SameInput
    <3>3. \/ page.mode # "import" /\ imports' = imports
          \/ /\ page.mode = "import" /\ ids1 = <<Len(imports) + 1>>
             /\ imports' = Append(imports, Head(page.left))
      BY <1>3
    <3>4. Adds(page', imports', hydrations + jobs1, before, Page!Input(m))
      BY <1>1, <1>2, <3>1, <3>3, AnswerAdds
    <3> QED
      BY <3>2, <3>4
  <2> QED
    BY <1>2, <2>2 DEF PageSums
<1> QED
  BY <1>9, <1>10, <1>11 DEF PageInv

LEMMA SubmitKept ==
  ASSUME PageInv, NEW mode \in Page!Modes, Page!Submit(mode)
  PROVE  PageInv'
<1>1. page \in PageRecords /\ imports \in Seq(ImportRows) /\ hydrations \in Nat
      /\ submits \in 0..MaxSubmits /\ text \in Seq(Lines) /\ batch \in Nat
      /\ MaxSubmits \in Nat
  BY PageAssumption DEF PageInv, PageTypes, Page!PageAssumption
<1>2. submits' \in 0..MaxSubmits
  BY <1>1 DEF Page!Submit
<1>3. /\ before' = [imports |-> Len(imports), hydrations |-> hydrations]
      /\ UNCHANGED <<text, dedupe, chunking, batch, config, fetch, imports, hydrations, faults>>
  BY DEF Page!Submit, Page!form, Page!table
<1>5. Page!Nothing \in Sums /\ Page!Nothing.ids = << >> /\ Page!Nothing.lines = 0 /\ Page!Nothing.jobs = 0
  BY DEF Page!Nothing, Sums
<1>6. Page!Planned(mode) \in Seq(Seq(Lines)) /\ Page!Planned(mode) # << >>
  BY <1>1, PlannedIsInput
<1> DEFINE refused == [page EXCEPT !.shows = "error", !.sum = Page!Nothing, !.progress = {}]
           begun == [page EXCEPT !.pc = "posting", !.mode = mode, !.left = Page!Planned(mode),
                                 !.sum = Page!Nothing, !.shows = "nothing", !.progress = {}]
<1>7. page.pc = "ready" /\ page' = IF text = << >> THEN refused ELSE begun
  BY DEF Page!Submit
<1>8. /\ refused \in PageRecords /\ refused.sum = Page!Nothing /\ refused.progress = {}
      /\ refused.pc = "ready" /\ refused.shows = "error"
  BY <1>1, <1>5, <1>7 DEF PageRecords
<1>9. /\ begun \in PageRecords /\ begun.sum = Page!Nothing /\ begun.progress = {}
      /\ begun.pc = "posting" /\ begun.shows = "nothing" /\ begun.mode = mode
      /\ begun.left = Page!Planned(mode)
  BY <1>1, <1>5, <1>6 DEF PageRecords
<1> HIDE DEF refused, begun
<1>10. page' \in PageRecords /\ page'.sum = Page!Nothing /\ page'.progress = {}
  BY <1>7, <1>8, <1>9
<1>11. PageTypes'
  BY <1>1, <1>2, <1>3, <1>10 DEF PageInv, PageTypes, Befores
<1>12. PageKnows(Len(imports))'
  <2>1. Told(<< >>, Len(imports))
    BY DEF Told
  <2> QED
    BY <1>3, <1>5, <1>10, <2>1 DEF PageInv, PageKnows, FetchesRight
<1>13. PageSums'
  <2>1. CASE text = << >>
    BY <1>7, <1>8, <2>1 DEF PageSums
  <2>2. CASE text # << >>
    <3>1. page' = begun
      BY <1>7, <2>2
    <3>2. before'.imports = Len(imports) /\ before'.hydrations = hydrations
      BY <1>3
    <3>3. Adds(page', imports, hydrations, before', Page!Input(mode))
      <4>1. << >> \in Seq(Seq(Lines)) /\ << >> \o Page!Planned(mode) = Page!Planned(mode)
        BY <1>6
      <4>2. AnsweredBy(<< >>, imports) = << >>
        BY DEF AnsweredBy
      <4>3. mode # "preview" => Page!FlattenSeq(<< >> \o page'.left) = Page!Input(mode)
        BY <1>1, <1>9, <3>1, <4>1, PlannedIsInput
      <4>4. TellsFrom(imports, << >>, Len(imports))
        BY <1>1 DEF TellsFrom
      <4>5. mode # "preview" => \E passed \in Seq(Seq(Lines)) :
                                  /\ Page!FlattenSeq(passed \o page'.left) = Page!Input(mode)
                                  /\ 0 = Len(Page!FlattenSeq(passed))
        BY <4>1, <4>3, FlattenNone
      <4>6. /\ page'.sum.ids = << >> /\ page'.sum.lines = 0 /\ page'.sum.jobs = 0
            /\ page'.mode = mode
        BY <1>5, <1>9, <3>1
      <4>7. hydrations = before'.hydrations + page'.sum.jobs
        BY <1>1, <3>2, <4>6
      <4>8. TellsFrom(imports, page'.sum.ids, before'.imports)
            /\ AnsweredBy(page'.sum.ids, imports) = << >> /\ Len(imports) = before'.imports
        BY <3>2, <4>2, <4>4, <4>6
      <4> QED
        BY <4>3, <4>5, <4>6, <4>7, <4>8 DEF Adds
    <3>4. Page!Input(mode)' = Page!Input(mode)
      BY <1>3, SameInput
    <3>5. \A m \in Page!Modes : page'.mode = m => m = mode
      BY <1>9, <3>1
    <3> QED
      BY <1>3, <1>6, <1>9, <3>1, <3>3, <3>4, <3>5 DEF PageSums
  <2> QED
    BY <2>1, <2>2
<1> QED
  BY <1>11, <1>12, <1>13 DEF PageInv

\* An error ends the submit, and Clear forgets it.
LEMMA FailedKept ==
  ASSUME PageInv, Page!Refuse \/ Page!ImportFails \/ Page!HydrateFails \/ Page!Clear
  PROVE  PageInv'
<1>1. page \in PageRecords /\ imports \in Seq(ImportRows) /\ hydrations \in Nat
      /\ text \in Seq(Lines) /\ MaxFaults \in Nat /\ faults \in 0..MaxFaults
      /\ submits \in 0..MaxSubmits
  BY PageAssumption DEF PageInv, PageTypes, Page!PageAssumption
<1>2. Page!Nothing \in Sums /\ << >> \in Seq(Seq(Lines)) /\ << >> \in Seq(Lines)
  BY DEF Page!Nothing, Sums
<1>3. ASSUME Page!Failed
      PROVE  /\ page' \in PageRecords /\ page'.sum = Page!Nothing /\ page'.pc = "ready"
             /\ page'.shows # "result" /\ page'.progress = page.progress
  BY <1>1, <1>2, <1>3 DEF Page!Failed, PageRecords
<1>4. ASSUME Page!Fault PROVE faults' \in 0..MaxFaults
  BY <1>1, <1>4 DEF Page!Fault
<1>5. ASSUME page.pc = "posting"
      PROVE  Page!Batch \in Seq(Lines) /\ Page!Batch \in ImportRows
  BY <1>1, <1>5 DEF PageInv, PageSums, PageRecords, ImportRows, Page!Batch
<1>6. CASE Page!Refuse
  <2>1. /\ Page!Failed
        /\ UNCHANGED <<text, dedupe, chunking, batch, config, fetch, imports, hydrations, before,
                       submits, faults>>
    BY <1>6 DEF Page!Refuse, Page!form, Page!table, Page!bound
  <2> QED
    BY <1>1, <1>3, <2>1, PageForgets
<1>7. CASE Page!ImportFails
  <2>1. /\ Page!Failed /\ Page!Fault /\ page.pc = "posting"
        /\ UNCHANGED <<text, dedupe, chunking, batch, config, fetch, hydrations, before, submits>>
        /\ imports' = imports \/ imports' = Append(imports, Page!Batch)
    BY <1>7 DEF Page!ImportFails, Page!form
  <2>2. imports' \in Seq(ImportRows) /\ Len(imports') >= Len(imports)
    <3>1. ASSUME NEW new \in ImportRows
          PROVE  Append(imports, new) \in Seq(ImportRows)
                 /\ Len(Append(imports, new)) >= Len(imports) /\ Len(imports) >= Len(imports)
      BY <1>1
    <3> QED
      BY <1>1, <1>5, <2>1, <3>1
  <2> QED
    BY <1>1, <1>3, <1>4, <2>1, <2>2, PageForgets
<1>8. CASE Page!HydrateFails
  <2>1. /\ Page!Failed /\ Page!Fault /\ page.pc = "posting"
        /\ UNCHANGED <<text, dedupe, chunking, batch, config, fetch, imports, before, submits>>
        /\ \E n \in {0, Page!Cardinality(Page!Good(Page!Batch))} : hydrations' = hydrations + n
    BY <1>8 DEF Page!HydrateFails, Page!form
  <2>2. hydrations' \in Nat
    BY <1>1, <1>5, <2>1, LinesCounted
  <2> QED
    BY <1>1, <1>3, <1>4, <2>1, <2>2, PageForgets
<1>9. CASE Page!Clear
  <2>1. /\ page.pc = "ready" /\ text' = << >>
        /\ page' = [page EXCEPT !.sum = Page!Nothing, !.shows = "nothing"]
        /\ UNCHANGED <<dedupe, chunking, batch, config, fetch, imports, hydrations, before, submits,
                       faults>>
    BY <1>9 DEF Page!Clear, Page!table, Page!bound
  <2>2. /\ page' \in PageRecords /\ page'.sum = Page!Nothing /\ page'.pc = "ready"
        /\ page'.shows # "result" /\ page'.progress = page.progress
    BY <1>1, <1>2, <2>1 DEF PageRecords
  <2> QED
    BY <1>1, <1>2, <2>1, <2>2, PageForgets
<1> QED
  BY <1>6, <1>7, <1>8, <1>9

LEMMA AnswersKept ==
  ASSUME PageInv, Page!Preview \/ Page!Import \/ Page!Hydrate
  PROVE  PageInv'
<1>1. faults \in 0..MaxFaults /\ MaxFaults \in Nat /\ imports \in Seq(ImportRows) /\ hydrations \in Nat
  BY PageAssumption DEF PageInv, PageTypes, Page!PageAssumption
<1>2. page.pc = "posting" /\ << >> \in Seq(Nat) /\ <<Len(imports) + 1>> \in Seq(Nat)
  BY <1>1 DEF Page!Preview, Page!Import, Page!Hydrate
<1>3. Page!Cardinality(Page!Good(Page!Batch)) \in Nat
  <2>1. Page!Batch \in Seq(Lines)
    BY <1>2 DEF PageInv, PageTypes, PageSums, PageRecords, Page!Batch
  <2> QED
    BY <2>1, LinesCounted
<1>4. CASE Page!Preview
  <2>2. << >> \in {<< >>, page'.sum.ids} /\ fetch' = fetch \union Page!Asking(<< >>)
    BY <1>4 DEF Page!Preview, Page!Asking
  <2>1. /\ page.mode = "preview" /\ hydrations' = hydrations + 0
        /\ Page!Answered(Page!Batch, Page!Cardinality(Page!Good(Page!Batch)), 0, << >>)
        /\ UNCHANGED <<text, dedupe, chunking, batch, config, fetch, imports, before, submits, faults>>
    BY <1>1, <1>4 DEF Page!Preview, Page!form, Page!table, Page!bound
  <2> QED
    BY <1>1, <1>2, <1>3, <2>1, <2>2, AnswerKept, Zenon
<1>5. CASE Page!Import
  <2>1. /\ page.mode = "import" /\ hydrations' = hydrations + 0
        /\ imports' = Append(imports, Page!Batch)
        /\ Page!Answered(Page!Batch, Page!Cardinality(Page!Good(Page!Batch)), 0, <<Len(imports) + 1>>)
        /\ fetch' = fetch \union Page!Asking(IF page'.shows = "result" THEN page'.sum.ids ELSE << >>)
        /\ UNCHANGED <<text, dedupe, chunking, batch, config, before, submits, faults>>
    BY <1>1, <1>5 DEF Page!Import, Page!form, Page!bound
  <2> QED
    BY <1>1, <1>2, <1>3, <2>1, AnswerKept
<1>6. CASE Page!Hydrate
  <2>4. << >> \in {<< >>, page'.sum.ids} /\ fetch' = fetch \union Page!Asking(<< >>)
    BY <1>6 DEF Page!Hydrate, Page!Asking
  <2>1. PICK n \in 0..Page!Cardinality(Page!Good(Page!Batch)) :
          /\ IF n = Page!Cardinality(Page!Good(Page!Batch)) THEN UNCHANGED faults ELSE Page!Fault
          /\ hydrations' = hydrations + n
          /\ Page!Answered(Page!Batch, Page!Cardinality(Page!Good(Page!Batch)), n, << >>)
    BY <1>6 DEF Page!Hydrate
  <2>2. /\ page.mode = "hydrate"
        /\ UNCHANGED <<text, dedupe, chunking, batch, config, fetch, imports, before, submits>>
    BY <1>6 DEF Page!Hydrate, Page!form
  <2>3. n \in Nat /\ faults' \in 0..MaxFaults
    BY <1>1, <1>3, <2>1 DEF Page!Fault
  <2> QED
    BY <1>2, <1>3, <2>1, <2>2, <2>3, <2>4, AnswerKept, Zenon
<1> QED
  BY <1>4, <1>5, <1>6

\* The page's clicks and answers.
LEMMA WatchKept ==
  ASSUME PageInv,
         \/ Page!Configured \/ Page!ClickFetch
         \/ \E id \in DOMAIN imports : Page!ClickRollback(id)
         \/ \E f \in fetch : Page!Landed(f) \/ Page!RolledBack(f) \/ Page!RollbackFails(f)
  PROVE  PageInv'
<1>1. page \in PageRecords /\ imports \in Seq(ImportRows) /\ config \in BOOLEAN
      /\ page.sum.ids \in Seq(Nat) /\ FetchesRight(Len(imports))
      /\ Told(page.sum.ids, Len(imports)) /\ page.progress \subseteq 1..Len(imports)
      /\ faults \in 0..MaxFaults /\ MaxFaults \in Nat
  BY PageAssumption DEF PageInv, PageTypes, PageKnows, PageRecords, Sums, Page!PageAssumption
<1>2. ASSUME UNCHANGED <<text, dedupe, chunking, batch, imports, hydrations, before, submits>>,
             config' \in BOOLEAN, page' = page, faults' \in 0..MaxFaults,
             \A f \in fetch' : FetchRight(f, Len(imports))
      PROVE  PageInv'
  <2>1. FetchesRight(Len(imports))'
    BY <1>2 DEF FetchesRight
  <2> QED
    BY <1>1, <1>2, <2>1, PageKeeps
<1>9. \A f \in fetch : FetchRight(f, Len(imports))
  BY <1>1 DEF FetchesRight
<1>3. CASE Page!Configured
  BY <1>1, <1>2, <1>3, <1>9 DEF Page!Configured, Page!form, Page!table, Page!bound
<1>4. CASE Page!ClickFetch
  <2>1. PICK ids \in {<<id>> : id \in Page!Shown} \union {page.sum.ids} : fetch' = Page!Asking(ids)
    BY <1>4 DEF Page!ClickFetch
  <2>2. ids \in Seq(Nat) /\ Told(ids, Len(imports))
    <3>1. CASE ids = page.sum.ids
      BY <1>1, <3>1
    <3>2. ASSUME NEW id \in Page!Shown, ids = <<id>>
          PROVE  ids \in Seq(Nat) /\ Told(ids, Len(imports))
      <4>1. id \in 1..Len(imports) /\ Len(imports) \in Nat
        BY <1>1 DEF Page!Shown, Page!Range, Told
      <4> QED
        BY <3>2, <4>1 DEF Told
    <3> QED
      BY <3>1, <3>2
  <2>3. \A f \in fetch' : FetchRight(f, Len(imports))
    BY <2>1, <2>2, AskingRight
  <2> QED
    BY <1>1, <1>2, <1>4, <2>3 DEF Page!ClickFetch, Page!form, Page!table, Page!bound
<1>5. ASSUME NEW id \in DOMAIN imports, Page!ClickRollback(id) PROVE PageInv'
  <2> DEFINE f == [pc |-> "roll", id |-> id, next |-> << >>, rolls |-> TRUE]
  <2>1. id \in 1..Len(imports) /\ id \in Nat /\ << >> \in Seq(Nat)
    BY <1>1, <1>5
  <2>2. FetchRight(f, Len(imports))
    BY <2>1 DEF FetchRight, Fetches, Told
  <2>3. fetch' = fetch \union {f}
    BY <1>5 DEF Page!ClickRollback
  <2> HIDE DEF f
  <2>4. \A g \in fetch' : FetchRight(g, Len(imports))
    BY <1>9, <2>2, <2>3
  <2> QED
    BY <1>1, <1>2, <1>5, <2>4 DEF Page!ClickRollback, Page!form, Page!table, Page!bound
<1>6. ASSUME NEW f \in fetch, Page!RolledBack(f) PROVE PageInv'
  <2> DEFINE g == [f EXCEPT !.pc = "ask"]
  <2>1. FetchRight(g, Len(imports))
    BY <1>9, <1>6 DEF FetchRight, Fetches
  <2>2. fetch' = (fetch \ {f}) \union {g}
    BY <1>6 DEF Page!RolledBack
  <2> HIDE DEF g
  <2>3. \A h \in fetch' : FetchRight(h, Len(imports))
    BY <1>9, <2>1, <2>2
  <2> QED
    BY <1>1, <1>2, <1>6, <2>3 DEF Page!RolledBack, Page!form, Page!table, Page!bound
<1>7. ASSUME NEW f \in fetch, Page!RollbackFails(f) PROVE PageInv'
  <2>1. \A h \in fetch' : FetchRight(h, Len(imports))
    BY <1>9, <1>7 DEF Page!RollbackFails
  <2>2. faults' \in 0..MaxFaults
    BY <1>1, <1>7 DEF Page!RollbackFails, Page!Fault
  <2> QED
    BY <1>1, <1>2, <1>7, <2>1, <2>2 DEF Page!RollbackFails, Page!form, Page!table
<1>8. ASSUME NEW f \in fetch, Page!Landed(f) PROVE PageInv'
  <2>1. f.id \in 1..Len(imports) /\ f.id \in Nat /\ f.next \in Seq(Nat) /\ Told(f.next, Len(imports))
    BY <1>8, <1>9 DEF FetchRight, Fetches
  <2>2. \A h \in fetch' : FetchRight(h, Len(imports))
    <3>1. fetch' = (fetch \ {f}) \union Page!Asking(f.next)
      BY <1>8 DEF Page!Landed
    <3> QED
      BY <1>9, <2>1, <3>1, AskingRight
  <2>3. page' = [page EXCEPT !.progress = page.progress \union {f.id}]
    BY <1>8 DEF Page!Landed
  <2> DEFINE known == page.progress \union {f.id}
  <2>4. known \in SUBSET Nat /\ known \subseteq 1..Len(imports)
    BY <1>1, <2>1 DEF PageRecords
  <2> HIDE DEF known
  <2>5. /\ page' \in PageRecords /\ page'.mode = page.mode /\ page'.left = page.left
        /\ page'.sum = page.sum /\ page'.shows = page.shows /\ page'.progress = known
        /\ page'.pc = page.pc
    BY <1>1, <2>3, <2>4 DEF PageRecords, known
  <2>6. UNCHANGED <<text, dedupe, chunking, batch, config, imports, hydrations, before, submits,
                    faults>>
    BY <1>8 DEF Page!Landed, Page!form, Page!table, Page!bound
  <2>7. FetchesRight(Len(imports))'
    BY <2>2, <2>6 DEF FetchesRight
  <2> QED
    BY <1>1, <2>4, <2>5, <2>6, <2>7, PageKeeps
<1> QED
  BY <1>3, <1>4, <1>5, <1>6, <1>7, <1>8

LEMMA NextPageInv == PageInv /\ Page!Next => PageInv'
BY SubmitKept, FailedKept, AnswersKept, WatchKept DEF Page!Next

LEMMA SamePageInv == PageInv /\ UNCHANGED <<text, dedupe, chunking, batch, config, page, fetch,
                                            imports, hydrations, before, submits, faults>> => PageInv'
<1> SUFFICES ASSUME PageInv, UNCHANGED <<text, dedupe, chunking, batch, config, page, fetch,
                                         imports, hydrations, before, submits, faults>>
             PROVE  PageInv'
  OBVIOUS
<1>1. /\ page \in PageRecords /\ config \in BOOLEAN /\ imports \in Seq(ImportRows)
      /\ page.progress \subseteq 1..Len(imports)
      /\ FetchesRight(Len(imports))
  BY DEF PageInv, PageTypes, PageKnows
<1> QED
  <2>1. FetchesRight(Len(imports))'
    BY <1>1 DEF FetchesRight
  <2>2. faults' \in 0..MaxFaults
    BY DEF PageInv, PageTypes
  <2> QED
    BY <1>1, <2>1, <2>2, PageKeeps

LEMMA PageInvGives == PageInv => Page!TypeOK /\ Page!SubmitTrue
<1> SUFFICES ASSUME PageInv PROVE Page!TypeOK /\ Page!SubmitTrue
  OBVIOUS
<1>1. /\ page \in PageRecords /\ imports \in Seq(ImportRows)
      /\ page.sum.ids \in Seq(Nat) /\ Told(page.sum.ids, Len(imports)) /\ page.mode \in Page!Modes
      /\ DOMAIN imports = 1..Len(imports) /\ before.imports \in Nat
  BY DEF PageInv, PageTypes, PageKnows, PageRecords, Sums, Befores
<1>2. Page!TypeOK
  <2>1. page.sum.ids \in Seq(DOMAIN imports)
    <3>1. ASSUME NEW s \in Seq(Nat), NEW n, Told(s, n) PROVE s \in Seq(1..n)
      <4>1. Len(s) \in Nat /\ s = [i \in 1..Len(s) |-> s[i]] /\ \A i \in 1..Len(s) : s[i] \in 1..n
        BY <3>1 DEF Told
      <4>2. s \in [1..Len(s) -> 1..n]
        BY <4>1
      <4>3. ASSUME NEW T, NEW m \in Nat, s \in [1..m -> T] PROVE s \in Seq(T)
        BY <4>3
      <4> QED
        BY <4>1, <4>2, <4>3
    <3> QED
      BY <1>1, <3>1
  <2>2. page.progress \subseteq DOMAIN imports
    BY <1>1 DEF PageInv, PageKnows
  <2>3. imports \in Seq(Seq(Lines)) /\ \A f \in fetch : f.pc \in {"roll", "ask"} /\ f.id \in DOMAIN imports
    BY <1>1 DEF PageInv, PageKnows, FetchesRight, FetchRight, Fetches, ImportRows
  <2> QED
    BY <2>1, <2>2, <2>3 DEF PageInv, PageTypes, PageRecords, Page!TypeOK
<1>3. Page!SubmitTrue
  <2> SUFFICES ASSUME page.shows = "result" PROVE Page!SubmitTrue
    BY DEF Page!SubmitTrue
  <2>1. Adds(page, imports, hydrations, before, Page!Input(page.mode)) /\ page.left = << >>
    BY <1>1 DEF PageInv, PageSums
  <2>2. ASSUME page.mode = "import"
        PROVE  /\ Page!FlattenSeq([i \in DOMAIN page.sum.ids |-> imports[page.sum.ids[i]]])
                    = Page!Input("import")
               /\ Page!Range(page.sum.ids) = (before.imports + 1)..Len(imports)
    <3>1. TellsFrom(imports, page.sum.ids, before.imports)
          /\ Page!FlattenSeq(AnsweredBy(page.sum.ids, imports) \o << >>) = Page!Input("import")
      BY <2>1, <2>2 DEF Adds
    <3>2. AnsweredBy(page.sum.ids, imports) \o << >> = AnsweredBy(page.sum.ids, imports)
      <4>1. \A i \in DOMAIN page.sum.ids : imports[page.sum.ids[i]] \in ImportRows
        BY <1>1 DEF Told
      <4>2. AnsweredBy(page.sum.ids, imports) \in [1..Len(page.sum.ids) -> Seq(Lines)]
        BY <1>1, <4>1 DEF AnsweredBy, ImportRows
      <4>3. AnsweredBy(page.sum.ids, imports) \in Seq(Seq(Lines))
        BY <1>1, <4>2
      <4> QED
        BY <4>3
    <3>3. PICK a \in Nat, n \in Nat : a = before.imports /\ n = Len(page.sum.ids)
      BY <1>1
    <3>4. Len(imports) = a + n /\ DOMAIN page.sum.ids = 1..n /\ \A i \in 1..n : page.sum.ids[i] = a + i
      BY <1>1, <3>1, <3>3 DEF TellsFrom
    <3>5. Page!Range(page.sum.ids) = {a + i : i \in 1..n}
      BY <3>4 DEF Page!Range
    <3>6. {a + i : i \in 1..n} = (a + 1)..(a + n)
      <4>1. \A x \in (a + 1)..(a + n) : x - a \in 1..n /\ x = a + (x - a)
        OBVIOUS
      <4>2. \A i \in 1..n : a + i \in (a + 1)..(a + n)
        OBVIOUS
      <4> QED
        BY <4>1, <4>2
    <3> QED
      BY <3>1, <3>2, <3>3, <3>4, <3>5, <3>6 DEF AnsweredBy
  <2>3. ASSUME page.mode # "preview" PROVE page.sum.lines = Len(Page!Input(page.mode))
    <3>1. PICK passed \in Seq(Seq(Lines)) : /\ Page!FlattenSeq(passed \o << >>) = Page!Input(page.mode)
                                          /\ page.sum.lines = Len(Page!FlattenSeq(passed))
      BY <2>1, <2>3 DEF Adds
    <3>2. passed \o << >> = passed
      OBVIOUS
    <3> QED
      BY <3>1, <3>2
  <2>4. hydrations = before.hydrations + page.sum.jobs
        /\ (page.mode # "import" => Len(imports) = before.imports)
    BY <2>1 DEF Adds
  <2> QED
    BY <2>2, <2>3, <2>4 DEF Page!SubmitTrue
<1> QED
  BY <1>2, <1>3
-----------------------------------------------------------------------------
(***************************************************************************)
(* The component in focus.  No other takes a step, so its invariant holds. *)
(***************************************************************************)
BindingsHold == focus = "bindings" => BindingsInv

LEMMA InitBindingsHold == Init => BindingsHold
BY InitBindingsInv DEF Init, BindingsHold

LEMMA NextBindingsHold == BindingsHold /\ [Next]_vars => BindingsHold'
<1> SUFFICES ASSUME BindingsHold, [Next]_vars, focus' = "bindings"
             PROVE  BindingsInv'
  BY DEF BindingsHold
<1>1. CASE focus = "bindings" /\ Bindings!Next
  BY <1>1, NextBindingsInv DEF BindingsHold
<1>2. CASE UNCHANGED vars
  BY <1>2, SameBindingsInv DEF vars, BindingsHold
<1> QED
  BY <1>1, <1>2 DEF Next

\* The primary that somebody chose for a token stays until somebody chooses again,
\* whatever overrides, expiries and failures come between a read and a write of the
\* row: for any tokens, proxies, scores and consoles.
THEOREM ChoiceAlwaysSticks == Spec => []ChoiceSticks
<1>1. BindingsHold => ChoiceSticks
  BY BindingsInvGives DEF BindingsHold, ChoiceSticks
<1> QED
  BY <1>1, InitBindingsHold, NextBindingsHold, PTL DEF Spec

JobsHold == focus = "jobs" => JobsInv

LEMMA InitJobsHold == Init => JobsHold
BY InitJobsInv DEF Init, JobsHold

LEMMA NextJobsHold == JobsHold /\ [Next]_vars => JobsHold'
<1> SUFFICES ASSUME JobsHold, [Next]_vars, focus' = "jobs"
             PROVE  JobsInv'
  BY DEF JobsHold
<1>1. CASE focus = "jobs" /\ Jobs!Next
  BY <1>1, NextJobsInv DEF JobsHold
<1>2. CASE UNCHANGED vars
  BY <1>2, SameJobsInv DEF vars, JobsHold
<1> QED
  BY <1>1, <1>2 DEF Next

\* No work vanishes from the jobs: it is done, or has a job or a dead letter, or an
\* operator has deleted one, whatever two pages with old lists, the workers and
\* failures do: for any works, queues and number of jobs.
THEOREM WorkAlwaysAccounted == Spec => []WorkAccounted
<1>1. JobsHold => WorkAccounted
  BY JobsInvGives DEF JobsHold, WorkAccounted
<1> QED
  BY <1>1, InitJobsHold, NextJobsHold, PTL DEF Spec

ProbesHold == focus = "probes" => ProbesInv

LEMMA InitProbesHold == Init => ProbesHold
BY InitProbesInv DEF Init, ProbesHold

LEMMA NextProbesHold == ProbesHold /\ [Next]_vars => ProbesHold'
<1> SUFFICES ASSUME ProbesHold, [Next]_vars, focus' = "probes"
             PROVE  ProbesInv'
  BY DEF ProbesHold
<1>1. CASE focus = "probes" /\ Probes!Next
  BY <1>1, NextProbesInv DEF ProbesHold
<1>2. CASE UNCHANGED vars
  BY <1>2, SameProbesInv DEF vars, ProbesHold
<1> QED
  BY <1>1, <1>2 DEF Next

\* An endpoint whose probe job ended ok has worked since the check that the job heard
\* from was begun, and one that the overview shows as ok, and not as old, within the
\* cutoff: however endpoints change, rows are edited, checks are joined, time out or
\* fail, for any endpoints, tokens and cutoff.
THEOREM ReportsAlwaysTrue == Spec => []ReportsTrue
<1>1. ProbesHold => ReportsTrue
  BY ProbesInvGives DEF ProbesHold, ReportsTrue
<1> QED
  BY <1>1, InitProbesHold, NextProbesHold, PTL DEF Spec

DetailHolds == focus = "requests" => DetailInv

LEMMA InitDetailHolds == Init => DetailHolds
BY InitDetailInv DEF Init, DetailHolds

LEMMA NextDetailHolds == DetailHolds /\ [Next]_vars => DetailHolds'
<1> SUFFICES ASSUME DetailHolds, [Next]_vars, focus' = "requests"
             PROVE  DetailInv'
  BY DEF DetailHolds
<1>1. CASE focus = "requests" /\ Requests!Next
  BY <1>1, NextDetailInv DEF DetailHolds
<1>2. CASE UNCHANGED vars
  BY <1>2, SameDetailInv DEF vars, DetailHolds
<1> QED
  BY <1>1, <1>2 DEF Next

\* The breaker opens only for what Pixiv did, a call that met a rate limit asks no
\* more, one that a proxy failed has tried every proxy, or as many as its switches
\* of proxies and tokens allow, and only a detail is cached: for any callers, number
\* of proxies, switches, retries and threshold.
THEOREM DetailsAlwaysRight == Spec => []DetailsRight
<1>1. DetailHolds => DetailsRight
  BY DetailInvGives DEF DetailHolds, DetailsRight
<1> QED
  BY <1>1, InitDetailHolds, NextDetailHolds, PTL DEF Spec

HydrationHolds == focus = "hydration" => HydrationInv

LEMMA InitHydrationHolds == Init => HydrationHolds
BY InitHydrationInv DEF Init, HydrationHolds

LEMMA NextHydrationHolds == HydrationHolds /\ [Next]_vars => HydrationHolds'
<1> SUFFICES ASSUME HydrationHolds, [Next]_vars, focus' = "hydration"
             PROVE  HydrationInv'
  BY DEF HydrationHolds
<1>1. CASE focus = "hydration" /\ Hydration!Next
  BY <1>1, NextHydrationInv DEF HydrationHolds
<1>2. CASE UNCHANGED vars
  BY <1>2, SameHydrationInv DEF vars, HydrationHolds
<1> QED
  BY <1>1, <1>2 DEF Next

\* What was known of an image stays known, and a sync of its tags that none
\* overlapped leaves one row of each tag of the detail, whatever other jobs do,
\* fail or have left: for any workers, pages, names and details.
THEOREM HydrationAlwaysKept == Spec => []HydrationKept
<1>1. HydrationHolds => HydrationKept
  BY HydrationInvGives DEF HydrationHolds, HydrationKept
<1> QED
  BY <1>1, InitHydrationHolds, NextHydrationHolds, PTL DEF Spec

SpreadHolds == focus = "spread" => SpreadInv

LEMMA InitSpreadHolds == Init => SpreadHolds
BY InitSpreadInv DEF Init, SpreadHolds

LEMMA NextSpreadHolds == SpreadHolds /\ [Next]_vars => SpreadHolds'
<1> SUFFICES ASSUME SpreadHolds, [Next]_vars, focus' = "spread"
             PROVE  SpreadInv'
  BY DEF SpreadHolds
<1>1. CASE focus = "spread" /\ Spread!Next
  BY <1>1, NextSpreadInv DEF SpreadHolds
<1>2. CASE UNCHANGED vars
  BY <1>2, SameSpreadInv DEF vars, SpreadHolds
<1> QED
  BY <1>1, <1>2 DEF Next

\* A spread over the proxies that are there binds every token, has the loads right,
\* overloads no proxy while another has room, by default overloads none at all, and
\* leaves what was within the cap where it was: for any tokens, proxies, scores,
\* bindings and caps.
THEOREM SpreadAlwaysRight == Spec => []SpreadRight
<1>1. SpreadHolds => SpreadRight
  BY SpreadInvGives DEF SpreadHolds, SpreadRight
<1> QED
  BY <1>1, InitSpreadHolds, NextSpreadHolds, PTL DEF Spec

PageHolds == focus = "page" => PageInv

LEMMA InitPageHolds == Init => PageHolds
BY InitPageInv DEF Init, PageHolds

LEMMA NextPageHolds == PageHolds /\ [Next]_vars => PageHolds'
<1> SUFFICES ASSUME PageHolds, [Next]_vars, focus' = "page"
             PROVE  PageInv'
  BY DEF PageHolds
<1>1. CASE focus = "page" /\ Page!Next
  BY <1>1, NextPageInv DEF PageHolds
<1>2. CASE UNCHANGED vars
  BY <1>2, SamePageInv DEF vars, imported, PageHolds
<1> QED
  BY <1>1, <1>2 DEF Next

\* What the page that imports URLs shows as the result of a submit is all that the
\* submit did: the imports it names are the ones that were made, and hold the deduped
\* lines, each once and in order; the jobs it counts are those that were sent; a
\* preview has written nothing: for any lines, images, sizes, batches and limits of
\* the server, whatever fails, is rolled back or asked for meanwhile.
THEOREM SubmitsAlwaysTrue == Spec => []SubmitTrue
<1>1. PageHolds => SubmitTrue
  BY PageInvGives DEF PageHolds, SubmitTrue
<1> QED
  BY <1>1, InitPageHolds, NextPageHolds, PTL DEF Spec

ReadsHold == focus = "reads" => ReadsInv /\ WalkInv /\ ReadsBounded

LEMMA InitReadsHold == Init => ReadsHold
BY InitReadsInv, InitWalkInv, InitReadsBounded DEF Init, ReadsHold

LEMMA NextReadsHold == ReadsHold /\ [Next]_vars => ReadsHold'
<1> SUFFICES ASSUME ReadsHold, [Next]_vars, focus' = "reads"
             PROVE  ReadsInv' /\ WalkInv' /\ ReadsBounded'
  BY DEF ReadsHold
<1>1. CASE focus = "reads" /\ Reads!Next
  BY <1>1, NextReadsInv, NextWalkInv, NextReadsBounded DEF ReadsHold
<1>2. CASE UNCHANGED vars
  BY <1>2, SameReadsInv, SameWalkInv DEF vars, reads, ReadsHold, ReadsBounded
<1> QED
  BY <1>1, <1>2 DEF Next

\* GET /random answers an image that its query meant at some moment, and says that
\* none matches only if none did all the while, its choice was deleted, or every
\* attempt that was asked for failed, by either dialect of the filters: for any rows,
\* queries, metadata and other requests.
THEOREM AnswersAlwaysMeant == Spec => []AnswersMeant
<1>1. ReadsHold => AnswersMeant
  BY ReadsInvGives DEF ReadsHold, AnswersMeant
<1> QED
  BY <1>1, InitReadsHold, NextReadsHold, PTL DEF Spec

\* While a cooldown is set no attempt fetches again what failed an earlier one.
THEOREM NeverRetriedHot == Spec => []NoHotRetry
<1>1. ReadsHold => NoHotRetry
  BY ReadsInvGives DEF ReadsHold, NoHotRetry
<1> QED
  BY <1>1, InitReadsHold, NextReadsHold, PTL DEF Spec

\* Who follows next_cursor to the end of a list has seen all that was to be listed
\* all the while, and none twice, whatever rows come, change and go meanwhile: for
\* any rows, queries and lengths of a page.
THEOREM WalksAlwaysListAll == Spec => []WalkListsAll
<1>1. ReadsHold => WalkListsAll
  BY WalkInvGives DEF ReadsHold, WalkListsAll
<1> QED
  BY <1>1, InitReadsHold, NextReadsHold, PTL DEF Spec

\* One component is in focus, and stays there.
AllHold ==
  /\ focus \in {"bindings", "spread", "jobs", "probes", "page", "hydration", "reads", "requests"}
  /\ BindingsHold /\ JobsHold
  /\ ProbesHold /\ DetailHolds
  /\ HydrationHolds /\ SpreadHolds
  /\ PageHolds /\ ReadsHold

LEMMA InitAllHold == Init => AllHold
<1>1. Init => focus \in {"bindings", "spread", "jobs", "probes", "page", "hydration", "reads",
                         "requests"}
  BY DEF Init
<1> QED
  BY <1>1, InitBindingsHold,
     InitJobsHold,
     InitProbesHold,
     InitDetailHolds,
     InitHydrationHolds,
     InitSpreadHolds,
     InitPageHolds,
     InitReadsHold DEF AllHold

LEMMA NextAllHold == AllHold /\ [Next]_vars => AllHold'
<1>1. [Next]_vars => focus' = focus
  BY DEF Next, vars
<1> QED
  BY <1>1, NextBindingsHold,
     NextJobsHold,
     NextProbesHold,
     NextDetailHolds,
     NextHydrationHolds,
     NextSpreadHolds,
     NextPageHolds,
     NextReadsHold DEF AllHold

\* Whichever component is in focus, its state is of the types that its module
\* declares: the queues of jobs and dead letters that there are, the rows and lists
\* of the reads, the records of the pages and the bounds of each.
THEOREM TypesAlwaysOK == Spec => []TypesOK
<1>1. AllHold => TypesOK
  <2> SUFFICES ASSUME AllHold PROVE TypesOK
    OBVIOUS
  <2>1. CASE focus = "bindings"
    <3>1. Bindings!TypeOK
      BY <2>1, BindingsInvGives DEF AllHold, BindingsHold
    <3> QED
      BY <2>1, <3>1 DEF TypesOK
  <2>2. CASE focus = "jobs"
    <3>1. Jobs!TypeOK
      BY <2>2, JobsInvGives DEF AllHold, JobsHold
    <3> QED
      BY <2>2, <3>1 DEF TypesOK
  <2>3. CASE focus = "probes"
    <3>1. Probes!TypeOK
      BY <2>3, ProbesInvGives DEF AllHold, ProbesHold
    <3> QED
      BY <2>3, <3>1 DEF TypesOK
  <2>4. CASE focus = "requests"
    <3>1. Requests!TypeOK
      BY <2>4, DetailInvGives DEF AllHold, DetailHolds
    <3> QED
      BY <2>4, <3>1 DEF TypesOK
  <2>5. CASE focus = "hydration"
    <3>1. Hydration!TypeOK
      BY <2>5, HydrationInvGives DEF AllHold, HydrationHolds
    <3> QED
      BY <2>5, <3>1 DEF TypesOK
  <2>6. CASE focus = "spread"
    <3>1. Spread!TypeOK
      BY <2>6, SpreadInvGives DEF AllHold, SpreadHolds
    <3> QED
      BY <2>6, <3>1 DEF TypesOK
  <2>7. CASE focus = "page"
    <3>1. Page!TypeOK
      BY <2>7, PageInvGives DEF AllHold, PageHolds
    <3> QED
      BY <2>7, <3>1 DEF TypesOK
  <2>8. CASE focus = "reads"
    <3>1. Reads!TypeOK
      BY <2>8, ReadsTypes DEF AllHold, ReadsHold
    <3> QED
      BY <2>8, <3>1 DEF TypesOK
  <2> QED
    BY <2>1, <2>2, <2>3, <2>4, <2>5, <2>6, <2>7, <2>8 DEF AllHold
<1> QED
  BY <1>1, InitAllHold, NextAllHold, PTL DEF Spec
=============================================================================
