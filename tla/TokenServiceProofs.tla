------------------------- MODULE TokenServiceProofs -------------------------
(***************************************************************************)
(* Theorems about TokenService for any finite set of tokens, any calls,    *)
(* every strategy and any number of failures, edits and outages.           *)
(***************************************************************************)
EXTENDS TokenService, FiniteSetTheorems, SequenceTheorems, WellFoundedInduction, TLAPS

USE TokenAssumption DEF TokenAssumption

-----------------------------------------------------------------------------
(***************************************************************************)
(* Lists in ascending order.                                               *)
(***************************************************************************)

\* How many elements of S are smaller than x.
Rank(S, x) == Cardinality({y \in S : y < x})

LEMMA SubsetFinite ==
  ASSUME NEW S, IsFiniteSet(S), NEW T, T \subseteq S
  PROVE  IsFiniteSet(T) /\ Cardinality(T) \in Nat /\ Cardinality(T) <= Cardinality(S)
BY FS_Subset, FS_CardinalityType

LEMMA RankSmaller ==
  ASSUME NEW S \in SUBSET Nat, IsFiniteSet(S), NEW x \in S, NEW z \in S, x < z
  PROVE  Rank(S, x) < Rank(S, z)
<1> DEFINE X == {y \in S : y < x}
           Z == {y \in S : y < z}
<1>1. IsFiniteSet(X) /\ IsFiniteSet(Z)
  BY SubsetFinite
<1>2. X \union {x} \subseteq Z /\ x \notin X
  <2>1. \A y \in S : y < x => y < z
    OBVIOUS
  <2>2. ~(x < x)
    OBVIOUS
  <2> QED
    BY <2>1, <2>2
<1>3. IsFiniteSet(X \union {x}) /\ Cardinality(X \union {x}) = Cardinality(X) + 1
  BY <1>1, <1>2, FS_AddElement
<1>4. Cardinality(X \union {x}) <= Cardinality(Z)
  BY <1>1, <1>2, SubsetFinite
<1>5. Cardinality(X) \in Nat /\ Cardinality(Z) \in Nat
  BY <1>1, FS_CardinalityType
<1> HIDE DEF X, Z
<1>6. Cardinality(X) < Cardinality(Z)
  BY <1>3, <1>4, <1>5
<1> QED
  BY <1>6 DEF Rank, X, Z

LEMMA RankBelow ==
  ASSUME NEW S \in SUBSET Nat, IsFiniteSet(S), NEW x \in S
  PROVE  Rank(S, x) \in 0..(Cardinality(S) - 1)
<1> DEFINE X == {y \in S : y < x}
<1>1. X \subseteq S \ {x}
  OBVIOUS
<1>2. IsFiniteSet(S \ {x}) /\ Cardinality(S \ {x}) = Cardinality(S) - 1
  BY FS_RemoveElement
<1>3. Cardinality(X) \in Nat /\ Cardinality(X) <= Cardinality(S) - 1
  BY <1>1, <1>2, SubsetFinite
<1>4. Cardinality(S) \in Nat
  BY FS_CardinalityType
<1> QED
  BY <1>3, <1>4 DEF Rank

\* Every place below the size of S is the rank of one of its elements.
LEMMA RankTaken ==
  ASSUME NEW S \in SUBSET Nat, IsFiniteSet(S), NEW k \in 0..(Cardinality(S) - 1)
  PROVE  \E x \in S : Rank(S, x) = k
<1> DEFINE n == Cardinality(S)
           T == 0..(n - 1)
           f == [x \in S |-> Rank(S, x)]
<1>1. n \in Nat
  BY FS_CardinalityType
<1>2. f \in [S -> T]
  BY RankBelow
<1>3. ASSUME NEW x \in S, NEW z \in S, f[x] = f[z]
      PROVE  x = z
  <2>1. Rank(S, x) = Rank(S, z) /\ Rank(S, x) \in Int
    BY <1>1, <1>3, RankBelow
  <2>2. ~(x < z) /\ ~(z < x)
    BY <2>1, RankSmaller
  <2> QED
    BY <2>2
<1>4. IsFiniteSet(T) /\ Cardinality(T) = n
  BY <1>1, FS_Interval
<1>5. f \in Injection(S, T)
  BY <1>2, <1>3 DEF Injection, IsInjective
<1>6. f \in Surjection(S, T)
  BY <1>4, <1>5, FS_Injection
<1>7. k \in T
  OBVIOUS
<1> QED
  BY <1>6, <1>7 DEF Surjection

\* Ascending lists exactly the elements of the set, the smaller before the larger.
LEMMA AscendingLists ==
  ASSUME NEW S \in SUBSET Nat, IsFiniteSet(S)
  PROVE  /\ Cardinality(S) \in Nat
         /\ Ascending(S) \in [1..Cardinality(S) -> S]
         /\ Ascending(S) \in Seq(S) /\ Len(Ascending(S)) = Cardinality(S)
         /\ \A x \in S : \E i \in 1..Cardinality(S) : Ascending(S)[i] = x
         /\ \A i, j \in 1..Cardinality(S) : i < j => Ascending(S)[i] < Ascending(S)[j]
<1> DEFINE n == Cardinality(S)
           Place(i) == CHOOSE x \in S : Cardinality({y \in S : y < x}) = i - 1
<1>1. n \in Nat
  BY FS_CardinalityType
<1>2. ASSUME NEW i \in 1..n
      PROVE  Place(i) \in S /\ Rank(S, Place(i)) = i - 1
  <2>1. i - 1 \in 0..(n - 1)
    BY <1>1
  <2>2. \E x \in S : Rank(S, x) = i - 1
    BY <2>1, RankTaken
  <2> QED
    BY <2>2 DEF Rank
<1>3. Ascending(S) = [i \in 1..n |-> Place(i)]
  BY DEF Ascending
<1> HIDE DEF Place
<1>4. Ascending(S) \in [1..n -> S]
  BY <1>2, <1>3
<1>5. Ascending(S) \in Seq(S) /\ Len(Ascending(S)) = n
  BY <1>1, <1>4
<1>6. \A i \in 1..n : Ascending(S)[i] \in S /\ Rank(S, Ascending(S)[i]) = i - 1
  BY <1>2, <1>3
<1>7. ASSUME NEW x \in S PROVE \E i \in 1..n : Ascending(S)[i] = x
  <2>1. Rank(S, x) + 1 \in 1..n /\ Rank(S, x) \in Int
    BY <1>1, RankBelow
  <2>2. PICK i \in 1..n : i = Rank(S, x) + 1
    BY <2>1
  <2>3. PICK y \in S : y = Ascending(S)[i] /\ Rank(S, y) = i - 1
    BY <1>6
  <2>4. ~(y < x) /\ ~(x < y)
    <3>1. Rank(S, y) = Rank(S, x)
      BY <2>1, <2>2, <2>3
    <3> QED
      BY <2>1, <3>1, RankSmaller
  <2>5. y = x
    BY <2>4
  <2> QED
    BY <2>3, <2>5
<1>8. ASSUME NEW i \in 1..n, NEW j \in 1..n, i < j
      PROVE  Ascending(S)[i] < Ascending(S)[j]
  <2>1. PICK y \in S : y = Ascending(S)[i] /\ Rank(S, y) = i - 1
    BY <1>6
  <2>2. PICK z \in S : z = Ascending(S)[j] /\ Rank(S, z) = j - 1
    BY <1>6
  <2>3. ~(z < y) /\ z # y
    <3>1. z < y => Rank(S, z) < Rank(S, y)
      BY RankSmaller
    <3> QED
      BY <1>1, <1>8, <2>1, <2>2, <3>1
  <2> QED
    BY <2>1, <2>2, <2>3
<1> QED
  BY <1>1, <1>4, <1>5, <1>7, <1>8

-----------------------------------------------------------------------------
(***************************************************************************)
(* Types, and what may be chosen.                                          *)
(***************************************************************************)

AuthEntries == AllTokens \X Gens

LEMMA SizeType == Cardinality(AllTokens) \in Nat
BY FS_CardinalityType

LEMMA AuthFields ==
  ASSUME NEW a \in Auths
  PROVE  /\ a \in Seq(AuthEntries) /\ Len(a) \in 0..Cardinality(AllTokens)
         /\ DOMAIN a = 1..Len(a) /\ \A i \in DOMAIN a : a[i] \in AuthEntries
<1>1. PICK n \in 0..Cardinality(AllTokens) : a \in [1..n -> AuthEntries]
  BY DEF Auths, AuthEntries
<1>2. n \in Nat
  BY SizeType
<1>3. a \in Seq(AuthEntries) /\ Len(a) = n
  BY <1>1, <1>2
<1> QED
  BY <1>1, <1>2, <1>3

LEMMA AuthType ==
  ASSUME NEW n \in 0..Cardinality(AllTokens), NEW a \in [1..n -> AuthEntries]
  PROVE  a \in Auths
BY DEF Auths, AuthEntries

LEMMA CallFields ==
  ASSUME TypeOK, NEW c \in Callers
  PROVE  /\ call[c] \in Call /\ call[c].pc \in PCs /\ call[c].snap \in Snapshot
         /\ call[c].auth \in Auths /\ call[c].aged \in BOOLEAN
         /\ call[c].tried \subseteq 1..Cardinality(AllTokens)
         /\ call[c].idx \in 0..Cardinality(AllTokens)
BY DEF TypeOK, Call

LEMMA EntryFields ==
  ASSUME TypeOK, NEW e \in AuthEntries
  PROVE  /\ entry[e] \in Entry /\ entry[e].valid \in BOOLEAN
         /\ entry[e].refreshing \in BOOLEAN /\ entry[e].backoff \in BOOLEAN
         /\ entry[e].errors \in Nat /\ entry[e].secret \in Secrets
BY DEF TypeOK, Entry, AuthEntries

LEMMA LeastNatural ==
  ASSUME NEW T \in SUBSET Nat, T # {}
  PROVE  \E x \in T : \A y \in T : x <= y
<1>1. \E x \in T : \A y \in T : ~ (<<y, x>> \in OpToRel(<, Nat))
  BY NatLessThanWellFounded, WFMin
<1>2. PICK x \in T : \A y \in T : ~ (<<y, x>> \in OpToRel(<, Nat))
  BY <1>1
<1>3. \A y \in T : ~(y < x)
  BY <1>2 DEF OpToRel
<1> QED
  BY <1>3

\* Every strategy chooses among the candidates, and chooses one.
LEMMA SelectIndexChooses ==
  ASSUME TypeOK, NEW n \in Nat \ {0}, NEW errs \in [1..n -> Nat], NEW prev \in 0..n,
         NEW ws
  PROVE  SelectIndex(prev, errs, ws) \subseteq 1..n /\ SelectIndex(prev, errs, ws) # {}
<1> DEFINE next    == {(prev % n) + 1}
           Dist(i) == (i - prev - 1) % n
           least   == {i \in 1..n : \A j \in 1..n : errs[i] <= errs[j]}
           near    == {i \in least : \A j \in least : Dist(i) <= Dist(j)}
           heavy   == {i \in 1..n : ws[i] > 0}
<1>1. Len(errs) = n
  OBVIOUS
<1>2. next \subseteq 1..n /\ next # {}
  OBVIOUS
<1>3. least # {}
  <2>1. {errs[i] : i \in 1..n} \in SUBSET Nat /\ {errs[i] : i \in 1..n} # {}
    OBVIOUS
  <2>2. PICK x \in {errs[i] : i \in 1..n} : \A y \in {errs[i] : i \in 1..n} : x <= y
    BY <2>1, LeastNatural
  <2>3. PICK i \in 1..n : x = errs[i]
    BY <2>2
  <2>4. \A j \in 1..n : errs[i] <= errs[j]
    BY <2>2, <2>3
  <2> QED
    BY <2>4
<1>4. near # {}
  <2>1. \A i \in least : Dist(i) \in Nat
    OBVIOUS
  <2> HIDE DEF Dist, least
  <2>2. {Dist(i) : i \in least} \in SUBSET Nat /\ {Dist(i) : i \in least} # {}
    BY <1>3, <2>1
  <2>3. PICK x \in {Dist(i) : i \in least} : \A y \in {Dist(i) : i \in least} : x <= y
    BY <2>2, LeastNatural
  <2> QED
    BY <2>3
<1>5. near \subseteq 1..n /\ heavy \subseteq 1..n /\ 1..n # {}
  <2>1. least \subseteq 1..n /\ heavy \subseteq 1..n /\ 1 \in 1..n
    OBVIOUS
  <2>2. near \subseteq least
    <3> HIDE DEF least, Dist
    <3> QED
      OBVIOUS
  <2> QED
    BY <2>1, <2>2
<1>6. SelectIndex(prev, errs, ws) =
        CASE strategy = "random"      -> 1..n
          [] strategy = "least_error" -> near
          [] strategy = "weighted"    -> IF heavy = {} THEN next ELSE heavy
          [] OTHER                    -> next
  BY <1>1 DEF SelectIndex
<1> HIDE DEF next, near, heavy
<1> QED
  BY <1>2, <1>4, <1>5, <1>6

\* The entries of the list that may be chosen.
Eligible(auth) == {i \in DOMAIN auth : ~entry[auth[i]].backoff}

LEMMA CandidatesEligible ==
  ASSUME TypeOK, NEW auth \in Auths
  PROVE  /\ Candidates(auth) \subseteq Eligible(auth)
         /\ Candidates(auth) = {} => Eligible(auth) = {}
<1> DEFINE U    == Eligible(auth)
           ok   == Ascending(U)
           n    == Cardinality(U)
           prev == IF \E k \in DOMAIN ok : ok[k] = current
                   THEN CHOOSE k \in DOMAIN ok : ok[k] = current ELSE 0
           errs == [k \in DOMAIN ok |-> entry[auth[ok[k]]].errors]
           ws   == [k \in DOMAIN ok |-> WeightsFor(Len(auth))[ok[k]]]
<1>1. U \in SUBSET Nat /\ IsFiniteSet(U)
  <2>1. DOMAIN auth = 1..Len(auth) /\ Len(auth) \in Nat
    BY AuthFields, SizeType
  <2>2. IsFiniteSet(1..Len(auth)) /\ U \subseteq 1..Len(auth)
    BY <2>1, FS_Interval DEF Eligible
  <2> QED
    BY <2>1, <2>2, SubsetFinite
<1>2. /\ n \in Nat /\ ok \in [1..n -> U] /\ ok \in Seq(U) /\ Len(ok) = n
      /\ DOMAIN ok = 1..n
  BY <1>1, AscendingLists
<1>3. Candidates(auth) = IF ok = <<>> THEN {} ELSE {ok[k] : k \in SelectIndex(prev, errs, ws)}
  BY DEF Candidates, Eligible
<1>4. \A k \in 1..n : entry[auth[ok[k]]].errors \in Nat
  <2>1. ASSUME NEW k \in 1..n PROVE auth[ok[k]] \in AuthEntries
    BY <1>2, AuthFields DEF Eligible
  <2> QED
    BY <2>1, EntryFields
<1>5. errs \in [1..n -> Nat]
  BY <1>2, <1>4
<1>6. prev \in 0..n
  BY <1>2
<1>7. ok = <<>> <=> n = 0
  BY <1>2, EmptySeq
<1>8. n = 0 <=> U = {}
  BY <1>1, FS_EmptySet
<1> HIDE DEF U, ok, n, prev, errs, ws
<1>9. CASE n = 0
  BY <1>3, <1>7, <1>8, <1>9 DEF U
<1>10. CASE n # 0
  <2>1. SelectIndex(prev, errs, ws) \subseteq 1..n /\ SelectIndex(prev, errs, ws) # {}
    BY <1>2, <1>5, <1>6, <1>10, SelectIndexChooses
  <2>2. Candidates(auth) = {ok[k] : k \in SelectIndex(prev, errs, ws)}
    BY <1>3, <1>7, <1>10
  <2>3. Candidates(auth) \subseteq U /\ Candidates(auth) # {}
    BY <1>2, <2>1, <2>2
  <2> QED
    BY <2>3 DEF U
<1> QED
  BY <1>9, <1>10

-----------------------------------------------------------------------------
(***************************************************************************)
(* The inductive invariant.                                                *)
(***************************************************************************)

Busy == {"refresh", "wait", "use"}

\* The entries that a call was given are in use; a call that has not begun has
\* none, and one that is busy is so with an entry that it has tried.
ShapeOf(r) ==
  /\ r.pc \in {"idle", "load", "store"} => r.auth = <<>> /\ r.tried = {}
  /\ r.tried \subseteq DOMAIN r.auth
  /\ r.pc \in Busy => r.idx \in r.tried
  /\ \A i \in DOMAIN r.auth : r.auth[i][2] <= gens[r.auth[i][1]]

\* While nothing aged, what a call has tried is in backoff, save the entry that
\* it is busy with: that one is valid when it is about to be used, and a call
\* waits only for a refresh or its outcome.
TriedOf(r) ==
  ~r.aged /\ r.pc \notin {"done", "failed"} =>
    /\ \A i \in r.tried : entry[r.auth[i]].backoff \/ (i = r.idx /\ r.pc \in Busy)
    /\ r.pc = "use" => entry[r.auth[r.idx]].valid
    /\ r.pc = "wait" => LET e == entry[r.auth[r.idx]] IN
                        e.refreshing \/ e.valid \/ e.backoff

CallsRight == \A c \in Callers : ShapeOf(call[c]) /\ TriedOf(call[c])

\* c has a refresh request of the entry e in flight.
Flying(c, e) == call[c].pc = "refresh" /\ Mine(c) = e

\* The flag of an entry says whether a request is in flight, and no two are.
SingleFlight ==
  /\ \A e \in AuthEntries : entry[e].refreshing <=> \E c \in Callers : Flying(c, e)
  /\ \A c, d \in Callers :
       call[c].pc = "refresh" /\ call[d].pc = "refresh" /\ Mine(c) = Mine(d) => c = d

\* An entry that is being refreshed is neither valid nor in backoff; none has
\* failed more often than requests have.  The entry of a token is its last one.
EntriesRight ==
  /\ \A e \in AuthEntries :
       /\ entry[e].refreshing => ~entry[e].valid /\ ~entry[e].backoff
       /\ entry[e].errors <= failures
  /\ \A t \in DOMAIN byId : byId[t] = gens[t]

\* The inductive invariant.
ServiceInv == TypeOK /\ CallsRight /\ SingleFlight /\ EntriesRight

LEMMA MineFields ==
  ASSUME ServiceInv, NEW c \in Callers, call[c].pc \in Busy
  PROVE  /\ call[c].idx \in call[c].tried /\ call[c].idx \in DOMAIN call[c].auth
         /\ Mine(c) = call[c].auth[call[c].idx] /\ Mine(c) \in AuthEntries
         /\ Mine(c)[2] <= gens[Mine(c)[1]]
<1>1. TypeOK /\ ShapeOf(call[c])
  BY DEF ServiceInv, CallsRight
<1> QED
  BY <1>1, CallFields, AuthFields DEF ShapeOf, Mine

LEMMA EmptyFunction ==
  ASSUME NEW T
  PROVE  <<>> \in UNION {[S -> T] : S \in SUBSET AllTokens}
<1>1. <<>> \in [{} -> T]
  OBVIOUS
<1>2. {} \in SUBSET AllTokens
  OBVIOUS
<1>3. [{} -> T] \in {[S -> T] : S \in SUBSET AllTokens}
  BY <1>2
<1> QED
  BY <1>1, <1>3

LEMMA IdleType == Idle \in Call
<1>1. <<>> \in Snapshot
  BY EmptyFunction DEF Snapshot
<1>2. <<>> \in Auths
  <2>1. <<>> \in [1..0 -> AuthEntries] /\ 0 \in 0..Cardinality(AllTokens)
    BY SizeType
  <2> QED
    BY <2>1 DEF Auths, AuthEntries
<1> QED
  BY <1>1, <1>2, SizeType DEF Idle, Call, PCs

LEMMA InitInv == Init => ServiceInv
<1> SUFFICES ASSUME Init PROVE ServiceInv
  OBVIOUS
<1>1. \A c \in Callers : /\ call[c] = Idle /\ call[c].pc = "idle" /\ call[c].aged = FALSE
                         /\ call[c].auth = <<>> /\ call[c].tried = {}
  BY DEF Init, Idle
<1>2. \A e \in AuthEntries : /\ entry[e] = NewEntry(0) /\ ~entry[e].refreshing
                             /\ entry[e].errors = 0 /\ failures = 0
  BY DEF Init, AuthEntries, NewEntry
<1>3. TypeOK
  <2>1. row \in Rows /\ told \in Rows
    BY DEF Init, Rows, Secrets
  <2>2. <<>> \in Snapshot /\ byId \in UNION {[S -> Gens] : S \in SUBSET AllTokens}
    BY EmptyFunction DEF Init, Snapshot
  <2>3. NewEntry(0) \in Entry
    BY DEF NewEntry, Entry, Secrets
  <2>4. entry \in [AllTokens \X Gens -> Entry] /\ gens \in [AllTokens -> 0..MaxGen]
    BY <2>3 DEF Init
  <2>5. call \in [Callers -> Call]
    BY IdleType DEF Init
  <2>6. cache \in [tokens: Snapshot, fresh: BOOLEAN]
    BY <2>2 DEF Init, None
  <2>7. strategy \in Strategies /\ editing \in BOOLEAN /\ current = 1
    BY DEF Init
  <2>8. failures \in 0..MaxFailures
    BY DEF Init
  <2>9. edits \in 0..MaxEdits /\ outages \in 0..MaxOutages
    BY DEF Init
  <2> QED
    BY <2>1, <2>2, <2>4, <2>5, <2>6, <2>7, <2>8, <2>9 DEF TypeOK
<1>4. CallsRight
  BY <1>1 DEF CallsRight, ShapeOf, TriedOf, Busy
<1>5. SingleFlight
  BY <1>1, <1>2 DEF SingleFlight, Flying
<1>6. EntriesRight
  <2>1. byId = <<>> /\ DOMAIN byId = {}
    BY DEF Init
  <2>2. \A e \in AuthEntries : ~entry[e].refreshing /\ entry[e].errors <= failures
    BY <1>2
  <2> QED
    BY <2>1, <2>2 DEF EntriesRight
<1> QED
  BY <1>3, <1>4, <1>5, <1>6 DEF ServiceInv

-----------------------------------------------------------------------------
(***************************************************************************)
(* The admin, the cache, and calls that move on their own.                 *)
(***************************************************************************)

\* Nothing that calls use changes.
LEMMA RowsMove ==
  ASSUME ServiceInv, TypeOK', UNCHANGED <<byId, entry, gens, call, failures>>
  PROVE  ServiceInv'
BY DEF ServiceInv, CallsRight, ShapeOf, TriedOf, SingleFlight, Flying, Mine, EntriesRight

LEMMA EditInv ==
  ASSUME ServiceInv, NEW t \in Tokens, Edit(t)
  PROVE  ServiceInv'
<1>1. TypeOK /\ edits' \in 0..MaxEdits /\ edits' \in Secrets
  BY DEF ServiceInv, TypeOK, Edit, Secrets
<1>2. row' \in Rows
  <2>1. row[t] \in [on: BOOLEAN, secret: Secrets]
    BY <1>1 DEF TypeOK, Rows
  <2>2. /\ [row[t] EXCEPT !.on = ~@] \in [on: BOOLEAN, secret: Secrets]
        /\ [row[t] EXCEPT !.secret = edits'] \in [on: BOOLEAN, secret: Secrets]
    BY <1>1, <2>1
  <2>3. \/ row' = [row EXCEPT ![t] = [row[t] EXCEPT !.on = ~@]]
        \/ row' = [row EXCEPT ![t] = [row[t] EXCEPT !.secret = edits']]
    BY <1>1 DEF Edit, TypeOK, Rows
  <2> QED
    BY <1>1, <2>2, <2>3 DEF TypeOK, Rows
<1>3. TypeOK' /\ UNCHANGED <<byId, entry, gens, call, failures>>
  BY <1>1, <1>2 DEF Edit, TypeOK
<1> QED
  BY <1>3, RowsMove

LEMMA CacheInv ==
  ASSUME ServiceInv, Invalidate \/ CacheExpires
  PROVE  ServiceInv'
<1>1. None \in [tokens: Snapshot, fresh: BOOLEAN]
  BY IdleType DEF None, Idle, Call
<1>2. TypeOK' /\ UNCHANGED <<byId, entry, gens, call, failures>>
  BY <1>1 DEF ServiceInv, Invalidate, CacheExpires, TypeOK, bounds
<1> QED
  BY <1>2, RowsMove

\* What holds of the entries that a call has tried is not lost when backoffs and
\* valid tokens last and a refresh that is over has an outcome.
LEMMA TriedKept ==
  ASSUME ServiceInv, NEW d \in Callers, call'[d] = call[d],
         \A e \in AuthEntries :
           /\ entry[e].backoff => entry'[e].backoff
           /\ entry[e].valid => entry'[e].valid
           /\ entry[e].refreshing =>
                entry'[e].refreshing \/ entry'[e].valid \/ entry'[e].backoff
  PROVE  TriedOf(call[d])'
<1>1. TypeOK /\ ShapeOf(call[d]) /\ TriedOf(call[d])
  BY DEF ServiceInv, CallsRight
<1>2. \A j \in call[d].tried : call[d].auth[j] \in AuthEntries
  BY <1>1, CallFields, AuthFields DEF ShapeOf
<1>3. call[d].pc \in Busy => call[d].auth[call[d].idx] \in AuthEntries
  BY <1>1, <1>2 DEF ShapeOf
<1> SUFFICES ASSUME ~call[d].aged, call[d].pc \notin {"done", "failed"}
             PROVE  /\ \A i \in call[d].tried :
                         \/ entry'[call[d].auth[i]].backoff
                         \/ i = call[d].idx /\ call[d].pc \in Busy
                    /\ call[d].pc = "use" => entry'[call[d].auth[call[d].idx]].valid
                    /\ call[d].pc = "wait" =>
                         \/ entry'[call[d].auth[call[d].idx]].refreshing
                         \/ entry'[call[d].auth[call[d].idx]].valid
                         \/ entry'[call[d].auth[call[d].idx]].backoff
  BY DEF TriedOf
<1>4. ASSUME NEW i \in call[d].tried
      PROVE  \/ entry'[call[d].auth[i]].backoff
             \/ i = call[d].idx /\ call[d].pc \in Busy
  BY <1>1, <1>2 DEF TriedOf
<1>5. ASSUME call[d].pc = "use" PROVE entry'[call[d].auth[call[d].idx]].valid
  BY <1>1, <1>3, <1>5 DEF TriedOf, Busy
<1>6. ASSUME call[d].pc = "wait"
      PROVE  \/ entry'[call[d].auth[call[d].idx]].refreshing
             \/ entry'[call[d].auth[call[d].idx]].valid
             \/ entry'[call[d].auth[call[d].idx]].backoff
  BY <1>1, <1>3, <1>6 DEF TriedOf, Busy
<1> QED
  BY <1>4, <1>5, <1>6

\* A call that neither begins nor ends a refresh.
LEMMA CallMoves ==
  ASSUME ServiceInv, TypeOK', NEW c \in Callers, NEW new \in Call,
         call' = [call EXCEPT ![c] = new], UNCHANGED <<byId, entry, gens, failures>>,
         call[c].pc # "refresh", new.pc # "refresh", ShapeOf(new), TriedOf(new)
  PROVE  ServiceInv'
<1>1. /\ call'[c] = new
      /\ \A d \in Callers \ {c} : call'[d] = call[d]
  BY DEF ServiceInv, TypeOK
<1>2. CallsRight'
  <2>1. ASSUME NEW d \in Callers PROVE ShapeOf(call[d])' /\ TriedOf(call[d])'
    <3>1. call'[d] = IF d = c THEN new ELSE call[d]
      BY <1>1
    <3>2. ShapeOf(call'[d]) /\ TriedOf(call'[d])
      BY <3>1 DEF ServiceInv, CallsRight
    <3> QED
      BY <3>2 DEF ShapeOf, TriedOf
  <2> QED
    BY <2>1 DEF CallsRight
<1>3. SingleFlight'
  <2>1. \A d \in Callers : call'[d].pc = "refresh" <=> call[d].pc = "refresh"
    BY <1>1
  <2>2. \A d \in Callers : call[d].pc = "refresh" => Mine(d)' = Mine(d) /\ call'[d] = call[d]
    BY <1>1 DEF Mine
  <2> QED
    BY <2>1, <2>2 DEF ServiceInv, SingleFlight, Flying
<1>4. EntriesRight'
  BY DEF ServiceInv, EntriesRight
<1> QED
  BY <1>2, <1>3, <1>4 DEF ServiceInv

LEMMA SnapshotType ==
  ASSUME NEW S \in SUBSET AllTokens, NEW f \in [S -> Secrets]
  PROVE  f \in Snapshot
BY DEF Snapshot

LEMMA SnapshotFields ==
  ASSUME NEW snap \in Snapshot
  PROVE  /\ DOMAIN snap \in SUBSET AllTokens
         /\ \A t \in DOMAIN snap : snap[t] \in Secrets
BY DEF Snapshot

LEMMA LoadedTypes ==
  ASSUME TypeOK
  PROVE  EnabledRows \in Snapshot /\ FromEnv \in Snapshot
<1>1. EnabledRows \in [{u \in Tokens : row[u].on} -> Secrets]
  BY DEF EnabledRows, TypeOK, Rows
<1>2. FromEnv \in [EnvTokens -> Secrets]
  BY DEF FromEnv, Secrets
<1> QED
  BY <1>1, <1>2, SnapshotType DEF AllTokens

LEMMA LoadInv ==
  ASSUME ServiceInv, NEW c \in Callers, Load(c)
  PROVE  ServiceInv'
<1>1. TypeOK /\ call[c] \in Call /\ call[c].pc = "load"
  BY CallFields DEF ServiceInv, Load
<1>2. PICK snap \in Snapshot : call' = [call EXCEPT ![c].pc = "store", ![c].snap = snap]
  BY <1>1, LoadedTypes DEF Load
<1>3. outages' \in 0..MaxOutages
  BY <1>1 DEF Load, TypeOK
<1> DEFINE new == [call[c] EXCEPT !.pc = "store", !.snap = snap]
<1>4. call' = [call EXCEPT ![c] = new]
  BY <1>1, <1>2 DEF TypeOK
<1>5. /\ new \in Call /\ new.pc = "store" /\ new.auth = call[c].auth
      /\ new.tried = call[c].tried
  BY <1>1 DEF Call, PCs
<1> HIDE DEF new
<1>6. ShapeOf(new) /\ TriedOf(new)
  <2>1. call[c].auth = <<>> /\ call[c].tried = {}
    BY <1>1 DEF ServiceInv, CallsRight, ShapeOf
  <2> QED
    BY <1>5, <2>1 DEF ShapeOf, TriedOf, Busy
<1>7. TypeOK'
  BY <1>1, <1>3, <1>4, <1>5 DEF TypeOK, Load
<1>8. UNCHANGED <<byId, entry, gens, failures>>
  BY DEF Load
<1> QED
  BY <1>1, <1>4, <1>5, <1>6, <1>7, <1>8, CallMoves

\* What a call is when only its program counter moves.
LEMMA PcFields ==
  ASSUME NEW r \in Call, NEW pc \in PCs
  PROVE  LET new == [r EXCEPT !.pc = pc] IN
         /\ new \in Call /\ new.pc = pc /\ new.auth = r.auth /\ new.tried = r.tried
         /\ new.idx = r.idx /\ new.aged = r.aged /\ new.snap = r.snap
BY DEF Call

\* A call that waits or is about to use its token goes on.
LEMMA ReadyInv ==
  ASSUME ServiceInv, NEW c \in Callers, Poll(c) \/ Use(c)
  PROVE  ServiceInv'
<1> DEFINE e == entry[Mine(c)]
           pc == IF call[c].pc = "wait" THEN IF e.valid THEN "use" ELSE "select"
                                        ELSE IF e.valid THEN "done" ELSE "select"
           new == [call[c] EXCEPT !.pc = pc]
<1>1. TypeOK /\ call[c] \in Call /\ call[c].pc \in {"wait", "use"}
  BY CallFields DEF ServiceInv, Poll, Use
<1>2. call' = [call EXCEPT ![c] = new]
  BY <1>1 DEF Poll, Use, TypeOK
<1>3. /\ new \in Call /\ new.pc = pc /\ new.auth = call[c].auth
      /\ new.tried = call[c].tried /\ new.idx = call[c].idx /\ new.aged = call[c].aged
  <2>1. pc \in PCs
    BY DEF PCs
  <2> HIDE DEF pc
  <2> QED
    BY <1>1, <2>1, PcFields
<1>4. ShapeOf(call[c]) /\ TriedOf(call[c]) /\ Mine(c) = call[c].auth[call[c].idx]
  BY DEF ServiceInv, CallsRight, Mine
<1>5. call[c].pc = "wait" => ~e.refreshing
  BY DEF Poll, Use
<1> HIDE DEF new
<1>6. ShapeOf(new)
  BY <1>1, <1>3, <1>4 DEF ShapeOf, Busy
<1>7. TriedOf(new)
  BY <1>1, <1>3, <1>4, <1>5 DEF TriedOf, Busy
<1>8. TypeOK'
  BY <1>1, <1>2, <1>3 DEF TypeOK, Poll, Use, bounds
<1>9. UNCHANGED <<byId, entry, gens, failures>> /\ pc # "refresh" /\ call[c].pc # "refresh"
  BY <1>1 DEF Poll, Use, bounds
<1> QED
  BY <1>2, <1>3, <1>6, <1>7, <1>8, <1>9, CallMoves

LEMMA AgainInv ==
  ASSUME ServiceInv, NEW c \in Callers, Again(c)
  PROVE  ServiceInv'
<1>1. Idle \in Call /\ Idle.pc = "idle" /\ ShapeOf(Idle) /\ TriedOf(Idle)
  BY IdleType DEF Idle, ShapeOf, TriedOf, Busy
<1>2. TypeOK'
  BY <1>1 DEF ServiceInv, TypeOK, Again, bounds
<1>3. UNCHANGED <<byId, entry, gens, failures>> /\ call[c].pc # "refresh"
  BY DEF Again, bounds
<1> QED
  BY <1>1, <1>2, <1>3, CallMoves DEF Again

-----------------------------------------------------------------------------
(***************************************************************************)
(* A call chooses a token.                                                 *)
(***************************************************************************)

\* A call gives up.
LEMMA GiveUpInv ==
  ASSUME ServiceInv, NEW c \in Callers, call[c].pc = "select",
         call' = [call EXCEPT ![c].pc = "failed"],
         UNCHANGED <<strategy, row, told, editing, cache, byId, entry, gens, bounds>>,
         current' = current \/ current' \in 1..Cardinality(AllTokens)
  PROVE  ServiceInv'
<1> DEFINE new == [call[c] EXCEPT !.pc = "failed"]
<1>1. TypeOK /\ call[c] \in Call
  BY CallFields DEF ServiceInv
<1>2. call' = [call EXCEPT ![c] = new]
  BY <1>1 DEF TypeOK
<1>3. /\ new \in Call /\ new.pc = "failed" /\ new.auth = call[c].auth
      /\ new.tried = call[c].tried
  BY <1>1, PcFields DEF PCs
<1> HIDE DEF new
<1>4. ShapeOf(call[c])
  BY DEF ServiceInv, CallsRight
<1>5. ShapeOf(new) /\ TriedOf(new)
  BY <1>3, <1>4 DEF ShapeOf, TriedOf, Busy
<1>6. TypeOK'
  <2>1. call' \in [Callers -> Call]
    BY <1>1, <1>2, <1>3 DEF TypeOK
  <2>2. current' = 1 \/ current' \in 1..Cardinality(AllTokens)
    BY <1>1 DEF TypeOK
  <2> QED
    BY <1>1, <2>1, <2>2 DEF TypeOK, bounds
<1>7. UNCHANGED <<byId, entry, gens, failures>>
  BY DEF bounds
<1> QED
  BY <1>2, <1>3, <1>5, <1>6, <1>7, CallMoves

\* What a call becomes when it tries the index i.
Trying(c, i, pc) ==
  [call[c] EXCEPT !.pc = pc, !.idx = i, !.tried = @ \union {i}]

LEMMA TryingFields ==
  ASSUME ServiceInv, NEW c \in Callers, call[c].pc = "select",
         NEW i \in Candidates(call[c].auth), NEW pc \in PCs
  PROVE  LET new == Trying(c, i, pc)  auth == call[c].auth IN
         /\ auth[i] \in AuthEntries /\ ~entry[auth[i]].backoff
         /\ auth[i][2] <= gens[auth[i][1]] /\ i \in DOMAIN auth
         /\ i \in 1..Cardinality(AllTokens)
         /\ new \in Call /\ new.pc = pc /\ new.auth = auth /\ new.idx = i
         /\ new.tried = call[c].tried \union {i} /\ new.aged = call[c].aged
<1> DEFINE auth == call[c].auth
<1>1. TypeOK /\ call[c] \in Call /\ auth \in Auths /\ ShapeOf(call[c])
  BY CallFields DEF ServiceInv, CallsRight
<1>2. i \in DOMAIN auth /\ ~entry[auth[i]].backoff
  BY <1>1, CandidatesEligible DEF Eligible
<1>3. auth[i] \in AuthEntries /\ i \in 1..Cardinality(AllTokens)
  <2>1. DOMAIN auth = 1..Len(auth) /\ Len(auth) \in 0..Cardinality(AllTokens)
    BY <1>1, AuthFields
  <2> QED
    BY <1>1, <1>2, <2>1, AuthFields, SizeType
<1>4. auth[i][2] <= gens[auth[i][1]]
  BY <1>1, <1>2 DEF ShapeOf
<1>5. i \in 0..Cardinality(AllTokens)
  BY <1>3, SizeType
<1>6. call[c].tried \union {i} \in SUBSET (1..Cardinality(AllTokens))
  BY <1>1, <1>3, CallFields
<1>7. Trying(c, i, pc) \in Call
  BY <1>1, <1>5, <1>6 DEF Trying, Call
<1> QED
  BY <1>1, <1>2, <1>3, <1>4, <1>7 DEF Trying, Call

\* The call tries an entry that is valid, or being refreshed by another call.
LEMMA TryInv ==
  ASSUME ServiceInv, NEW c \in Callers, call[c].pc = "select",
         NEW i \in Candidates(call[c].auth), NEW pc \in {"use", "wait", "select"},
         pc = ReadyPC(entry[call[c].auth[i]]), current' = i,
         call' = [call EXCEPT ![c] = Trying(c, i, pc)],
         UNCHANGED <<strategy, row, told, editing, cache, byId, entry, gens, bounds>>
  PROVE  ServiceInv'
<1> DEFINE new == Trying(c, i, pc)
           auth == call[c].auth
<1>1. TypeOK /\ ShapeOf(call[c]) /\ TriedOf(call[c])
  BY DEF ServiceInv, CallsRight
<1>2. /\ auth[i] \in AuthEntries /\ ~entry[auth[i]].backoff
      /\ auth[i][2] <= gens[auth[i][1]] /\ i \in DOMAIN auth
      /\ i \in 1..Cardinality(AllTokens)
      /\ new \in Call /\ new.pc = pc /\ new.auth = auth /\ new.idx = i
      /\ new.tried = call[c].tried \union {i} /\ new.aged = call[c].aged
  <2>1. pc \in PCs
    BY DEF PCs
  <2> QED
    BY <2>1, TryingFields
<1>3. call' = [call EXCEPT ![c] = new]
  OBVIOUS
<1> HIDE DEF new
<1>4. ShapeOf(new)
  BY <1>1, <1>2 DEF ShapeOf, Busy
<1>5. /\ pc = "use" => entry[auth[i]].valid
      /\ pc = "wait" => entry[auth[i]].refreshing
      /\ pc # "select"
  <2>1. /\ entry[auth[i]].valid \in BOOLEAN /\ entry[auth[i]].refreshing \in BOOLEAN
    BY <1>1, <1>2, EntryFields
  <2> QED
    BY <1>2, <2>1 DEF ReadyPC
<1>6. TriedOf(new)
  BY <1>1, <1>2, <1>5 DEF TriedOf, Busy
<1>7. TypeOK'
  BY <1>1, <1>2, <1>3 DEF TypeOK, bounds
<1>8. UNCHANGED <<byId, entry, gens, failures>> /\ new.pc # "refresh"
  BY <1>2 DEF bounds
<1> QED
  BY <1>2, <1>3, <1>4, <1>6, <1>7, <1>8, CallMoves

\* The call tries an entry that nobody is refreshing, and refreshes it.
LEMMA StartInv ==
  ASSUME ServiceInv, NEW c \in Callers, call[c].pc = "select",
         NEW i \in Candidates(call[c].auth), "refresh" = ReadyPC(entry[call[c].auth[i]]),
         current' = i, call' = [call EXCEPT ![c] = Trying(c, i, "refresh")],
         entry' = [entry EXCEPT ![call[c].auth[i]].refreshing = TRUE],
         UNCHANGED <<strategy, row, told, editing, cache, byId, gens, bounds>>
  PROVE  ServiceInv'
<1> DEFINE new == Trying(c, i, "refresh")
           auth == call[c].auth
<1>a. PICK e \in AuthEntries : e = auth[i]
  BY TryingFields DEF PCs
<1> DEFINE marked == [entry[e] EXCEPT !.refreshing = TRUE]
<1>1. TypeOK /\ ShapeOf(call[c]) /\ TriedOf(call[c])
  BY DEF ServiceInv, CallsRight
<1>2. /\ e \in AuthEntries /\ ~entry[e].backoff
      /\ e[2] <= gens[e[1]] /\ i \in DOMAIN auth
      /\ i \in 1..Cardinality(AllTokens)
      /\ new \in Call /\ new.pc = "refresh" /\ new.auth = auth /\ new.idx = i
      /\ new.tried = call[c].tried \union {i} /\ new.aged = call[c].aged
  <2>1. "refresh" \in PCs
    BY DEF PCs
  <2> QED
    BY <1>a, <2>1, TryingFields
<1>3. ~entry[e].valid /\ ~entry[e].refreshing
  BY <1>a, <1>1, <1>2, EntryFields DEF ReadyPC
<1>4. /\ marked \in Entry /\ marked.refreshing = TRUE /\ marked.valid = entry[e].valid
      /\ marked.backoff = entry[e].backoff /\ marked.errors = entry[e].errors
  BY <1>1, <1>2, EntryFields DEF Entry
<1>5. entry' = [entry EXCEPT ![e] = marked]
  BY <1>a, <1>1, <1>2 DEF TypeOK
<1>0. call' = [call EXCEPT ![c] = new]
  OBVIOUS
<1> HIDE DEF new, marked
<1>6. /\ call'[c] = new
      /\ \A d \in Callers \ {c} : call'[d] = call[d]
  BY <1>0, <1>1 DEF TypeOK
<1>7. /\ entry'[e] = marked
      /\ \A f \in AuthEntries \ {e} : entry'[f] = entry[f]
  BY <1>1, <1>2, <1>5 DEF TypeOK, AuthEntries
<1>8. \A f \in AuthEntries : /\ entry'[f].valid = entry[f].valid
                             /\ entry'[f].backoff = entry[f].backoff
                             /\ entry'[f].errors = entry[f].errors
                             /\ entry[f].refreshing => entry'[f].refreshing
  BY <1>4, <1>7
<1>9. TypeOK'
  <2>1. entry' \in [AllTokens \X Gens -> Entry]
    BY <1>1, <1>4, <1>5 DEF TypeOK
  <2>2. call' \in [Callers -> Call]
    BY <1>0, <1>1, <1>2 DEF TypeOK
  <2> QED
    BY <1>1, <1>2, <2>1, <2>2 DEF TypeOK, bounds
<1>10. CallsRight'
  <2>1. ASSUME NEW d \in Callers, d # c PROVE ShapeOf(call[d])' /\ TriedOf(call[d])'
    <3>1. call'[d] = call[d] /\ gens' = gens
      BY <1>6, <2>1
    <3>2. ShapeOf(call[d])'
      BY <3>1 DEF ServiceInv, CallsRight, ShapeOf
    <3>3. TriedOf(call[d])'
      BY <1>8, <3>1, TriedKept
    <3> QED
      BY <3>2, <3>3
  <2>2. ShapeOf(call[c])'
    BY <1>a, <1>1, <1>2, <1>6 DEF ShapeOf, Busy
  <2>3. TriedOf(call[c])'
    <3>1. \A j \in call[c].tried : auth[j] \in AuthEntries
      BY <1>1, CallFields, AuthFields DEF ShapeOf
    <3>2. ~call[c].aged => \A j \in call[c].tried : entry[auth[j]].backoff
      BY <1>1 DEF TriedOf, Busy
    <3>3. ~call[c].aged => \A j \in call[c].tried : entry'[auth[j]].backoff
      BY <1>8, <3>1, <3>2
    <3>4. /\ call'[c].pc = "refresh" /\ call'[c].idx = i /\ call'[c].auth = auth
          /\ call'[c].tried = call[c].tried \union {i} /\ call'[c].aged = call[c].aged
      BY <1>2, <1>6
    <3> QED
      BY <3>3, <3>4 DEF TriedOf, Busy
  <2> QED
    BY <2>1, <2>2, <2>3 DEF CallsRight
<1>11. SingleFlight'
  <2>1. \A d \in Callers : ~Flying(d, e)
    BY <1>2, <1>3 DEF ServiceInv, SingleFlight
  <2>2. call'[c].pc = "refresh" /\ Mine(c)' = e
    BY <1>a, <1>2, <1>6 DEF Mine
  <2>3. \A d \in Callers \ {c} : /\ call'[d].pc = call[d].pc /\ Mine(d)' = Mine(d)
    BY <1>6 DEF Mine
  <2>4. \A f \in AuthEntries : entry'[f].refreshing <=> \E d \in Callers : Flying(d, f)'
    <3>1. ASSUME NEW f \in AuthEntries, f # e
          PROVE  /\ entry'[f].refreshing <=> entry[f].refreshing
                 /\ \A d \in Callers : Flying(d, f)' <=> Flying(d, f)
      BY <1>7, <2>2, <2>3, <3>1 DEF Flying
    <3>2. entry'[e].refreshing
      BY <1>4, <1>7
    <3>3. Flying(c, e)'
      BY <2>2 DEF Flying
    <3>4. ASSUME NEW f \in AuthEntries
          PROVE  entry'[f].refreshing <=> \E d \in Callers : Flying(d, f)'
      <4>1. CASE f = e
        BY <3>2, <3>3, <4>1
      <4>2. CASE f # e
        <5>1. entry[f].refreshing <=> \E d \in Callers : Flying(d, f)
          BY DEF ServiceInv, SingleFlight
        <5> QED
          BY <3>1, <4>2, <5>1
      <4> QED
        BY <4>1, <4>2
    <3> QED
      BY <3>4
  <2>5. \A d, f \in Callers :
          call'[d].pc = "refresh" /\ call'[f].pc = "refresh" /\ Mine(d)' = Mine(f)' => d = f
    BY <2>1, <2>2, <2>3 DEF ServiceInv, SingleFlight, Flying
  <2> QED
    BY <2>4, <2>5 DEF SingleFlight
<1>12. EntriesRight'
  <2>1. \A f \in AuthEntries : entry'[f].refreshing =>
          f = e \/ (entry[f].refreshing /\ entry'[f] = entry[f])
    BY <1>7
  <2> QED
    BY <1>2, <1>3, <1>8, <2>1, ZenonT(40) DEF ServiceInv, EntriesRight, bounds
<1> QED
  BY <1>9, <1>10, <1>11, <1>12 DEF ServiceInv

LEMMA SelectInv ==
  ASSUME ServiceInv, NEW c \in Callers, Select(c)
  PROVE  ServiceInv'
<1> DEFINE auth == call[c].auth
<1>1. TypeOK /\ call[c].pc = "select" /\ auth \in Auths
  BY CallFields DEF ServiceInv, Select
<1>2. UNCHANGED <<strategy, row, told, editing, cache, byId, gens, bounds>>
  BY DEF Select
<1>3. CASE call' = [call EXCEPT ![c].pc = "failed"] /\ UNCHANGED <<current, entry>>
  BY <1>1, <1>2, <1>3, GiveUpInv
<1>4. ASSUME NEW i \in Candidates(auth), current' = i, UNCHANGED entry,
             call' = [call EXCEPT ![c].pc = "failed"]
      PROVE  ServiceInv'
  <2>1. i \in 1..Cardinality(AllTokens)
    BY <1>1, TryingFields DEF PCs
  <2> QED
    BY <1>1, <1>2, <1>4, <2>1, GiveUpInv
<1>5. ASSUME NEW i \in Candidates(auth), current' = i,
             NEW pc, pc = ReadyPC(entry[auth[i]]),
             call' = [call EXCEPT ![c].pc = pc, ![c].idx = i, ![c].tried = @ \union {i}],
             entry' = [entry EXCEPT ![auth[i]].refreshing = @ \/ pc = "refresh"]
      PROVE  ServiceInv'
  <2>1. pc \in {"use", "wait", "select", "refresh"}
    BY <1>5 DEF ReadyPC
  <2>2. call' = [call EXCEPT ![c] = Trying(c, i, pc)]
    BY <1>1, <1>5 DEF Trying, TypeOK
  <2>3. auth[i] \in AuthEntries
    BY <1>1, TryingFields DEF PCs
  <2>4. CASE pc = "refresh"
    <3>1. entry' = [entry EXCEPT ![auth[i]].refreshing = TRUE]
      BY <1>5, <2>4
    <3> QED
      BY <1>1, <1>2, <1>5, <2>2, <2>4, <3>1, StartInv
  <2>5. CASE pc # "refresh"
    <3>1. entry' = entry
      <4>1. entry[auth[i]] \in Entry /\ entry[auth[i]].refreshing \in BOOLEAN
        BY <1>1, <2>3, EntryFields
      <4>2. [entry[auth[i]] EXCEPT !.refreshing = @ \/ pc = "refresh"] = entry[auth[i]]
        BY <2>5, <4>1 DEF Entry
      <4>3. entry' = [entry EXCEPT ![auth[i]] =
                        [entry[auth[i]] EXCEPT !.refreshing = @ \/ pc = "refresh"]]
        BY <1>1, <1>5, <2>3 DEF TypeOK
      <4> QED
        BY <1>1, <4>2, <4>3 DEF TypeOK
    <3> QED
      BY <1>1, <1>2, <1>5, <2>1, <2>2, <2>5, <3>1, TryInv, ZenonT(40)
  <2> QED
    BY <2>4, <2>5
<1> QED
  BY <1>3, <1>4, <1>5 DEF Select

-----------------------------------------------------------------------------
(***************************************************************************)
(* A refresh is over.                                                      *)
(***************************************************************************)

\* The request of c for e ends: the flag is cleared, and the entry is valid or in
\* backoff.
LEMMA RefreshEnds ==
  ASSUME ServiceInv, NEW c \in Callers, call[c].pc = "refresh",
         NEW e \in AuthEntries, e = Mine(c),
         NEW new \in Entry, entry' = [entry EXCEPT ![e] = new],
         ~new.refreshing, new.valid \/ new.backoff, new.errors <= failures',
         NEW pc \in {"use", "select"}, call' = [call EXCEPT ![c].pc = pc],
         pc = "use" => new.valid, pc = "select" => new.backoff,
         UNCHANGED <<strategy, row, told, editing, cache, byId, gens, current,
                     edits, outages>>,
         failures' \in 0..MaxFailures, failures <= failures'
  PROVE  ServiceInv'
<1> DEFINE now == [call[c] EXCEPT !.pc = pc]
<1>1. TypeOK /\ ShapeOf(call[c]) /\ TriedOf(call[c]) /\ call[c].auth \in Auths
  BY CallFields DEF ServiceInv, CallsRight
<1>2. call[c].idx \in call[c].tried /\ e = call[c].auth[call[c].idx]
  BY MineFields DEF Busy
<1>3. entry[e].refreshing /\ ~entry[e].valid /\ ~entry[e].backoff
  BY DEF ServiceInv, SingleFlight, Flying, EntriesRight
<1>4. \A d \in Callers : Flying(d, e) => d = c
  BY DEF ServiceInv, SingleFlight, Flying
<1>5. /\ entry' \in [AllTokens \X Gens -> Entry] /\ entry'[e] = new
      /\ \A f \in AuthEntries \ {e} : entry'[f] = entry[f]
  BY <1>1 DEF TypeOK, AuthEntries
<1>6. /\ now \in Call /\ now.pc = pc /\ now.auth = call[c].auth
      /\ now.tried = call[c].tried /\ now.idx = call[c].idx /\ now.aged = call[c].aged
  <2>1. pc \in PCs /\ call[c] \in Call
    BY <1>1, CallFields DEF PCs
  <2> QED
    BY <2>1, PcFields
<1>7. call' = [call EXCEPT ![c] = now]
  BY <1>1 DEF TypeOK
<1> HIDE DEF now
<1>8. /\ call' \in [Callers -> Call] /\ call'[c] = now
      /\ \A d \in Callers \ {c} : call'[d] = call[d]
  <2>1. call \in [Callers -> Call] /\ now \in Call
    BY <1>1, <1>6 DEF TypeOK
  <2> QED
    BY <1>7, <2>1
<1>9. TypeOK'
  BY <1>1, <1>5, <1>8 DEF TypeOK
<1>10. ASSUME NEW f \in AuthEntries
       PROVE  /\ entry[f].backoff => entry'[f].backoff
              /\ entry[f].valid => entry'[f].valid
              /\ entry[f].refreshing =>
                   entry'[f].refreshing \/ entry'[f].valid \/ entry'[f].backoff
  BY <1>3, <1>5
<1>11. CallsRight'
  <2>1. ASSUME NEW d \in Callers, d # c PROVE ShapeOf(call[d])' /\ TriedOf(call[d])'
    <3>1. call'[d] = call[d] /\ gens' = gens
      BY <1>8, <2>1
    <3>2. ShapeOf(call[d])'
      BY <3>1 DEF ServiceInv, CallsRight, ShapeOf
    <3>3. TriedOf(call[d])'
      BY <1>10, <3>1, TriedKept
    <3> QED
      BY <3>2, <3>3
  <2>2. ShapeOf(call[c])'
    BY <1>1, <1>2, <1>6, <1>8 DEF ShapeOf, Busy
  <2>3. TriedOf(call[c])'
    <3>1. \A j \in call[c].tried : call[c].auth[j] \in AuthEntries
      BY <1>1, AuthFields DEF ShapeOf
    <3>2. ~call[c].aged => \A j \in call[c].tried :
                             entry[call[c].auth[j]].backoff \/ j = call[c].idx
      BY <1>1 DEF TriedOf, Busy
    <3>3. ~call[c].aged => \A j \in call[c].tried :
                             entry'[call[c].auth[j]].backoff \/ j = call[c].idx
      BY <1>10, <3>1, <3>2
    <3>4. CASE pc = "use"
      BY <1>2, <1>5, <1>6, <1>8, <3>3, <3>4 DEF TriedOf, Busy
    <3>5. CASE pc = "select"
      BY <1>2, <1>5, <1>6, <1>8, <3>3, <3>5 DEF TriedOf, Busy
    <3> QED
      BY <3>4, <3>5
  <2> QED
    BY <2>1, <2>2, <2>3 DEF CallsRight
<1>12. SingleFlight'
  <2>1. call'[c].pc # "refresh"
    BY <1>6, <1>8
  <2>2. \A d \in Callers \ {c} : call'[d].pc = call[d].pc /\ Mine(d)' = Mine(d)
    BY <1>8 DEF Mine
  <2>3. ASSUME NEW f \in AuthEntries
        PROVE  entry'[f].refreshing <=> \E d \in Callers : Flying(d, f)'
    <3>1. CASE f = e
      <4>1. \A d \in Callers : ~Flying(d, e)'
        BY <1>4, <2>1, <2>2 DEF Flying
      <4> QED
        BY <1>5, <3>1, <4>1
    <3>2. CASE f # e
      <4>1. \A d \in Callers : Flying(d, f)' <=> Flying(d, f)
        BY <2>1, <2>2, <3>2 DEF Flying
      <4>2. entry'[f] = entry[f]
        BY <1>5, <3>2
      <4>3. entry[f].refreshing <=> \E d \in Callers : Flying(d, f)
        BY DEF ServiceInv, SingleFlight
      <4> QED
        BY <4>1, <4>2, <4>3
    <3> QED
      BY <3>1, <3>2
  <2>4. \A d, f \in Callers :
          call'[d].pc = "refresh" /\ call'[f].pc = "refresh" /\ Mine(d)' = Mine(f)' => d = f
    BY <2>1, <2>2 DEF ServiceInv, SingleFlight
  <2> QED
    BY <2>3, <2>4 DEF SingleFlight
<1>13. EntriesRight'
  <2>1. ASSUME NEW f \in AuthEntries, f # e
        PROVE  /\ entry'[f].refreshing => ~entry'[f].valid /\ ~entry'[f].backoff
               /\ entry'[f].errors <= failures'
    <3>1. entry'[f] = entry[f] /\ entry[f].errors \in Int /\ failures \in Int /\ failures' \in Int
      BY <1>1, <1>5, <2>1, EntryFields, SMTT(30) DEF TypeOK
    <3> QED
      BY <3>1 DEF ServiceInv, EntriesRight
  <2>2. \A t \in DOMAIN byId' : byId'[t] = gens'[t]
    BY DEF ServiceInv, EntriesRight
  <2> QED
    BY <1>5, <2>1, <2>2 DEF EntriesRight
<1> QED
  BY <1>9, <1>11, <1>12, <1>13 DEF ServiceInv

LEMMA RefreshOkInv ==
  ASSUME ServiceInv, NEW c \in Callers, RefreshOk(c)
  PROVE  ServiceInv'
<1>1. TypeOK /\ call[c].pc = "refresh"
  BY DEF ServiceInv, RefreshOk
<1>2. PICK e \in AuthEntries : e = Mine(c)
  BY <1>1, MineFields DEF Busy
<1> DEFINE new == [secret |-> entry[e].secret, valid |-> TRUE, refreshing |-> FALSE,
                   backoff |-> FALSE, errors |-> 0]
<1>3. new \in Entry
  BY <1>1, EntryFields DEF Entry
<1>4. entry' = [entry EXCEPT ![e] = new]
  BY <1>1, <1>2 DEF RefreshOk, TypeOK
<1>5. failures' = failures /\ failures' \in 0..MaxFailures /\ edits' = edits /\ outages' = outages
  BY <1>1 DEF RefreshOk, TypeOK, bounds
<1>6. ~new.refreshing /\ new.valid /\ new.errors <= failures' /\ failures <= failures'
  BY <1>5
<1> HIDE DEF new
<1> QED
  BY <1>1, <1>2, <1>3, <1>4, <1>5, <1>6, RefreshEnds DEF RefreshOk

LEMMA RefreshFailInv ==
  ASSUME ServiceInv, NEW c \in Callers, RefreshFail(c)
  PROVE  ServiceInv'
<1>1. TypeOK /\ call[c].pc = "refresh"
  BY DEF ServiceInv, RefreshFail
<1>2. PICK e \in AuthEntries : e = Mine(c)
  BY <1>1, MineFields DEF Busy
<1> DEFINE new == Failed(entry[e])
<1>3. /\ failures' = failures + 1 /\ failures' \in 0..MaxFailures
      /\ edits' = edits /\ outages' = outages /\ failures <= failures'
  BY <1>1 DEF RefreshFail, TypeOK
<1>4. entry[e].errors + 1 <= failures' /\ entry[e].errors + 1 \in 0..MaxFailures
  <2>1. entry[e].errors <= failures /\ failures \in Nat
    BY <1>1 DEF ServiceInv, EntriesRight, TypeOK
  <2>2. entry[e].errors \in Nat
    BY <1>1, EntryFields
  <2> QED
    BY <1>3, <2>1, <2>2
<1>5. /\ new \in Entry /\ new.refreshing = FALSE /\ new.backoff = TRUE
      /\ new.errors = entry[e].errors + 1
  BY <1>1, <1>4, EntryFields DEF Entry, Failed
<1>6. entry' = [entry EXCEPT ![e] = new]
  BY <1>2 DEF RefreshFail
<1>7. /\ call' = [call EXCEPT ![c].pc = "select"]
      /\ UNCHANGED <<strategy, row, told, editing, cache, byId, gens, current,
                     edits, outages>>
  BY DEF RefreshFail
<1> HIDE DEF new
<1>8. new.errors <= failures'
  BY <1>4, <1>5
<1> QED
  BY <1>1, <1>2, <1>3, <1>5, <1>6, <1>7, <1>8, RefreshEnds

-----------------------------------------------------------------------------
(***************************************************************************)
(* Time passes.                                                            *)
(***************************************************************************)

\* An access token expires or a backoff ends: the calls under way have aged.
LEMMA AgedInv ==
  ASSUME ServiceInv, NEW e \in AuthEntries, NEW new \in Entry,
         entry' = [entry EXCEPT ![e] = new], call' = Aged,
         new.refreshing = entry[e].refreshing, new.errors = entry[e].errors,
         new.valid => entry[e].valid, new.backoff => entry[e].backoff,
         UNCHANGED <<strategy, row, told, editing, cache, byId, gens, current, bounds>>
  PROVE  ServiceInv'
<1>1. TypeOK
  BY DEF ServiceInv
<1>2. /\ entry' \in [AllTokens \X Gens -> Entry] /\ entry'[e] = new
      /\ \A f \in AuthEntries \ {e} : entry'[f] = entry[f]
  BY <1>1 DEF TypeOK, AuthEntries
<1>3. ASSUME NEW c \in Callers
      PROVE  /\ call'[c] \in Call /\ call'[c].pc = call[c].pc
             /\ call'[c].auth = call[c].auth /\ call'[c].tried = call[c].tried
             /\ call'[c].idx = call[c].idx
             /\ call'[c].aged <=> call[c].pc \notin {"idle", "done", "failed"}
  <2>1. PICK b \in BOOLEAN : b <=> call[c].pc \notin {"idle", "done", "failed"}
    OBVIOUS
  <2>2. call'[c] = [call[c] EXCEPT !.aged = b]
    BY <2>1 DEF Aged
  <2>3. call[c] \in Call
    BY <1>1, CallFields
  <2> QED
    BY <2>1, <2>2, <2>3 DEF Call
<1>4. TypeOK'
  <2>1. call' \in [Callers -> Call]
    BY <1>3 DEF Aged
  <2> QED
    BY <1>1, <1>2, <2>1 DEF TypeOK, bounds
<1>5. CallsRight'
  <2>1. ASSUME NEW c \in Callers PROVE ShapeOf(call[c])' /\ TriedOf(call[c])'
    <3>1. ShapeOf(call[c])
      BY DEF ServiceInv, CallsRight
    <3>2. ShapeOf(call[c])'
      BY <1>3, <3>1 DEF ShapeOf
    <3>3. TriedOf(call[c])'
      BY <1>3, <3>1 DEF ShapeOf, TriedOf
    <3> QED
      BY <3>2, <3>3
  <2> QED
    BY <2>1 DEF CallsRight
<1>6. SingleFlight'
  <2>1. \A f \in AuthEntries : entry'[f].refreshing = entry[f].refreshing
    BY <1>2
  <2>2. \A c \in Callers : /\ call'[c].pc = call[c].pc /\ Mine(c)' = Mine(c)
    BY <1>3 DEF Mine
  <2>3. \A c \in Callers, f \in AuthEntries : Flying(c, f)' <=> Flying(c, f)
    BY <2>2 DEF Flying
  <2> QED
    BY <2>1, <2>2, <2>3 DEF ServiceInv, SingleFlight
<1>7. EntriesRight'
  <2>1. \A f \in AuthEntries : /\ entry'[f].refreshing = entry[f].refreshing
                               /\ entry'[f].valid => entry[f].valid
                               /\ entry'[f].backoff => entry[f].backoff
                               /\ entry'[f].errors = entry[f].errors
    BY <1>2
  <2> QED
    BY <2>1 DEF ServiceInv, EntriesRight, bounds
<1> QED
  BY <1>4, <1>5, <1>6, <1>7 DEF ServiceInv

LEMMA ExpiresInv ==
  ASSUME ServiceInv, NEW e \in AuthEntries, AccessExpires(e) \/ BackoffEnds(e)
  PROVE  ServiceInv'
<1>1. TypeOK
  BY DEF ServiceInv
<1>2. CASE AccessExpires(e)
  <2> DEFINE new == [entry[e] EXCEPT !.valid = FALSE]
  <2>1. /\ new \in Entry /\ new.refreshing = entry[e].refreshing
        /\ new.errors = entry[e].errors /\ new.valid = FALSE
        /\ new.backoff = entry[e].backoff
    BY <1>1, EntryFields DEF Entry
  <2>2. entry' = [entry EXCEPT ![e] = new]
    BY <1>2 DEF AccessExpires
  <2> HIDE DEF new
  <2> QED
    BY <1>2, <2>1, <2>2, AgedInv DEF AccessExpires
<1>3. CASE BackoffEnds(e)
  <2> DEFINE new == [entry[e] EXCEPT !.backoff = FALSE]
  <2>1. /\ new \in Entry /\ new.refreshing = entry[e].refreshing
        /\ new.errors = entry[e].errors /\ new.valid = entry[e].valid
        /\ new.backoff = FALSE
    BY <1>1, EntryFields DEF Entry
  <2>2. entry' = [entry EXCEPT ![e] = new]
    BY <1>3 DEF BackoffEnds
  <2> HIDE DEF new
  <2> QED
    BY <1>3, <2>1, <2>2, AgedInv DEF BackoffEnds
<1> QED
  BY <1>2, <1>3

-----------------------------------------------------------------------------
(***************************************************************************)
(* The entries are built from a snapshot.                                  *)
(***************************************************************************)

\* A snapshot without tokens: the call fails.
LEMMA InstallNothing ==
  ASSUME ServiceInv, NEW c \in Callers, call[c].pc # "refresh",
         NEW r \in Call, r.tried = {}, r.auth = <<>>,
         call' = [call EXCEPT ![c] = [r EXCEPT !.pc = "failed"]],
         UNCHANGED <<byId, entry, gens, strategy, row, told, editing, current, bounds>>,
         cache' \in [tokens: Snapshot, fresh: BOOLEAN]
  PROVE  ServiceInv'
<1> DEFINE new == [r EXCEPT !.pc = "failed"]
<1>1. TypeOK
  BY DEF ServiceInv
<1>2. new \in Call /\ new.pc = "failed" /\ new.auth = <<>> /\ new.tried = {}
  BY PcFields DEF PCs
<1>3. call' = [call EXCEPT ![c] = new]
  OBVIOUS
<1> HIDE DEF new
<1>4. ShapeOf(new) /\ TriedOf(new)
  BY <1>2 DEF ShapeOf, TriedOf, Busy
<1>5. TypeOK' /\ UNCHANGED <<byId, entry, gens, failures>>
  <2>1. call' \in [Callers -> Call]
    BY <1>1, <1>2, <1>3 DEF TypeOK
  <2>2. UNCHANGED <<failures, edits, outages>>
    BY DEF bounds
  <2> QED
    BY <1>1, <2>1, <2>2 DEF TypeOK
<1> QED
  BY <1>2, <1>3, <1>4, <1>5, CallMoves

\* The generation of the entry that each token of a snapshot has afterwards.
GenOf(S) == [t \in S |-> IF t \notin DOMAIN byId THEN gens[t] + 1 ELSE byId[t]]

LEMMA GenFields ==
  ASSUME ServiceInv, NEW S \in SUBSET AllTokens,
         \A t \in S \ DOMAIN byId : gens[t] < MaxGen
  PROVE  /\ GenOf(S) \in [S -> Gens]
         /\ \A t \in S : /\ GenOf(S)[t] \in 0..MaxGen /\ gens[t] <= GenOf(S)[t]
                         /\ t \in DOMAIN byId => GenOf(S)[t] = gens[t]
                         /\ t \notin DOMAIN byId => GenOf(S)[t] = gens[t] + 1
<1>1. TypeOK /\ \A t \in DOMAIN byId : byId[t] = gens[t]
  BY DEF ServiceInv, EntriesRight
<1>2. PICK D \in SUBSET AllTokens : byId \in [D -> Gens]
  BY <1>1 DEF TypeOK
<1>3. ASSUME NEW t \in S
      PROVE  /\ GenOf(S)[t] \in Gens /\ gens[t] <= GenOf(S)[t]
             /\ t \in DOMAIN byId => GenOf(S)[t] = gens[t]
             /\ t \notin DOMAIN byId => GenOf(S)[t] = gens[t] + 1
  <2>1. gens[t] \in 0..MaxGen
    BY <1>1 DEF TypeOK
  <2>2. CASE t \in DOMAIN byId
    BY <1>1, <1>2, <2>1, <2>2 DEF GenOf
  <2>3. CASE t \notin DOMAIN byId
    BY <2>1, <2>3 DEF GenOf, Gens
  <2> QED
    BY <2>2, <2>3
<1>4. GenOf(S) \in [S -> Gens]
  BY <1>3 DEF GenOf
<1>5. Gens \subseteq 0..MaxGen
  BY DEF Gens
<1> QED
  BY <1>3, <1>4, <1>5

\* What a call is given: the entries of the tokens of the snapshot.
LEMMA AuthOfSnapshot ==
  ASSUME NEW S \in SUBSET AllTokens, NEW gen \in [S -> Gens]
  PROVE  LET ids == Ascending(S)
             auth == [i \in 1..Len(ids) |-> <<ids[i], gen[ids[i]]>>] IN
         /\ auth \in Auths
         /\ \A i \in DOMAIN auth : auth[i][1] \in S /\ auth[i][2] = gen[auth[i][1]]
<1> DEFINE ids == Ascending(S)
           auth == [i \in 1..Len(ids) |-> <<ids[i], gen[ids[i]]>>]
<1>1. IsFiniteSet(S) /\ S \in SUBSET Nat /\ Cardinality(S) <= Cardinality(AllTokens)
  BY SubsetFinite
<1>2. /\ Cardinality(S) \in 0..Cardinality(AllTokens)
      /\ ids \in [1..Cardinality(S) -> S] /\ Len(ids) = Cardinality(S)
  BY <1>1, AscendingLists, SizeType
<1> HIDE DEF ids
<1>3. auth \in [1..Cardinality(S) -> AuthEntries]
  BY <1>2 DEF AuthEntries
<1>4. auth \in Auths
  BY <1>2, <1>3, AuthType
<1>5. \A i \in DOMAIN auth : auth[i][1] \in S /\ auth[i][2] = gen[auth[i][1]]
  BY <1>2
<1> QED
  BY <1>4, <1>5 DEF ids

LEMMA InstallInv ==
  ASSUME ServiceInv, NEW c \in Callers, call[c].pc # "refresh",
         NEW r \in Call, r.tried = {}, r.auth = <<>>,
         NEW snap \in Snapshot, Install(c, r, snap),
         UNCHANGED <<strategy, row, told, editing, current, bounds>>,
         cache' \in [tokens: Snapshot, fresh: BOOLEAN]
  PROVE  ServiceInv'
<1> DEFINE S == DOMAIN snap
           gen == GenOf(S)
           ids == Ascending(S)
           auth == [i \in 1..Len(ids) |-> <<ids[i], gen[ids[i]]>>]
           new == [r EXCEPT !.pc = "select", !.snap = <<>>, !.auth = auth]
<1>1. TypeOK /\ S \in SUBSET AllTokens /\ \A t \in S : snap[t] \in Secrets
  BY SnapshotFields DEF ServiceInv
<1>2. CASE S = {}
  <2>1. /\ call' = [call EXCEPT ![c] = [r EXCEPT !.pc = "failed"]]
        /\ UNCHANGED <<byId, entry, gens>>
    BY <1>2 DEF Install
  <2> QED
    BY <2>1, InstallNothing
<1>3. CASE S # {}
  <2>1. /\ \A t \in S \ DOMAIN byId : gens[t] < MaxGen
        /\ byId' = gen
        /\ gens' = [t \in AllTokens |-> IF t \in S THEN gen[t] ELSE gens[t]]
        /\ entry' = [e \in DOMAIN entry |->
                       IF e[1] \in S \ DOMAIN byId /\ e[2] = gen[e[1]]
                       THEN NewEntry(snap[e[1]]) ELSE entry[e]]
        /\ call' = [call EXCEPT ![c] = new]
    <3>1. gen = [t \in S |-> IF t \in S \ DOMAIN byId THEN gens[t] + 1 ELSE byId[t]]
      BY DEF GenOf
    <3> HIDE DEF gen
    <3> QED
      BY <1>3, <3>1 DEF Install
  <2>2. /\ gen \in [S -> Gens]
        /\ \A t \in S : /\ gen[t] \in 0..MaxGen /\ gens[t] <= gen[t]
                        /\ t \in DOMAIN byId => gen[t] = gens[t]
                        /\ t \notin DOMAIN byId => gen[t] = gens[t] + 1
    BY <1>1, <2>1, GenFields
  <2>3. auth \in Auths /\ \A i \in DOMAIN auth : auth[i][1] \in S /\ auth[i][2] = gen[auth[i][1]]
    <3> HIDE DEF gen, S
    <3> QED
      BY <1>1, <2>2, AuthOfSnapshot
  <2> HIDE DEF auth, gen, ids
  <2>4. /\ new \in Call /\ new.pc = "select" /\ new.auth = auth /\ new.tried = {}
    <3>1. <<>> \in Snapshot
      BY IdleType DEF Idle, Call
    <3> QED
      BY <2>3, <3>1 DEF Call, PCs
  <2> HIDE DEF new, S
  <2>5. /\ call' \in [Callers -> Call] /\ call'[c] = new
        /\ \A d \in Callers \ {c} : call'[d] = call[d]
    BY <1>1, <2>1, <2>4 DEF TypeOK
  <2>6. /\ gens' \in [AllTokens -> 0..MaxGen]
        /\ \A t \in AllTokens : gens[t] <= gens'[t] /\ gens[t] \in Int /\ gens'[t] \in Int
        /\ \A t \in S : gens'[t] = gen[t]
    <3>1. \A t \in AllTokens : gens[t] \in 0..MaxGen
      BY <1>1 DEF TypeOK
    <3>2. \A t \in AllTokens : gens'[t] = IF t \in S THEN gen[t] ELSE gens[t]
      BY <2>1
    <3>3. ASSUME NEW t \in AllTokens
          PROVE  gens'[t] \in 0..MaxGen /\ gens[t] <= gens'[t] /\ gens[t] \in Int /\ gens'[t] \in Int
      <4>1. CASE t \in S
        BY <2>2, <3>1, <3>2, <4>1
      <4>2. CASE t \notin S
        <5>1. gens'[t] = gens[t] /\ gens[t] \in 0..MaxGen
          BY <3>1, <3>2, <4>2
        <5> QED
          BY <5>1
      <4> QED
        BY <4>1, <4>2
    <3>4. gens' \in [AllTokens -> 0..MaxGen]
      BY <2>1, <3>2, <3>3
    <3> QED
      BY <1>1, <3>2, <3>3, <3>4
  <2>7. ASSUME NEW e \in AuthEntries
        PROVE  \/ entry'[e] = entry[e]
               \/ /\ e[1] \in S \ DOMAIN byId /\ e[2] = gens[e[1]] + 1
                  /\ entry'[e] = NewEntry(snap[e[1]])
    BY <1>1, <2>1, <2>2 DEF TypeOK, AuthEntries
  <2>8. \A t \in S : /\ NewEntry(snap[t]) \in Entry /\ ~NewEntry(snap[t]).refreshing
                     /\ NewEntry(snap[t]).errors = 0
    BY <1>1 DEF NewEntry, Entry
  <2>9. TypeOK'
    <3>1. entry' \in [AllTokens \X Gens -> Entry]
      <4>1. ASSUME NEW e \in AuthEntries PROVE entry'[e] \in Entry
        <5>1. entry[e] \in Entry
          BY <1>1, EntryFields
        <5>2. CASE entry'[e] = entry[e]
          BY <5>1, <5>2
        <5>3. CASE e[1] \in S /\ entry'[e] = NewEntry(snap[e[1]])
          BY <2>8, <5>3
        <5> QED
          BY <2>7, <5>2, <5>3
      <4>2. DOMAIN entry = AuthEntries
        BY <1>1 DEF TypeOK, AuthEntries
      <4> QED
        BY <2>1, <4>1, <4>2 DEF AuthEntries
    <3>2. byId' \in UNION {[T -> Gens] : T \in SUBSET AllTokens}
      BY <1>1, <2>1, <2>2
    <3> QED
      BY <1>1, <2>5, <2>6, <3>1, <3>2 DEF TypeOK, bounds
  <2>10. ASSUME NEW d \in Callers, NEW i \in DOMAIN call[d].auth
         PROVE  /\ call[d].auth[i] \in AuthEntries
                /\ call[d].auth[i][2] <= gens[call[d].auth[i][1]]
                /\ entry'[call[d].auth[i]] = entry[call[d].auth[i]]
                /\ call[d].auth[i][2] <= gens'[call[d].auth[i][1]]
    <3> DEFINE e == call[d].auth[i]
    <3>1. e \in AuthEntries /\ e[2] <= gens[e[1]]
      BY <1>1, CallFields, AuthFields DEF ServiceInv, CallsRight, ShapeOf
    <3>2. e[1] \in AllTokens /\ e[2] \in Int
      BY <3>1 DEF AuthEntries, Gens
    <3> HIDE DEF e
    <3>3. e[2] # gens[e[1]] + 1 /\ e[2] <= gens'[e[1]]
      <4>1. gens[e[1]] \in Int /\ gens'[e[1]] \in Int /\ gens[e[1]] <= gens'[e[1]]
        BY <2>6, <3>2
      <4> QED
        BY <3>1, <3>2, <4>1
    <3>4. entry'[e] = entry[e]
      BY <2>7, <3>1, <3>3
    <3> QED
      BY <3>1, <3>3, <3>4 DEF e
  <2>11. CallsRight'
    <3>1. ASSUME NEW d \in Callers, d # c PROVE ShapeOf(call[d])' /\ TriedOf(call[d])'
      <4>1. call'[d] = call[d] /\ ShapeOf(call[d]) /\ TriedOf(call[d])
        BY <2>5, <3>1 DEF ServiceInv, CallsRight
      <4>2. ShapeOf(call[d])'
        BY <2>10, <4>1 DEF ShapeOf
      <4>3. \A i \in DOMAIN call[d].auth : entry'[call[d].auth[i]] = entry[call[d].auth[i]]
        BY <2>10
      <4>4. call[d].tried \subseteq DOMAIN call[d].auth
        BY <4>1 DEF ShapeOf
      <4>5. call[d].pc \in Busy => call[d].idx \in DOMAIN call[d].auth
        BY <4>1, <4>4 DEF ShapeOf
      <4>6. TriedOf(call[d])'
        BY <4>1, <4>3, <4>4, <4>5 DEF TriedOf, Busy
      <4> QED
        BY <4>2, <4>6
    <3>2. ASSUME NEW i \in DOMAIN auth PROVE auth[i][2] <= gens'[auth[i][1]]
      <4>1. PICK t \in S : t = auth[i][1]
        BY <2>3
      <4>2. auth[i][2] = gen[t] /\ gens'[t] = gen[t] /\ gens'[t] \in Int
        BY <1>1, <2>3, <2>6, <4>1
      <4> QED
        BY <4>1, <4>2
    <3>3. ShapeOf(call[c])' /\ TriedOf(call[c])'
      BY <2>4, <2>5, <3>2 DEF ShapeOf, TriedOf, Busy
    <3> QED
      BY <3>1, <3>3 DEF CallsRight
  <2>12. SingleFlight'
    <3>1. \A d \in Callers : call'[d].pc = "refresh" <=> call[d].pc = "refresh"
      BY <2>4, <2>5
    <3>2. \A d \in Callers : call[d].pc = "refresh" => Mine(d)' = Mine(d) /\ call'[d] = call[d]
      BY <2>5 DEF Mine
    <3>3. \A d \in Callers, e \in AuthEntries : Flying(d, e)' <=> Flying(d, e)
      BY <3>1, <3>2 DEF Flying
    <3>4. ASSUME NEW e \in AuthEntries
          PROVE  entry'[e].refreshing <=> \E d \in Callers : Flying(d, e)
      <4>1. CASE entry'[e] = entry[e]
        BY <4>1 DEF ServiceInv, SingleFlight
      <4>2. CASE entry'[e] # entry[e]
        <5>1. ~entry'[e].refreshing
          BY <2>7, <2>8, <4>2
        <5>2. ASSUME NEW d \in Callers, Flying(d, e) PROVE FALSE
          <6>1. call[d].idx \in DOMAIN call[d].auth /\ e = call[d].auth[call[d].idx]
            BY <5>2, MineFields DEF Flying, Busy
          <6> QED
            BY <2>10, <4>2, <6>1
        <5> QED
          BY <5>1, <5>2
      <4> QED
        BY <4>1, <4>2
    <3>5. \A d, f \in Callers :
            call'[d].pc = "refresh" /\ call'[f].pc = "refresh" /\ Mine(d)' = Mine(f)' => d = f
      BY <3>1, <3>2 DEF ServiceInv, SingleFlight
    <3>6. \A e \in AuthEntries : entry'[e].refreshing <=> \E d \in Callers : Flying(d, e)'
      BY <3>3, <3>4
    <3> QED
      BY <3>5, <3>6 DEF SingleFlight
  <2>13. EntriesRight'
    <3>1. ASSUME NEW e \in AuthEntries
          PROVE  /\ entry'[e].refreshing => ~entry'[e].valid /\ ~entry'[e].backoff
                 /\ entry'[e].errors <= failures'
      <4>1. failures' = failures /\ failures \in Nat
        BY <1>1 DEF bounds, TypeOK
      <4> QED
        BY <2>7, <2>8, <4>1 DEF ServiceInv, EntriesRight
    <3>2. \A t \in DOMAIN byId' : byId'[t] = gens'[t]
      BY <2>1, <2>2, <2>6
    <3> QED
      BY <3>1, <3>2 DEF EntriesRight
  <2> QED
    BY <2>9, <2>11, <2>12, <2>13 DEF ServiceInv
<1> QED
  BY <1>2, <1>3

LEMMA BeginInv ==
  ASSUME ServiceInv, NEW c \in Callers, Begin(c)
  PROVE  ServiceInv'
<1> DEFINE r == [Idle EXCEPT !.told = told]
<1>1. TypeOK /\ call[c].pc = "idle" /\ cache' = cache
  BY DEF ServiceInv, Begin
<1>2. /\ r \in Call /\ r.pc = "idle" /\ r.tried = {} /\ r.auth = <<>>
  <2>1. told \in Rows \union {<<>>}
    BY <1>1 DEF TypeOK
  <2>2. r \in Call
    BY <2>1, IdleType DEF Call
  <2> QED
    BY <2>2 DEF Idle
<1>3. cache' \in [tokens: Snapshot, fresh: BOOLEAN] /\ cache.tokens \in Snapshot
  BY <1>1 DEF TypeOK
<1>4. UNCHANGED <<strategy, row, told, editing, current, bounds>>
  BY DEF Begin
<1>5. \/ Install(c, r, cache.tokens)
      \/ /\ call' = [call EXCEPT ![c] = [r EXCEPT !.pc = "load"]]
         /\ UNCHANGED <<byId, entry, gens>>
  BY DEF Begin
<1> HIDE DEF r
<1>6. CASE Install(c, r, cache.tokens)
  BY <1>1, <1>2, <1>3, <1>4, <1>6, InstallInv
<1>7. CASE /\ call' = [call EXCEPT ![c] = [r EXCEPT !.pc = "load"]]
           /\ UNCHANGED <<byId, entry, gens>>
  <2> DEFINE new == [r EXCEPT !.pc = "load"]
  <2>1. /\ new \in Call /\ new.pc = "load" /\ new.tried = {} /\ new.auth = <<>>
    <3>1. "load" \in PCs
      BY DEF PCs
    <3> QED
      BY <1>2, <3>1, PcFields
  <2>2. call' = [call EXCEPT ![c] = new]
    BY <1>7
  <2> HIDE DEF new
  <2>3. ShapeOf(new) /\ TriedOf(new)
    BY <2>1 DEF ShapeOf, TriedOf, Busy
  <2>4. TypeOK'
    <3>1. call' \in [Callers -> Call]
      BY <1>1, <2>1, <2>2 DEF TypeOK
    <3> QED
      BY <1>1, <1>4, <1>7, <3>1 DEF TypeOK, bounds
  <2>5. failures' = failures
    BY <1>4 DEF bounds
  <2> QED
    BY <1>1, <1>7, <2>1, <2>2, <2>3, <2>4, <2>5, CallMoves
<1> QED
  BY <1>5, <1>6, <1>7

LEMMA StoreInv ==
  ASSUME ServiceInv, NEW c \in Callers, Store(c)
  PROVE  ServiceInv'
<1>1. TypeOK /\ call[c].pc = "store" /\ call[c] \in Call /\ call[c].snap \in Snapshot
  BY CallFields DEF ServiceInv, Store
<1>2. call[c].auth = <<>> /\ call[c].tried = {}
  BY <1>1 DEF ServiceInv, CallsRight, ShapeOf
<1>3. cache' \in [tokens: Snapshot, fresh: BOOLEAN]
  BY <1>1 DEF Store
<1>4. /\ Install(c, call[c], call[c].snap)
      /\ UNCHANGED <<strategy, row, told, editing, current, bounds>>
  BY DEF Store
<1> QED
  BY <1>1, <1>2, <1>3, <1>4, InstallInv

LEMMA InvStep == ServiceInv /\ [Next]_vars => ServiceInv'
<1> SUFFICES ASSUME ServiceInv, [Next]_vars PROVE ServiceInv'
  OBVIOUS
<1>1. ASSUME NEW c \in Callers, Begin(c) PROVE ServiceInv'
  BY <1>1, BeginInv
<1>2. ASSUME NEW c \in Callers, Step(c) PROVE ServiceInv'
  BY <1>2, LoadInv, StoreInv, SelectInv, RefreshOkInv, RefreshFailInv, ReadyInv DEF Step
<1>3. ASSUME NEW c \in Callers, Again(c) PROVE ServiceInv'
  BY <1>3, AgainInv
<1>4. ASSUME NEW t \in Tokens, Edit(t) PROVE ServiceInv'
  BY <1>4, EditInv
<1>5. ASSUME Invalidate \/ CacheExpires PROVE ServiceInv'
  BY <1>5, CacheInv
<1>6. ASSUME NEW e \in AllTokens \X Gens, AccessExpires(e) \/ BackoffEnds(e) PROVE ServiceInv'
  BY <1>6, ExpiresInv DEF AuthEntries
<1>7. ASSUME UNCHANGED vars PROVE ServiceInv'
  <2>1. TypeOK' /\ UNCHANGED <<byId, entry, gens, call, failures>>
    BY <1>7 DEF vars, bounds, ServiceInv, TypeOK
  <2> QED
    BY <2>1, RowsMove
<1> QED
  BY <1>1, <1>2, <1>3, <1>4, <1>5, <1>6, <1>7 DEF Next

LEMMA AlwaysInv == Spec => []ServiceInv
BY InitInv, InvStep, PTL DEF Spec

-----------------------------------------------------------------------------
(***************************************************************************)
(* The theorems.                                                           *)
(***************************************************************************)

\* The rows, the snapshot, the entries and every call keep their types, for any
\* number of tokens, calls, failures and generations.
THEOREM TypeCorrect == Spec => []TypeOK
<1>1. ServiceInv => TypeOK
  BY DEF ServiceInv
<1> QED
  BY <1>1, AlwaysInv, PTL

\* Single flight of the refresh (pixivAuthService.ts, ensureAccessTokenReady):
\* the refreshing flag of an entry is set exactly while one call has a request
\* in flight for it, however calls, failures, expiries and re-installs of the
\* entries interleave.
THEOREM OneRefreshAlways == Spec => []OneRefreshPerEntry
<1>1. ASSUME ServiceInv, NEW e \in AuthEntries
      PROVE  Cardinality({c \in Callers : call[c].pc = "refresh" /\ Mine(c) = e})
               = (IF entry[e].refreshing THEN 1 ELSE 0)
  <2> DEFINE F == {c \in Callers : call[c].pc = "refresh" /\ Mine(c) = e}
  <2>1. entry[e].refreshing <=> \E c \in Callers : call[c].pc = "refresh" /\ Mine(c) = e
    BY <1>1 DEF ServiceInv, SingleFlight, Flying
  <2>2. CASE entry[e].refreshing
    <3>1. PICK c \in Callers : call[c].pc = "refresh" /\ Mine(c) = e
      BY <2>1, <2>2
    <3>2. F = {c}
      BY <1>1, <3>1 DEF ServiceInv, SingleFlight
    <3> QED
      BY <2>2, <3>2, FS_Singleton
  <2>3. CASE ~entry[e].refreshing
    <3>1. F = {}
      BY <2>1, <2>3
    <3> QED
      BY <2>3, <3>1, FS_EmptySet
  <2> QED
    BY <2>2, <2>3
<1>2. ServiceInv => OneRefreshPerEntry
  BY <1>1 DEF OneRefreshPerEntry, AuthEntries
<1> QED
  BY <1>2, AlwaysInv, PTL

\* What the loop of a call leaves behind when it gives up.
LEMMA SelectFails ==
  ASSUME ServiceInv, NEW c \in Callers, Select(c), call'[c].pc = "failed",
         ~call[c].aged, NEW i \in DOMAIN call[c].auth, i \notin call[c].tried
  PROVE  entry[call[c].auth[i]].backoff
<1> DEFINE auth == call[c].auth
           tried == call[c].tried
<1>1. /\ TypeOK /\ auth \in Auths /\ ShapeOf(call[c]) /\ TriedOf(call[c])
      /\ call[c].pc = "select"
  BY CallFields DEF ServiceInv, CallsRight, Select
<1>2. tried \subseteq DOMAIN auth /\ DOMAIN auth = 1..Len(auth) /\ Len(auth) \in Nat
  BY <1>1, AuthFields, SizeType DEF ShapeOf
<1>3. CASE Candidates(auth) = {}
  BY <1>1, <1>3, CandidatesEligible DEF Eligible
<1>4. Cardinality(tried) < Len(auth) /\ Cardinality(tried) \in Nat
  <2> DEFINE I == 1..Len(auth)
  <2>1. IsFiniteSet(I) /\ Cardinality(I) = Len(auth)
    BY <1>2, FS_Interval
  <2>2. i \in I /\ tried \subseteq I \ {i}
    BY <1>2
  <2> HIDE DEF I
  <2>3. IsFiniteSet(I \ {i}) /\ Cardinality(I \ {i}) = Len(auth) - 1
    BY <2>1, <2>2, FS_RemoveElement
  <2> HIDE DEF tried
  <2>4. Cardinality(tried) <= Len(auth) - 1 /\ Cardinality(tried) \in Nat
    BY <2>2, <2>3, SubsetFinite
  <2> QED
    BY <1>2, <2>4
<1>5. CASE Candidates(auth) # {}
  <2>1. Cardinality(tried) # Len(auth)
    BY <1>2, <1>4
  <2>2. PICK k \in Candidates(auth) :
          IF k \in tried
          THEN call' = [call EXCEPT ![c].pc = "failed"] /\ UNCHANGED entry
          ELSE call' = [call EXCEPT ![c].pc = ReadyPC(entry[auth[k]]), ![c].idx = k,
                                    ![c].tried = @ \union {k}]
    BY <1>5, <2>1 DEF Select
  <2>3. ~entry[auth[k]].backoff
    BY <1>1, CandidatesEligible DEF Eligible
  <2>4. k \notin tried
    BY <1>1, <2>3 DEF TriedOf, Busy
  <2>5. call'[c].pc = ReadyPC(entry[auth[k]])
    BY <1>1, <2>2, <2>4 DEF TypeOK, Call
  <2>6. ReadyPC(entry[auth[k]]) # "failed"
    BY DEF ReadyPC
  <2> QED
    BY <2>5, <2>6
<1> QED
  BY <1>3, <1>5

\* A step of one call leaves the others where they are.
LEMMA OthersStay ==
  ASSUME TypeOK, NEW c \in Callers, NEW d \in Callers, c # d,
         Begin(d) \/ Step(d) \/ Again(d)
  PROVE  call'[c] = call[c]
<1>2. CASE Begin(d)
  BY <1>2 DEF Begin, Install, TypeOK
<1>3. CASE Again(d)
  BY <1>3 DEF Again, TypeOK
<1>4. CASE Step(d)
  <2>1. CASE Load(d)
    BY <2>1 DEF Load, TypeOK
  <2>2. CASE Store(d)
    BY <2>2 DEF Store, Install, TypeOK
  <2>3. CASE Select(d)
    BY <2>3 DEF Select, TypeOK
  <2>4. CASE RefreshOk(d)
    BY <2>4 DEF RefreshOk, TypeOK
  <2>5. CASE RefreshFail(d)
    BY <2>5 DEF RefreshFail, TypeOK
  <2>6. CASE Poll(d)
    BY <2>6 DEF Poll, TypeOK
  <2>7. CASE Use(d)
    BY <2>7 DEF Use, TypeOK
  <2> QED
    BY <1>4, <2>1, <2>2, <2>3, <2>4, <2>5, <2>6, <2>7 DEF Step
<1> QED
  BY <1>2, <1>3, <1>4

\* The steps of a call that may give it up: it begins or stores without a token,
\* or its loop is over.
LEMMA WhoFails ==
  ASSUME ServiceInv, NEW c \in Callers, [Next]_vars,
         call[c].pc # "failed", call'[c].pc = "failed"
  PROVE  call[c].pc \in {"idle", "store"} \/ Select(c)
<1>1. TypeOK /\ call[c] \in Call /\ call'[c] # call[c]
  BY CallFields DEF ServiceInv
<1>2. ASSUME NEW d \in Callers, Begin(d) \/ Step(d) \/ Again(d)
      PROVE  call[c].pc \in {"idle", "store"} \/ Select(c)
  <2>1. d = c
    BY <1>1, <1>2, OthersStay
  <2>2. CASE Begin(c)
    BY <2>2 DEF Begin
  <2>3. ~Again(c)
    BY <1>1 DEF Again, Idle, TypeOK
  <2>4. ~Load(c)
    BY <1>1 DEF Load, TypeOK, Call
  <2>5. CASE Store(c)
    BY <2>5 DEF Store
  <2>6. ~RefreshOk(c)
    BY <1>1 DEF RefreshOk, TypeOK, Call
  <2>7. ~RefreshFail(c)
    BY <1>1 DEF RefreshFail, TypeOK, Call
  <2>8. ~Poll(c) /\ ~Use(c)
    BY <1>1 DEF Poll, Use, TypeOK, Call
  <2> QED
    BY <1>2, <2>1, <2>2, <2>3, <2>4, <2>5, <2>6, <2>7, <2>8 DEF Step
<1>3. ASSUME NEW t \in Tokens, Edit(t) PROVE FALSE
  BY <1>1, <1>3 DEF Edit
<1>4. ~Invalidate /\ ~CacheExpires /\ ~UNCHANGED vars
  BY <1>1 DEF Invalidate, CacheExpires, vars
<1>5. ASSUME NEW e \in AllTokens \X Gens, AccessExpires(e) \/ BackoffEnds(e) PROVE FALSE
  <2>1. call' = Aged
    BY <1>5 DEF AccessExpires, BackoffEnds
  <2>2. PICK b : call'[c] = [call[c] EXCEPT !.aged = b]
    BY <2>1 DEF Aged
  <2>3. call'[c].pc = call[c].pc
    BY <1>1, <2>2 DEF Call
  <2> QED
    BY <2>3
<1> QED
  BY <1>2, <1>3, <1>4, <1>5 DEF Next

\* The loop of getAccessTokenWithMeta misses no token: unless a backoff ended or a
\* token expired meanwhile, a call that throws has tried every entry that it was
\* given or finds it in backoff, under every strategy and whatever other calls
\* did to the shared index and to the entries.
THEOREM GivesUpOnlyLast == Spec => GivesUpLast
<1>1. ASSUME ServiceInv, [Next]_vars, NEW c \in Callers,
             call[c].pc # "failed", call'[c].pc = "failed", ~call[c].aged,
             NEW i \in DOMAIN call[c].auth
      PROVE  i \in call[c].tried \/ entry[call[c].auth[i]].backoff
  <2>1. CASE call[c].pc \in {"idle", "store"}
    <3>1. call[c].auth = <<>>
      BY <1>1, <2>1 DEF ServiceInv, CallsRight, ShapeOf
    <3> QED
      BY <1>1, <3>1
  <2>2. CASE Select(c)
    BY <1>1, <2>2, SelectFails
  <2> QED
    BY <1>1, <2>1, <2>2, WhoFails
<1>2. ServiceInv /\ [Next]_vars =>
        [\A c \in Callers :
           call[c].pc # "failed" /\ call'[c].pc = "failed" /\ ~call[c].aged =>
             \A i \in DOMAIN call[c].auth :
               i \in call[c].tried \/ entry[call[c].auth[i]].backoff]_vars
  BY <1>1
<1> QED
  BY <1>2, AlwaysInv, PTL DEF Spec, GivesUpLast
=============================================================================
