------------------------ MODULE ProxyFailoverProofs ------------------------
(***************************************************************************)
(* Theorems about ProxyFailover for any finite set of proxies, any number  *)
(* of switches, any window and any number of events.                       *)
(***************************************************************************)
EXTENDS ProxyFailover, FiniteSetTheorems, SequenceTheorems, TLAPS

USE FailoverAssumption DEF FailoverAssumption

-----------------------------------------------------------------------------
(***************************************************************************)
(* Types.                                                                  *)
(***************************************************************************)

LEMMA RequestFields ==
  ASSUME NEW r \in Request
  PROVE  /\ r.pc \in PCs /\ r.kind \in Kinds /\ r.old \in BOOLEAN
         /\ r.rows \subseteq Proxies /\ r.cands \subseteq Proxies
         /\ r.failed \subseteq Proxies /\ r.sure \subseteq Proxies
         /\ r.turn \in 0..MaxTokenSwitches /\ r.tries \in 0..MaxProxySwitches
  BY DEF Request

LEMMA NoRequestType == NoRequest \in Request
  BY DEF NoRequest, Request, PCs, Kinds

LEMMA EndType ==
  ASSUME NEW pc \in PCs
  PROVE  End(pc) \in Request
  BY NoRequestType DEF End, Request

\* What a request becomes when it has its candidates.
LEMMA WithCandidatesType ==
  ASSUME NEW kind \in Kinds, NEW rows \in SUBSET Proxies
  PROVE  WithCandidates(kind, rows) \subseteq Request
<1> DEFINE usable == {p \in rows : Usable(p)}
           go == [NoRequest EXCEPT !.pc = IF kind = "detail" THEN "token" ELSE "try",
                                   !.kind = kind, !.cands = usable]
<1>1. usable \in SUBSET Proxies
  OBVIOUS
<1>2. go \in Request
  <2> HIDE DEF usable
  <2> QED
    BY <1>1, NoRequestType DEF Request, PCs
<1>3. End("direct") \in Request /\ End("refused") \in Request
  BY EndType DEF PCs
<1> HIDE DEF go
<1>4. WithCandidates(kind, rows) \subseteq {End("direct"), End("refused"), go}
  BY DEF WithCandidates, go
<1> QED
  BY <1>2, <1>3, <1>4

LEMMA NextTokenType ==
  ASSUME NEW r \in Request
  PROVE  NextToken(r) \in Request
<1>1. r.turn < MaxTokenSwitches => r.turn + 1 \in 0..MaxTokenSwitches
  BY RequestFields
<1>2. 0 \in 0..MaxProxySwitches
  OBVIOUS
<1> QED
  BY <1>1, <1>2 DEF NextToken, Request, PCs

LEMMA NextTryType ==
  ASSUME NEW r \in Request
  PROVE  NextTry(r) \in Request
<1>1. r.tries < MaxProxySwitches => r.tries + 1 \in 0..MaxProxySwitches
  BY RequestFields
<1>2. r.tries < MaxProxySwitches => [r EXCEPT !.tries = @ + 1] \in Request
  BY <1>1 DEF Request
<1> QED
  BY <1>2, NextTokenType DEF NextTry

LEMMA FailedType ==
  ASSUME NEW r \in Request, NEW p \in Proxies
  PROVE  [r EXCEPT !.failed = @ \union {p}] \in Request
<1>1. r.failed \union {p} \in SUBSET Proxies
  BY RequestFields
<1> QED
  BY <1>1 DEF Request

\* A window stays a window, whatever is recorded.
LEMMA RecordType ==
  ASSUME NEW s \in Windows, NEW x \in Lines, NEW w \in 1..WindowSize
  PROVE  Record(s, x, w) \in Windows
<1> DEFINE t == Append(s, x)
           from == IF Len(t) > w THEN Len(t) - w + 1 ELSE 1
<1>1. PICK n \in 0..WindowSize : s \in [1..n -> Lines]
  BY DEF Windows
<1>2. s \in Seq(Lines) /\ Len(s) = n
  BY <1>1
<1>3. t \in Seq(Lines) /\ Len(t) = n + 1
  BY <1>2, AppendProperties
<1>4. from \in 1..(n + 1) /\ Len(t) - from + 1 \in 0..WindowSize
  <2> HIDE DEF t
  <2> QED
    BY <1>3
<1>5. Record(s, x, w) = SubSeq(t, from, Len(t))
  BY DEF Record
<1> HIDE DEF t, from
<1>6. /\ SubSeq(t, from, Len(t)) \in Seq(Lines)
      /\ Len(SubSeq(t, from, Len(t))) = Len(t) - from + 1
  BY <1>3, <1>4, SubSeqProperties
<1>7. SubSeq(t, from, Len(t)) \in [1..(Len(t) - from + 1) -> Lines]
  BY <1>6, LenProperties
<1> QED
  BY <1>4, <1>5, <1>7 DEF Windows

LEMMA NoCheckType == NoCheck \in Check
  BY DEF NoCheck, Check

LEMMA AfterType ==
  ASSUME check \in Check, NEW p \in Proxies
  PROVE  After(p) \in Check
<1>1. check.todo \ {p} \in SUBSET Proxies
  BY DEF Check
<1> QED
  BY <1>1, NoCheckType DEF After, Check

LEMMA TypeInit == Init => TypeOK
<1> SUFFICES ASSUME Init PROVE TypeOK
  OBVIOUS
<1>1. <<>> \in Windows
  <2>1. <<>> \in [1..0 -> Lines]
    BY EmptySeq, LenProperties
  <2> QED
    BY <2>1 DEF Windows
<1>2. samples \in [Proxies -> Windows]
  BY <1>1 DEF Init
<1>3. line \in [Proxies -> Lines] /\ row \in [Proxies -> BOOLEAN]
  BY DEF Init, Lines
<1>4. cache \in [known: BOOLEAN, rows: SUBSET Proxies]
  BY DEF Init, NoCache
<1>5. events \in 0..MaxEvents
  BY DEF Init
<1> QED
  BY <1>2, <1>3, <1>4, <1>5, NoCheckType, NoRequestType DEF Init, TypeOK

\* The conjuncts of TypeOK, by the steps that change them.
LEMMA CheckSteps ==
  ASSUME TypeOK, Tick \/ CheckQuery \/ \E p \in Proxies : ProbeEnds(p) \/ AdminProbe(p)
  PROVE  TypeOK'
<1> USE DEF TypeOK, ghosts, health
<1>1. CASE Tick
  BY <1>1, NoCheckType DEF Tick, Check
<1>2. CASE CheckQuery
  <2>1. EnabledRows \in SUBSET Proxies
    BY DEF EnabledRows
  <2>2. [check EXCEPT !.stage = "probe", !.todo = EnabledRows] \in Check
    BY <2>1 DEF Check
  <2>3. check' \in Check
    BY <1>2, <2>2, NoCheckType DEF CheckQuery
  <2>4. events' \in 0..MaxEvents
    BY <1>2 DEF CheckQuery, Event
  <2> QED
    BY <1>2, <2>3, <2>4 DEF CheckQuery
<1>3. ASSUME NEW p \in Proxies, ProbeEnds(p) PROVE TypeOK'
  <2>1. check' \in Check
    BY <1>3, AfterType DEF ProbeEnds
  <2>2. check.window \in 1..WindowSize /\ line[p] \in Lines /\ "dead" \in Lines
    BY DEF Check, Lines
  <2>3. /\ Record(samples[p], line[p], check.window) \in Windows
        /\ Record(samples[p], "dead", check.window) \in Windows
    BY <2>2, RecordType
  <2>4. samples' \in [Proxies -> Windows]
    BY <1>3, <2>3 DEF ProbeEnds
  <2>5. events' \in 0..MaxEvents
    BY <1>3 DEF ProbeEnds, Event
  <2> QED
    BY <1>3, <2>1, <2>4, <2>5 DEF ProbeEnds
<1>4. ASSUME NEW p \in Proxies, AdminProbe(p) PROVE TypeOK'
  <2>1. check' \in Check
    BY <1>4 DEF AdminProbe, Check
  <2>2. events' \in 0..MaxEvents
    BY <1>4 DEF AdminProbe, Event
  <2> QED
    BY <1>4, <2>1, <2>2 DEF AdminProbe
<1> QED
  BY <1>1, <1>2, <1>3, <1>4

LEMMA LoadSteps ==
  ASSUME TypeOK, (\E kind \in Kinds : Begin(kind)) \/ Query \/ Store \/ QueryFails
  PROVE  TypeOK'
<1> USE DEF TypeOK, ghosts, health
<1>1. ASSUME NEW kind \in Kinds, Begin(kind) PROVE TypeOK'
  <2>1. cache.rows \in SUBSET Proxies
    OBVIOUS
  <2>2. Proxies \ changed \in SUBSET Proxies
    OBVIOUS
  <2>3. [NoRequest EXCEPT !.pc = "query", !.kind = kind, !.sure = Proxies \ changed]
          \in Request
    BY <2>2, NoRequestType DEF Request, PCs
  <2>4. req' \in Request /\ timer' \in BOOLEAN
    BY <1>1, <2>1, <2>3, WithCandidatesType DEF Begin
  <2> QED
    BY <1>1, <2>4 DEF Begin
<1>2. CASE Query
  <2>1. EnabledRows \in SUBSET Proxies
    BY DEF EnabledRows
  <2>2. [req EXCEPT !.pc = "store", !.rows = EnabledRows] \in Request
    BY <2>1 DEF Request, PCs
  <2> QED
    BY <1>2, <2>2 DEF Query
<1>3. CASE Store
  <2>1. req.rows \in SUBSET Proxies /\ req.kind \in Kinds
    BY RequestFields
  <2>2. req' \in Request
    BY <1>3, <2>1, WithCandidatesType DEF Store
  <2>3. cache' \in [known: BOOLEAN, rows: SUBSET Proxies]
    BY <1>3, <2>1 DEF Store, NoCache
  <2> QED
    BY <1>3, <2>2, <2>3 DEF Store
<1>4. CASE QueryFails
  <2>1. req.kind \in Kinds
    BY RequestFields
  <2>2. req' \in Request
    BY <1>4, <2>1, WithCandidatesType DEF QueryFails
  <2>3. cache' \in [known: BOOLEAN, rows: SUBSET Proxies]
    BY <1>4 DEF QueryFails, NoCache
  <2>4. events' \in 0..MaxEvents
    BY <1>4 DEF QueryFails, Event
  <2> QED
    BY <1>4, <2>2, <2>3, <2>4 DEF QueryFails
<1> QED
  BY <1>1, <1>2, <1>3, <1>4

LEMMA AttemptSteps ==
  ASSUME TypeOK, GetToken \/ Answer \/ ProxyFails \/ Again
  PROVE  TypeOK'
<1>1. req \in Request
  BY DEF TypeOK
<1>2. CASE GetToken
  <2>1. [req EXCEPT !.pc = "try"] \in Request
    BY <1>1 DEF Request, PCs
  <2>2. End("failed") \in Request
    BY EndType DEF PCs
  <2>3. NextToken(req) \in Request
    BY <1>1, NextTokenType
  <2>4. req' \in Request
    BY <1>2, <2>1, <2>2, <2>3 DEF GetToken
  <2> QED
    BY <1>2, <2>4 DEF GetToken, TypeOK, ghosts, health
<1>3. CASE Answer
  <2>1. End("served") \in Request /\ End("failed") \in Request
    BY EndType DEF PCs
  <2>2. req' \in Request
    BY <1>3, <2>1 DEF Answer
  <2> QED
    BY <1>3, <2>2 DEF Answer, TypeOK, ghosts, health
<1>4. CASE ProxyFails
  <2>1. PICK p \in Untried(req) : req' = NextTry([req EXCEPT !.failed = @ \union {p}])
    BY <1>4 DEF ProxyFails
  <2>2. p \in Proxies
    BY <1>1, RequestFields DEF Untried
  <2>3. req' \in Request
    BY <1>1, <2>1, <2>2, FailedType, NextTryType
  <2> QED
    BY <1>4, <2>3 DEF ProxyFails, TypeOK, ghosts, health
<1>5. CASE Again
  BY <1>5, NoRequestType DEF Again, TypeOK, ghosts, health
<1> QED
  BY <1>2, <1>3, <1>4, <1>5

LEMMA WorldSteps ==
  ASSUME TypeOK, (\E p \in Proxies : Edit(p) \/ Turn(p)) \/ Invalidate \/ Second
  PROVE  TypeOK'
<1> USE DEF TypeOK, ghosts, health
<1>1. ASSUME NEW p \in Proxies, Edit(p) PROVE TypeOK'
  <2>1. req.sure \ {p} \in SUBSET Proxies
    BY RequestFields
  <2>2. [req EXCEPT !.sure = @ \ {p}] \in Request
    BY <2>1 DEF Request
  <2>3. row' \in [Proxies -> BOOLEAN] /\ changed' \in SUBSET Proxies
    BY <1>1 DEF Edit
  <2>4. events' \in 0..MaxEvents
    BY <1>1 DEF Edit, Event
  <2> QED
    BY <1>1, <2>2, <2>3, <2>4 DEF Edit
<1>2. ASSUME NEW p \in Proxies, Turn(p) PROVE TypeOK'
  <2>1. line' \in [Proxies -> Lines]
    BY <1>2 DEF Turn
  <2>2. events' \in 0..MaxEvents
    BY <1>2 DEF Turn, Event
  <2> QED
    BY <1>2, <2>1, <2>2 DEF Turn
<1>3. CASE Invalidate
  BY <1>3 DEF Invalidate, NoCache
<1>4. CASE Second
  <2>1. [req EXCEPT !.old = TRUE] \in Request
    BY DEF Request
  <2> QED
    BY <1>4, <2>1 DEF Second, NoCache
<1> QED
  BY <1>1, <1>2, <1>3, <1>4

LEMMA TypeStep == TypeOK /\ [Next]_vars => TypeOK'
<1>1. ASSUME TypeOK, Next PROVE TypeOK'
  BY <1>1, CheckSteps, LoadSteps, AttemptSteps, WorldSteps DEF Next
<1>2. ASSUME TypeOK, UNCHANGED vars PROVE TypeOK'
  BY <1>2 DEF TypeOK, vars
<1> QED
  BY <1>1, <1>2

\* Every variable keeps its type: windows never grow past their size, a request
\* never counts more tokens or switches than it may.
THEOREM TypeCorrect == Spec => []TypeOK
  BY TypeInit, TypeStep, PTL DEF Spec

-----------------------------------------------------------------------------
(***************************************************************************)
(* What a request has tried when it gives up.                              *)
(***************************************************************************)

\* What failed on the way to the turn of a token: the proxies that the tokens
\* before it used up, or all there are.
Switches(turn) == turn * (MaxProxySwitches + 1)

Attempts(r) ==
  /\ r.failed \subseteq r.cands
  /\ r.pc = "token" =>
       /\ r.kind = "detail" /\ r.tries = 0
       /\ r.failed = r.cands \/ Cardinality(r.failed) >= Switches(r.turn)
  /\ r.pc = "try" =>
       /\ Untried(r) # {}
       /\ r.kind = "plain" => r.turn = 0
       /\ Cardinality(r.failed) >= Switches(r.turn) + r.tries
  /\ r.pc = "gave_up" =>
       \/ r.failed = r.cands
       \/ Cardinality(r.failed)
            >= (MaxProxySwitches + 1)
                 * (IF r.kind = "detail" THEN MaxTokenSwitches + 1 ELSE 1)

AttemptInv == Attempts(req)

LEMMA SwitchesFacts ==
  ASSUME NEW n \in Nat
  PROVE  /\ Switches(0) = 0 /\ Switches(n) \in Nat
         /\ Switches(n + 1) = Switches(n) + MaxProxySwitches + 1
         /\ (MaxProxySwitches + 1) * (n + 1) = Switches(n) + MaxProxySwitches + 1
  BY DEF Switches

\* Proxies are finitely many, and one more that failed is one more.
LEMMA FailedCount ==
  ASSUME NEW S \in SUBSET Proxies
  PROVE  /\ Cardinality(S) \in Nat
         /\ \A p \in Proxies \ S : Cardinality(S \union {p}) = Cardinality(S) + 1
<1>1. IsFiniteSet(S)
  BY FS_Subset
<1> QED
  BY <1>1, FS_CardinalityType, FS_AddElement

\* A request with nothing left, or whose switches with this token are used up,
\* goes on or gives up with its account in order.
LEMMA NextTokenAttempts ==
  ASSUME NEW r \in Request, r.failed \subseteq r.cands,
         r.kind = "plain" => r.turn = 0,
         \/ r.failed = r.cands
         \/ Cardinality(r.failed) >= Switches(r.turn) + MaxProxySwitches + 1
  PROVE  Attempts(NextToken(r))
<1>1. /\ r.turn \in Nat /\ r.turn <= MaxTokenSwitches
      /\ r.kind \in {"detail", "plain"}
  BY RequestFields DEF Kinds
<1>2. Cardinality(r.failed) \in Nat
  BY RequestFields, FailedCount
<1>3. CASE r.kind = "detail" /\ r.turn < MaxTokenSwitches
  <2> DEFINE n == NextToken(r)
  <2>1. /\ n.pc = "token" /\ n.kind = r.kind /\ n.tries = 0 /\ n.turn = r.turn + 1
        /\ n.failed = r.failed /\ n.cands = r.cands
    BY <1>3 DEF NextToken, Request
  <2>2. Switches(r.turn + 1) = Switches(r.turn) + MaxProxySwitches + 1
    BY <1>1, SwitchesFacts
  <2> HIDE DEF n
  <2>3. Attempts(n)
    BY <1>3, <2>1, <2>2 DEF Attempts
  <2> QED
    BY <2>3 DEF n
<1>4. CASE ~(r.kind = "detail" /\ r.turn < MaxTokenSwitches)
  <2> DEFINE n == NextToken(r)
  <2>1. /\ n.pc = "gave_up" /\ n.kind = r.kind
        /\ n.failed = r.failed /\ n.cands = r.cands
    BY <1>4 DEF NextToken, Request
  <2>2. r.turn = IF r.kind = "detail" THEN MaxTokenSwitches ELSE 0
    BY <1>1, <1>4
  <2>3. (MaxProxySwitches + 1) * (r.turn + 1) = Switches(r.turn) + MaxProxySwitches + 1
    BY <1>1, SwitchesFacts
  <2>4. r.turn + 1 = IF r.kind = "detail" THEN MaxTokenSwitches + 1 ELSE 1
    BY <2>2
  <2> HIDE DEF n
  <2>5. Attempts(n)
    BY <2>1, <2>3, <2>4 DEF Attempts
  <2> QED
    BY <2>5 DEF n
<1> QED
  BY <1>3, <1>4

LEMMA ProxyFailsAttempts ==
  ASSUME TypeOK, AttemptInv, ProxyFails
  PROVE  AttemptInv'
<1>1. req \in Request /\ req.pc = "try"
  BY DEF TypeOK, ProxyFails
<1>2. PICK p \in Untried(req) : req' = NextTry([req EXCEPT !.failed = @ \union {p}])
  BY DEF ProxyFails
<1> DEFINE r == [req EXCEPT !.failed = @ \union {p}]
<1>3. /\ p \in Proxies \ req.failed /\ p \in req.cands
      /\ req.failed \in SUBSET Proxies
  BY <1>1, RequestFields DEF Untried
<1>4. /\ r \in Request /\ r.pc = "try" /\ r.kind = req.kind /\ r.turn = req.turn
      /\ r.tries = req.tries /\ r.cands = req.cands
      /\ r.failed = req.failed \union {p}
  BY <1>1, <1>3, FailedType DEF Request
<1>5. Cardinality(r.failed) = Cardinality(req.failed) + 1 /\ Cardinality(req.failed) \in Nat
  BY <1>3, <1>4, FailedCount
<1>6. /\ r.failed \subseteq r.cands
      /\ r.kind = "plain" => r.turn = 0
      /\ Cardinality(req.failed) >= Switches(r.turn) + r.tries
  BY <1>1, <1>3, <1>4 DEF AttemptInv, Attempts
<1>7. /\ r.turn \in Nat /\ r.tries \in Nat /\ r.tries <= MaxProxySwitches
      /\ Switches(r.turn) \in Nat
  <2>1. r.turn \in Nat /\ r.tries \in Nat /\ r.tries <= MaxProxySwitches
    <3> HIDE DEF r
    <3> QED
      BY <1>4, RequestFields
  <2> HIDE DEF r
  <2> QED
    BY <2>1, SwitchesFacts
<1> HIDE DEF r
<1>8. CASE Untried(r) # {} /\ r.tries < MaxProxySwitches
  <2> DEFINE n == [r EXCEPT !.tries = @ + 1]
  <2>1. /\ n.pc = "try" /\ n.kind = r.kind /\ n.turn = r.turn /\ n.tries = r.tries + 1
        /\ n.cands = r.cands /\ n.failed = r.failed
    BY <1>4 DEF Request
  <2>2. NextTry(r) = n
    BY <1>8 DEF NextTry
  <2> HIDE DEF n
  <2>3. Untried(n) # {}
    BY <1>8, <2>1 DEF Untried
  <2>4. Attempts(n)
    BY <1>5, <1>6, <1>7, <2>1, <2>3 DEF Attempts
  <2> QED
    BY <1>2, <2>2, <2>4 DEF AttemptInv, r
<1>9. CASE ~(Untried(r) # {} /\ r.tries < MaxProxySwitches)
  <2>1. NextTry(r) = NextToken(r)
    BY <1>9 DEF NextTry
  <2>2. \/ r.failed = r.cands
        \/ Cardinality(r.failed) >= Switches(r.turn) + MaxProxySwitches + 1
    <3>1. CASE Untried(r) = {}
      BY <3>1, <1>6 DEF Untried
    <3>2. CASE r.tries = MaxProxySwitches
      BY <3>2, <1>5, <1>6, <1>7
    <3> QED
      BY <1>7, <1>9, <3>1, <3>2
  <2>3. Attempts(NextToken(r))
    BY <1>4, <1>6, <2>2, NextTokenAttempts
  <2> QED
    BY <1>2, <2>1, <2>3 DEF AttemptInv, r
<1> QED
  BY <1>8, <1>9

\* A token is asked for with an account in order, and goes on with it.
LEMMA GetTokenAttempts ==
  ASSUME TypeOK, AttemptInv, GetToken
  PROVE  AttemptInv'
<1>1. /\ req \in Request /\ req.pc = "token" /\ req.kind = "detail" /\ req.tries = 0
      /\ req.failed \subseteq req.cands
      /\ req.failed = req.cands \/ Cardinality(req.failed) >= Switches(req.turn)
  BY DEF TypeOK, AttemptInv, Attempts, GetToken
<1>2. CASE req' = End("failed")
  BY <1>2 DEF AttemptInv, Attempts, End, NoRequest
<1>3. CASE Untried(req) # {} /\ req' = [req EXCEPT !.pc = "try"]
  <2>1. /\ req'.pc = "try" /\ req'.kind = "detail" /\ req'.turn = req.turn
        /\ req'.tries = 0 /\ req'.cands = req.cands /\ req'.failed = req.failed
    BY <1>1, <1>3 DEF Request
  <2>2. Cardinality(req.failed) >= Switches(req.turn)
    BY <1>1, <1>3 DEF Untried
  <2>3. Cardinality(req.failed) \in Nat /\ Switches(req.turn) \in Nat
    <3>1. req.failed \in SUBSET Proxies /\ req.turn \in Nat
      BY <1>1, RequestFields
    <3> QED
      BY <3>1, FailedCount, SwitchesFacts
  <2>4. Untried(req') # {}
    BY <1>3, <2>1 DEF Untried
  <2> QED
    BY <1>1, <2>1, <2>2, <2>3, <2>4 DEF AttemptInv, Attempts
<1>4. CASE Untried(req) = {} /\ req' = NextToken(req)
  <2>1. req.failed = req.cands
    BY <1>1, <1>4 DEF Untried
  <2>2. Attempts(NextToken(req))
    BY <1>1, <2>1, NextTokenAttempts
  <2> QED
    BY <1>4, <2>2 DEF AttemptInv
<1> QED
  BY <1>2, <1>3, <1>4 DEF GetToken

\* A request that has just got its candidates has tried nothing.
LEMMA WithCandidatesAttempts ==
  ASSUME NEW kind \in Kinds, NEW rows \in SUBSET Proxies,
         NEW n \in WithCandidates(kind, rows)
  PROVE  Attempts(n)
<1> DEFINE usable == {p \in rows : Usable(p)}
           go == [NoRequest EXCEPT !.pc = IF kind = "detail" THEN "token" ELSE "try",
                                   !.kind = kind, !.cands = usable]
<1>1. CASE n \in {End("direct"), End("refused")}
  BY <1>1 DEF Attempts, End, NoRequest
<1>2. CASE usable # {} /\ n = go
  <2>1. /\ n.pc = (IF kind = "detail" THEN "token" ELSE "try") /\ n.kind = kind
        /\ n.cands = usable /\ n.failed = {} /\ n.turn = 0 /\ n.tries = 0
    BY <1>2 DEF NoRequest
  <2>2. Cardinality(n.failed) = 0 /\ Switches(0) = 0
    BY <2>1, FS_EmptySet, SwitchesFacts
  <2>3. Untried(n) # {}
    BY <1>2, <2>1 DEF Untried
  <2> HIDE DEF usable, go
  <2> QED
    BY <2>1, <2>2, <2>3 DEF Attempts
<1> HIDE DEF go
<1>3. usable = {} \/ usable # {}
  OBVIOUS
<1> QED
  BY <1>1, <1>2, <1>3 DEF WithCandidates, go

LEMMA AttemptStep == TypeOK /\ AttemptInv /\ [Next]_vars => AttemptInv'
<1> SUFFICES ASSUME TypeOK, AttemptInv, [Next]_vars PROVE AttemptInv'
  OBVIOUS
<1>1. req \in Request /\ req.kind \in Kinds /\ req.rows \in SUBSET Proxies
  BY RequestFields DEF TypeOK
<1>2. CASE UNCHANGED req
  BY <1>2 DEF AttemptInv
<1>3. ASSUME NEW kind \in Kinds, Begin(kind) PROVE AttemptInv'
  <2>1. CASE cache.known
    <3>1. cache.rows \in SUBSET Proxies /\ req' \in WithCandidates(kind, cache.rows)
      BY <1>3, <2>1 DEF Begin, TypeOK
    <3> QED
      BY <3>1, WithCandidatesAttempts DEF AttemptInv
  <2>2. CASE ~cache.known
    BY <1>3, <2>2 DEF Begin, AttemptInv, Attempts, NoRequest
  <2> QED
    BY <2>1, <2>2
<1>4. CASE Query \/ Second \/ \E p \in Proxies : Edit(p)
  <2>1. /\ req'.pc = "store" \/ req'.pc = req.pc
        /\ req'.failed = req.failed /\ req'.cands = req.cands
        /\ req'.kind = req.kind /\ req'.tries = req.tries /\ req'.turn = req.turn
    BY <1>1, <1>4 DEF Query, Second, Edit, Request
  <2> QED
    BY <2>1 DEF AttemptInv, Attempts, Untried
<1>5. CASE Store
  <2>1. req' \in WithCandidates(req.kind, req.rows)
    BY <1>5 DEF Store
  <2> QED
    BY <1>1, <2>1, WithCandidatesAttempts DEF AttemptInv
<1>6. CASE QueryFails
  <2>1. req' \in WithCandidates(req.kind, {})
    BY <1>6 DEF QueryFails
  <2> QED
    BY <1>1, <2>1, WithCandidatesAttempts DEF AttemptInv
<1>7. CASE Answer \/ Again
  BY <1>7 DEF Answer, Again, AttemptInv, Attempts, End, NoRequest
<1>8. CASE Tick \/ CheckQuery \/ Invalidate
           \/ \E p \in Proxies : ProbeEnds(p) \/ AdminProbe(p) \/ Turn(p)
  BY <1>2, <1>8 DEF Tick, CheckQuery, Invalidate, ProbeEnds, AdminProbe, Turn
<1>9. CASE UNCHANGED vars
  BY <1>2, <1>9 DEF vars
<1> QED
  BY <1>3, <1>4, <1>5, <1>6, <1>7, <1>8, <1>9, GetTokenAttempts, ProxyFailsAttempts
     DEF Next

\* A request that gives up has failed with every candidate, or with a different
\* proxy at each attempt that its switches allow, over all its tokens:
\* runWithTokenProxyFailover never spends an attempt on a proxy that has failed.
THEOREM NeverGivesUpEarly == Spec => []GivesUpLast
<1>1. Init => AttemptInv
  BY DEF Init, AttemptInv, Attempts, NoRequest
<1>2. AttemptInv => GivesUpLast
  BY DEF AttemptInv, Attempts, GivesUpLast
<1> QED
  BY <1>1, <1>2, TypeCorrect, AttemptStep, PTL DEF Spec

-----------------------------------------------------------------------------
(***************************************************************************)
(* How old the candidates of a request may be.                             *)
(***************************************************************************)
Loading == req.pc \in {"query", "store"}

\* The copy is right about every row that was not edited within a second, unless
\* a load has failed; so is a load under way, about the rows that were not edited
\* since a second before it began.
ListInv ==
  /\ cache.known /\ ~outage =>
       \A p \in Proxies \ changed : p \in cache.rows <=> row[p]
  /\ req.pc = "store" => \A p \in req.sure : p \in req.rows <=> row[p]
  /\ Loading /\ ~req.old => Proxies \ changed \subseteq req.sure

\* A request that takes its candidates takes the usable ones of the rows.
LEMMA WithCandidatesTakes ==
  ASSUME NEW kind \in Kinds, NEW rows \in SUBSET Proxies,
         NEW n \in WithCandidates(kind, rows)
  PROVE  /\ n.pc \notin {"idle", "query", "store"}
         /\ \A p \in Proxies : p \in n.cands <=> p \in rows /\ Usable(p)
<1> DEFINE usable == {p \in rows : Usable(p)}
           go == [NoRequest EXCEPT !.pc = IF kind = "detail" THEN "token" ELSE "try",
                                   !.kind = kind, !.cands = usable]
<1>1. CASE usable = {} /\ n \in {End("direct"), End("refused")}
  <2>1. n.pc \in {"direct", "refused"} /\ n.cands = {}
    BY <1>1 DEF End, NoRequest
  <2> QED
    BY <1>1, <2>1
<1>2. CASE n = go
  <2>1. n.pc \in {"token", "try"} /\ n.cands = usable
    BY <1>2 DEF NoRequest
  <2> QED
    BY <2>1
<1> HIDE DEF go
<1>3. usable = {} \/ usable # {}
  OBVIOUS
<1> QED
  BY <1>1, <1>2, <1>3 DEF WithCandidates, go

\* Most steps disturb neither the rows, nor the copy, nor the request's load.
LEMMA ListUndisturbed ==
  ASSUME ListInv, UNCHANGED <<row, changed, outage>>,
         cache' = cache \/ cache' = NoCache,
         req' = req \/ req'.pc \notin {"query", "store"}
  PROVE  ListInv'
  BY DEF ListInv, Loading, NoCache

LEMMA ListStep == TypeOK /\ ListInv /\ [Next]_vars => ListInv'
<1> SUFFICES ASSUME TypeOK, ListInv, [Next]_vars PROVE ListInv'
  OBVIOUS
<1>1. req \in Request /\ req.kind \in Kinds /\ req.rows \in SUBSET Proxies
  BY RequestFields DEF TypeOK
<1>2. ASSUME NEW kind \in Kinds, Begin(kind) PROVE ListInv'
  <2>1. CASE cache.known
    <3>1. cache.rows \in SUBSET Proxies /\ req' \in WithCandidates(kind, cache.rows)
      BY <1>2, <2>1 DEF Begin, TypeOK
    <3> QED
      BY <1>2, <3>1, WithCandidatesTakes, ListUndisturbed DEF Begin, ghosts
  <2>2. CASE ~cache.known
    <3>1. req'.pc = "query" /\ req'.sure = Proxies \ changed
      BY <1>2, <2>2 DEF Begin, NoRequest
    <3> QED
      BY <1>2, <2>2, <3>1 DEF Begin, ghosts, ListInv, Loading
  <2> QED
    BY <2>1, <2>2
<1>3. CASE Query
  <2>1. /\ req'.pc = "store" /\ req'.sure = req.sure /\ req'.old = req.old
        /\ req'.rows = EnabledRows /\ req.pc = "query"
    BY <1>1, <1>3 DEF Query, Request
  <2>2. req.sure \subseteq Proxies
    BY <1>1, RequestFields
  <2> QED
    BY <1>3, <2>1, <2>2 DEF Query, ghosts, ListInv, Loading, EnabledRows
<1>4. CASE Store
  <2>1. req'.pc \notin {"query", "store"}
    BY <1>1, <1>4, WithCandidatesTakes DEF Store
  <2>2. CASE req.old
    BY <1>4, <2>1, <2>2, ListUndisturbed DEF Store, ghosts
  <2>3. CASE ~req.old
    <3>1. cache'.rows = req.rows
      BY <1>4, <2>3 DEF Store
    <3>2. \A p \in Proxies \ changed : p \in req.rows <=> row[p]
      BY <1>4, <2>3 DEF Store, ListInv, Loading
    <3> QED
      BY <1>4, <2>1, <3>1, <3>2 DEF Store, ghosts, ListInv, Loading
  <2> QED
    BY <2>2, <2>3
<1>5. CASE QueryFails
  <2>1. req'.pc \notin {"query", "store"} /\ outage'
    BY <1>1, <1>5, WithCandidatesTakes DEF QueryFails
  <2> QED
    BY <2>1 DEF ListInv, Loading
<1>6. CASE GetToken \/ Answer \/ Again
  <2>1. req'.pc \notin {"query", "store"}
    <3>1. NextToken(req).pc \in {"token", "gave_up"}
      BY <1>1 DEF NextToken, Request
    <3>2. NoRequest.pc = "idle" /\ [req EXCEPT !.pc = "try"].pc = "try"
      BY <1>1 DEF NoRequest, Request
    <3>3. \A pc \in {"served", "failed"} : End(pc).pc = pc
      BY DEF End, NoRequest
    <3>4. CASE GetToken
      BY <3>1, <3>2, <3>3, <3>4 DEF GetToken
    <3>5. CASE Answer
      BY <3>3, <3>5 DEF Answer
    <3>6. CASE Again
      BY <3>2, <3>6 DEF Again
    <3> QED
      BY <1>6, <3>4, <3>5, <3>6
  <2> QED
    BY <1>6, <2>1, ListUndisturbed DEF GetToken, Answer, Again, ghosts
<1>7. CASE ProxyFails
  <2>1. PICK p \in Untried(req) : req' = NextTry([req EXCEPT !.failed = @ \union {p}])
    BY <1>7 DEF ProxyFails
  <2>2. p \in Proxies
    BY <1>1, RequestFields DEF Untried
  <2> DEFINE r == [req EXCEPT !.failed = @ \union {p}]
  <2>3. r \in Request /\ r.pc = "try"
    BY <1>1, <1>7, <2>2, FailedType DEF ProxyFails, Request
  <2> HIDE DEF r
  <2>4. NextTry(r).pc \in {"try", "token", "gave_up"}
    BY <2>3 DEF NextTry, NextToken, Request
  <2>5. req'.pc \notin {"query", "store"}
    BY <2>1, <2>4 DEF r
  <2> QED
    BY <1>7, <2>5, ListUndisturbed DEF ProxyFails, ghosts
<1>8. ASSUME NEW p \in Proxies, Edit(p) PROVE ListInv'
  <2>1. /\ req'.pc = req.pc /\ req'.old = req.old /\ req'.rows = req.rows
        /\ req'.sure = req.sure \ {p}
    BY <1>1, <1>8 DEF Edit, Request
  <2>2. \A q \in Proxies \ {p} : row'[q] = row[q]
    BY <1>8 DEF Edit, TypeOK
  <2>3. cache' = cache /\ outage' = outage /\ changed' = changed \union {p}
    BY <1>8 DEF Edit
  <2>4. req.sure \subseteq Proxies
    BY <1>1, RequestFields
  <2> QED
    BY <2>1, <2>2, <2>3, <2>4 DEF ListInv, Loading
<1>9. CASE Second
  <2>1. ~cache'.known /\ row' = row
    BY <1>9 DEF Second, NoCache
  <2>2. CASE Loading
    <3>1. /\ req'.pc = req.pc /\ req'.rows = req.rows /\ req'.sure = req.sure
          /\ req'.old
      BY <1>1, <1>9, <2>2 DEF Second, Loading, Request
    <3> QED
      BY <2>1, <3>1 DEF ListInv, Loading
  <2>3. CASE ~Loading
    BY <1>9, <2>1, <2>3 DEF Second, ListInv, Loading
  <2> QED
    BY <2>2, <2>3
<1>10. CASE Tick \/ CheckQuery \/ Invalidate
            \/ \E p \in Proxies : ProbeEnds(p) \/ AdminProbe(p) \/ Turn(p)
  BY <1>10, ListUndisturbed
     DEF Tick, CheckQuery, Invalidate, ProbeEnds, AdminProbe, Turn, ghosts
<1>11. CASE UNCHANGED vars
  BY <1>11, ListUndisturbed DEF vars
<1> QED
  BY <1>2, <1>3, <1>4, <1>5, <1>6, <1>7, <1>8, <1>9, <1>10, <1>11 DEF Next

\* The two steps that take candidates.
LEMMA TakesCurrent ==
  ASSUME TypeOK, ListInv, Next, TakesCandidates, ~outage
  PROVE  \A p \in Sure : p \in req'.cands <=> row[p] /\ Usable(p)
<1>1. req \in Request /\ req.kind \in Kinds /\ req.rows \in SUBSET Proxies
  BY RequestFields DEF TypeOK
<1>2. ASSUME NEW kind \in Kinds, Begin(kind)
      PROVE  \A p \in Sure : p \in req'.cands <=> row[p] /\ Usable(p)
  <2>1. req.pc = "idle" /\ cache.known
    BY <1>2 DEF Begin, TakesCandidates, NoRequest
  <2>2. cache.rows \in SUBSET Proxies /\ req' \in WithCandidates(kind, cache.rows)
    BY <1>2, <2>1 DEF Begin, TypeOK
  <2>3. \A p \in Proxies : p \in req'.cands <=> p \in cache.rows /\ Usable(p)
    BY <2>2, WithCandidatesTakes
  <2> QED
    BY <2>1, <2>3 DEF ListInv, Sure
<1>3. CASE Store
  <2>1. \A p \in Proxies : p \in req'.cands <=> p \in req.rows /\ Usable(p)
    BY <1>1, <1>3, WithCandidatesTakes DEF Store
  <2>2. req.sure \subseteq Proxies
    BY <1>1, RequestFields
  <2> QED
    BY <1>3, <2>1, <2>2 DEF ListInv, Sure, Store
<1>4. ASSUME NEW p \in Proxies, Edit(p) PROVE FALSE
  BY <1>1, <1>4 DEF Edit, Request, TakesCandidates
<1>5. ~Query /\ ~QueryFails /\ ~GetToken /\ ~Answer /\ ~ProxyFails /\ ~Again
  BY DEF Query, QueryFails, GetToken, Answer, ProxyFails, Again, TakesCandidates, Ended
<1>6. ~Second
  BY <1>1 DEF Second, TakesCandidates, Request
<1>7. ~(UNCHANGED req)
  BY DEF TakesCandidates
<1>8. /\ ~Tick /\ ~CheckQuery /\ ~Invalidate
      /\ \A p \in Proxies : ~ProbeEnds(p) /\ ~AdminProbe(p) /\ ~Turn(p)
  BY <1>7 DEF Tick, CheckQuery, Invalidate, ProbeEnds, AdminProbe, Turn
<1> QED
  BY <1>2, <1>3, <1>4, <1>5, <1>6, <1>8 DEF Next

\* A request that begins a second after an edit goes by it, in every interleaving
\* of loads, edits, invalidations, checks and failures: the copy is dated when its
\* query began, not when the answer came.
THEOREM CandidatesCurrent == Spec => ListCurrent
<1>1. Init => ListInv
  BY DEF Init, ListInv, Loading, NoCache, NoRequest
<1>2. TypeOK /\ ListInv /\ [Next]_vars =>
        [TakesCandidates /\ ~outage =>
           \A p \in Sure : p \in req'.cands <=> row[p] /\ Usable(p)]_vars
  BY TakesCurrent
<1> QED
  BY <1>1, <1>2, TypeCorrect, ListStep, PTL DEF Spec, ListCurrent
=============================================================================
