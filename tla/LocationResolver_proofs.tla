----------------------- MODULE LocationResolver_proofs -----------------------
(* Type correctness of the location resolver, and its singleflight: one    *)
(* winner per city, and no loser left waiting for a message that was sent  *)
(* before it could hear it.                                                *)
EXTENDS LocationResolver, TLAPS

(* Every step of the specification, as one disjunction per action.         *)
LEMMA ResolverCases ==
  ASSUME [Next]_vars
  PROVE  \/ \E q \in Requests :
               \/ \E c \in Cities : Begin(q, c)
               \/ ReadL1(q) \/ ReadL2(q) \/ WarmL1(q)
               \/ Lock(q) \/ Subscribe(q) \/ Recheck(q) \/ Hear(q) \/ Timeout(q)
               \/ Permit(q) \/ ResolveOnline(q) \/ Persist(q) \/ CacheL1(q)
               \/ Publish(q) \/ Unlock(q) \/ Raise(q) \/ Crash(q)
         \/ \E c \in Cities : ExpireL1(c) \/ ExpireLock(c)
         \/ UNCHANGED vars
BY DEF Next, Step

TypedRequests == [pc : Pcs, city : Cities, answer : Answers \cup {Nothing}, won : BOOLEAN]

(* The initial states are typed.                                           *)
LEMMA ResolverInitType == Init => TypeOK
<1> SUFFICES ASSUME Init PROVE TypeOK
  OBVIOUS
<1>1. req \in [Requests -> TypedRequests]
  BY DEF Init, TypedRequests, Pcs
<1> QED
  BY <1>1 DEF Init, TypeOK, TypedRequests

(* Whatever a step does to one request, the record of that request stays   *)
(* one: its control moves to another point, or it takes an answer, or it   *)
(* returns.                                                                *)
LEMMA RequestType ==
  ASSUME TypeOK, NEW q \in Requests
  PROVE  /\ \A pc \in Pcs : Goto(q, pc) => req' \in [Requests -> TypedRequests]
         /\ Return(q) => req' \in [Requests -> TypedRequests]
         /\ req \in [Requests -> TypedRequests]
         /\ req[q].city \in Cities
         /\ req[q].answer \in Answers \cup {Nothing}
<1>0. req \in [Requests -> TypedRequests]
  BY DEF TypeOK, TypedRequests
<1>1. ASSUME NEW pc \in Pcs, Goto(q, pc)
      PROVE  req' \in [Requests -> TypedRequests]
  BY <1>0, <1>1 DEF Goto, TypedRequests
<1>2. ASSUME Return(q)
      PROVE  req' \in [Requests -> TypedRequests]
  BY <1>0, <1>2 DEF Return, TypedRequests, Pcs
<1> QED
  BY <1>0, <1>1, <1>2 DEF TypedRequests

(* The two ways L1 is written both store an answer.                        *)
LEMMA WriteL1Type ==
  ASSUME TypeOK, NEW q \in Requests, WriteL1(q)
  PROVE  l1' \in [Cities -> Answers \cup {Nothing}] /\ faulty' \in BOOLEAN
BY RequestType DEF TypeOK, WriteL1

(* Where a winner is and what is in hand, part of the invariant, depends   *)
(* on the requests alone.                                                  *)
LEMMA WinnersInit == Init => WinnersOK
BY DEF Init, WinnersOK, LivePcs

(* Every step of a well-typed state keeps where winners are.               *)
LEMMA WinnersStep == TypeOK /\ WinnersOK /\ [Next]_vars => WinnersOK'
<1> SUFFICES ASSUME TypeOK, WinnersOK, [Next]_vars
             PROVE  WinnersOK'
  OBVIOUS
<1> USE DEF WinnersOK, TypeOK, At, Goto, Return, LivePcs
<1>1. ASSUME NEW q \in Requests, NEW c \in Cities, Begin(q, c)
      PROVE  WinnersOK'
  BY <1>1 DEF Begin
<1>2. ASSUME NEW q \in Requests, ReadL1(q) \/ WarmL1(q) \/ Hear(q) \/ Unlock(q) \/ Crash(q)
      PROVE  WinnersOK'
  BY <1>2 DEF ReadL1, WarmL1, Hear, Unlock, Crash
<1>3. ASSUME NEW q \in Requests, ReadL2(q)
      PROVE  WinnersOK'
  BY <1>3 DEF ReadL2
<1>4. ASSUME NEW q \in Requests, Lock(q)
      PROVE  WinnersOK'
  BY <1>4 DEF Lock
<1>5. ASSUME NEW q \in Requests, Subscribe(q) \/ Recheck(q) \/ Timeout(q) \/ Permit(q)
      PROVE  WinnersOK'
  BY <1>5 DEF Subscribe, Recheck, Timeout, Permit
<1>6. ASSUME NEW q \in Requests, ResolveOnline(q)
      PROVE  WinnersOK'
  BY <1>6 DEF ResolveOnline, Answers
<1>7. ASSUME NEW q \in Requests, Persist(q) \/ Publish(q) \/ Raise(q)
      PROVE  WinnersOK'
  BY <1>7 DEF Persist, Publish, Raise, Answers
<1>8. ASSUME NEW q \in Requests, CacheL1(q)
      PROVE  WinnersOK'
  BY <1>8 DEF CacheL1
<1>9. ASSUME UNCHANGED req
      PROVE  WinnersOK'
  BY <1>9
<1> QED
  BY <1>1, <1>2, <1>3, <1>4, <1>5, <1>6, <1>7, <1>8, <1>9, ResolverCases
     DEF ExpireL1, ExpireLock, vars

(* Every step keeps the types, given what winners have in hand.            *)
LEMMA ResolverTypeStep == TypeOK /\ WinnersOK /\ [Next]_vars => TypeOK'
<1> SUFFICES ASSUME TypeOK, WinnersOK, [Next]_vars
             PROVE  TypeOK'
  OBVIOUS
<1>0. /\ l1 \in [Cities -> Answers \cup {Nothing}]
      /\ l2 \in [Cities -> Ids \cup {Unresolved, Nothing}]
      /\ lock \subseteq Cities
      /\ inbox \in [Requests -> Answers \cup {Nothing}]
      /\ faulty \in BOOLEAN
  BY DEF TypeOK
<1>a. ASSUME req' \in [Requests -> TypedRequests],
             l1' \in [Cities -> Answers \cup {Nothing}],
             l2' \in [Cities -> Ids \cup {Unresolved, Nothing}],
             lock' \subseteq Cities,
             inbox' \in [Requests -> Answers \cup {Nothing}],
             faulty' \in BOOLEAN
      PROVE  TypeOK'
  BY <1>a DEF TypeOK, TypedRequests
<1>1. ASSUME NEW q \in Requests, NEW c \in Cities, Begin(q, c)
      PROVE  TypeOK'
  <2>1. req' \in [Requests -> TypedRequests]
    BY <1>1, RequestType DEF Begin, TypedRequests, Pcs
  <2> QED
    BY <1>0, <1>1, <1>a, <2>1 DEF Begin
<1>2. ASSUME NEW q \in Requests, ReadL1(q) \/ Timeout(q) \/ Permit(q) \/ Subscribe(q)
      PROVE  TypeOK'
  <2>1. req' \in [Requests -> TypedRequests]
    BY <1>2, RequestType DEF ReadL1, Timeout, Permit, Subscribe, Pcs, LivePcs, WaitPcs
  <2> QED
    BY <1>0, <1>2, <1>a, <2>1 DEF ReadL1, Timeout, Permit, Subscribe, Unsubscribe
<1>3. ASSUME NEW q \in Requests, ReadL2(q)
      PROVE  TypeOK'
  <2>1. l2[req[q].city] \in Ids \cup {Unresolved, Nothing}
    BY <1>0, RequestType
  <2>2. req' \in [Requests -> TypedRequests]
    BY <1>3, <2>1, RequestType DEF ReadL2, TypedRequests, Pcs, Answers
  <2> QED
    BY <1>0, <1>3, <1>a, <2>2 DEF ReadL2
<1>4. ASSUME NEW q \in Requests, WarmL1(q) \/ CacheL1(q)
      PROVE  TypeOK'
  <2>1. req' \in [Requests -> TypedRequests]
    BY <1>4, RequestType DEF WarmL1, CacheL1, Pcs
  <2>2. l1' \in [Cities -> Answers \cup {Nothing}] /\ faulty' \in BOOLEAN
    BY <1>4, WriteL1Type DEF WarmL1, CacheL1
  <2> QED
    BY <1>0, <1>4, <1>a, <2>1, <2>2 DEF WarmL1, CacheL1
<1>5. ASSUME NEW q \in Requests, Lock(q)
      PROVE  TypeOK'
  <2>1. req' \in [Requests -> TypedRequests]
    BY <1>5, RequestType DEF Lock, TypedRequests, Pcs, Goto, LivePcs
  <2> QED
    BY <1>0, <1>5, <1>a, <2>1, RequestType DEF Lock
<1>6. ASSUME NEW q \in Requests, Recheck(q) \/ Hear(q) \/ Unlock(q) \/ Crash(q)
      PROVE  TypeOK'
  <2>1. req' \in [Requests -> TypedRequests]
    BY <1>6, RequestType DEF Recheck, Hear, Unlock, Crash, Pcs, WaitPcs
  <2> QED
    BY <1>0, <1>6, <1>a, <2>1 DEF Recheck, Hear, Unlock, Crash, Unsubscribe
<1>7. ASSUME NEW q \in Requests, ResolveOnline(q)
      PROVE  TypeOK'
  <2>1. req' \in [Requests -> TypedRequests]
    BY <1>7, RequestType DEF ResolveOnline, TypedRequests, Pcs, LivePcs
  <2> QED
    BY <1>0, <1>7, <1>a, <2>1 DEF ResolveOnline
<1>8. ASSUME NEW q \in Requests, Persist(q)
      PROVE  TypeOK'
  <2>1. req' \in [Requests -> TypedRequests]
    BY <1>8, RequestType DEF Persist, Pcs, LivePcs
  <2>2. req[q].answer \in Ids \cup {Unresolved}
    BY <1>8 DEF WinnersOK, Persist, At
  <2> QED
    BY <1>0, <1>8, <1>a, <2>1, <2>2 DEF Persist
<1>9. ASSUME NEW q \in Requests, Publish(q)
      PROVE  TypeOK'
  <2>1. req' \in [Requests -> TypedRequests]
    BY <1>9, RequestType DEF Publish, Pcs
  <2>2. inbox' \in [Requests -> Answers \cup {Nothing}]
    BY <1>0, <1>9, RequestType DEF Publish
  <2> QED
    BY <1>0, <1>9, <1>a, <2>1, <2>2 DEF Publish
<1>10. ASSUME NEW q \in Requests, Raise(q)
       PROVE  TypeOK'
  <2>1. req' \in [Requests -> TypedRequests]
    BY <1>10, RequestType DEF Raise, Pcs
  <2> QED
    BY <1>0, <1>10, <1>a, <2>1 DEF Raise
<1>11. ASSUME NEW c \in Cities, ExpireL1(c) \/ ExpireLock(c)
       PROVE  TypeOK'
  BY <1>0, <1>11 DEF TypeOK, ExpireL1, ExpireLock
<1>12. CASE UNCHANGED vars
  BY <1>12 DEF TypeOK, vars
<1> QED
  BY <1>1, <1>2, <1>3, <1>4, <1>5, <1>6, <1>7, <1>8, <1>9, <1>10, <1>11, <1>12,
     ResolverCases

(* Types and the winners' part hold together.                              *)
LEMMA ResolverTypedWinners == Spec => [](TypeOK /\ WinnersOK)
<1>1. Init => TypeOK /\ WinnersOK
  BY ResolverInitType, WinnersInit
<1>2. TypeOK /\ WinnersOK /\ [Next]_vars => (TypeOK /\ WinnersOK)'
  BY ResolverTypeStep, WinnersStep
<1> QED
  BY <1>1, <1>2, PTL DEF Spec

(* Every variable of the resolver keeps its type in every behaviour, for   *)
(* any sets of calls, cities and ids.                                      *)
THEOREM ResolverTypes == Spec => []TypeOK
BY ResolverTypedWinners, PTL

-----------------------------------------------------------------------------
(* Once something has failed, it stays noted.                              *)
LEMMA FaultsStay == [Next]_vars /\ ~faulty' /\ TypeOK => ~faulty
<1> SUFFICES ASSUME [Next]_vars, ~faulty', TypeOK
             PROVE  ~faulty
  OBVIOUS
<1> QED
  BY ResolverCases
     DEF Begin, ReadL1, ReadL2, WarmL1, WriteL1, Lock, Subscribe, Recheck, Hear, Timeout,
         Permit, ResolveOnline, Persist, CacheL1, Publish, Unlock, Raise, Crash, ExpireL1,
         ExpireLock, vars, TypeOK

(* The steps that can be taken before anything has failed, with nothing    *)
(* failing in them.                                                        *)
LEMMA FaultFree ==
  ASSUME [Next]_vars, ~faulty', ~faulty
  PROVE  \/ \E q \in Requests :
               \/ \E c \in Cities : Begin(q, c)
               \/ ReadL1(q) \/ ReadL2(q) \/ WarmL1(q)
               \/ Lock(q) \/ Subscribe(q) \/ Recheck(q) \/ Hear(q) \/ Timeout(q)
               \/ Permit(q) \/ ResolveOnline(q) \/ Persist(q) \/ CacheL1(q)
               \/ Publish(q) \/ Unlock(q)
         \/ UNCHANGED vars
BY ResolverCases DEF Raise, Crash, ExpireL1, ExpireLock

(* What the step of one call does to the record of that call, and to no    *)
(* other.                                                                  *)
LEMMA RecordUpdate ==
  ASSUME TypeOK, NEW q \in Requests
  PROVE  /\ \A pc \in Pcs : Goto(q, pc) =>
              /\ req'[q].pc = pc /\ req'[q].city = req[q].city
              /\ req'[q].won = req[q].won /\ req'[q].answer = req[q].answer
              /\ \A p \in Requests \ {q} : req'[p] = req[p]
         /\ Return(q) =>
              /\ req'[q].pc = "idle" /\ req'[q].city = req[q].city
              /\ req'[q].won = FALSE
              /\ \A p \in Requests \ {q} : req'[p] = req[p]
<1>1. req \in [Requests -> TypedRequests]
  BY RequestType
<1> QED
  BY <1>1 DEF Goto, Return, TypedRequests

(* A step that moves no call into or out of winning leaves the winners of  *)
(* every city as they are.                                                 *)
LEMMA WinningUnmoved ==
  ASSUME NEW q \in Requests, \A p \in Requests \ {q} : req'[p] = req[p],
         req'[q].won = req[q].won, req[q].won => req'[q].city = req[q].city
  PROVE  \A c : Winning(c)' = Winning(c)
BY DEF Winning

(* All actions but Lock and Unlock leave the winners alone, as long as     *)
(* nothing fails.                                                          *)
LEMMA WinningFrame ==
  ASSUME TypeOK, WinnersOK, NEW q \in Requests, ~faulty', ~faulty,
         \/ \E c \in Cities : Begin(q, c)
         \/ ReadL1(q) \/ ReadL2(q) \/ WarmL1(q) \/ Subscribe(q) \/ Recheck(q)
         \/ Hear(q) \/ Timeout(q) \/ Permit(q) \/ ResolveOnline(q) \/ Persist(q)
         \/ CacheL1(q) \/ Publish(q)
  PROVE  lock' = lock /\ \A c : Winning(c)' = Winning(c)
<1>0. req \in [Requests -> TypedRequests]
  BY RequestType
<1>w. req[q].won => req[q].pc \in {"permit", "publish", "unlock"} \cup LivePcs
  BY DEF WinnersOK
<1>b. req[q].won \in BOOLEAN
  BY <1>0 DEF TypedRequests
<1>1. ASSUME Begin(q, req'[q].city)
      PROVE  lock' = lock /\ \A c : Winning(c)' = Winning(c)
  <2>1. /\ \A p \in Requests \ {q} : req'[p] = req[p]
        /\ req'[q].won = req[q].won /\ ~req[q].won
    BY <1>0, <1>1, <1>w DEF Begin, TypedRequests, At, LivePcs
  <2> QED
    BY <1>1, <2>1, WinningUnmoved DEF Begin
<1>2. ASSUME ReadL1(q) \/ WarmL1(q) \/ Hear(q) \/ Recheck(q)
      PROVE  lock' = lock /\ \A c : Winning(c)' = Winning(c)
  <2>1. ~req[q].won
    BY <1>2, <1>w DEF ReadL1, WarmL1, Hear, Recheck, At, LivePcs
  <2>2. Return(q) \/ \E pc \in Pcs : Goto(q, pc)
    BY <1>2 DEF ReadL1, WarmL1, Hear, Recheck, Pcs, WaitPcs
  <2>3. /\ \A p \in Requests \ {q} : req'[p] = req[p]
        /\ req'[q].won = req[q].won
    BY <1>b, <2>1, <2>2, RecordUpdate
  <2> QED
    BY <1>2, <2>1, <2>3, WinningUnmoved DEF ReadL1, WarmL1, Hear, Recheck
<1>3. ASSUME Subscribe(q) \/ Timeout(q) \/ Permit(q) \/ Persist(q) \/ Publish(q)
      PROVE  lock' = lock /\ \A c : Winning(c)' = Winning(c)
  <2>1. \E pc \in Pcs : Goto(q, pc)
    BY <1>3 DEF Subscribe, Timeout, Permit, Persist, Publish, Pcs, LivePcs, WaitPcs
  <2>2. /\ \A p \in Requests \ {q} : req'[p] = req[p]
        /\ req'[q].won = req[q].won /\ req'[q].city = req[q].city
    BY <2>1, RecordUpdate
  <2> QED
    BY <1>3, <2>2, WinningUnmoved DEF Subscribe, Timeout, Permit, Persist, Publish
<1>4. ASSUME ReadL2(q) \/ ResolveOnline(q)
      PROVE  lock' = lock /\ \A c : Winning(c)' = Winning(c)
  <2>1. Goto(q, "lock") \/ \E pc, a : req' = [req EXCEPT ![q].pc = pc, ![q].answer = a]
    <3>1. CASE ReadL2(q)
      BY <3>1 DEF ReadL2
    <3>2. CASE ResolveOnline(q)
      <4>1. PICK a \in Answers :
              req' = [req EXCEPT ![q].answer = a,
                                 ![q].pc = IF a = Throttled THEN "cache" ELSE "persist"]
        BY <3>2 DEF ResolveOnline
      <4>2. req' = [req EXCEPT ![q].pc = IF a = Throttled THEN "cache" ELSE "persist",
                               ![q].answer = a]
        BY <1>0, <4>1 DEF TypedRequests
      <4> QED
        BY <4>2
    <3> QED
      BY <1>4, <3>1, <3>2
  <2>2. /\ \A p \in Requests \ {q} : req'[p] = req[p]
        /\ req'[q].won = req[q].won /\ req'[q].city = req[q].city
    BY <1>0, <2>1 DEF Goto, TypedRequests
  <2> QED
    BY <1>4, <2>2, WinningUnmoved DEF ReadL2, ResolveOnline
<1>5. ASSUME CacheL1(q)
      PROVE  lock' = lock /\ \A c : Winning(c)' = Winning(c)
  <2>1. IF req[q].won THEN Goto(q, "publish") ELSE Return(q)
    BY <1>5 DEF CacheL1
  <2>2. /\ \A p \in Requests \ {q} : req'[p] = req[p]
        /\ req'[q].won = req[q].won
        /\ req[q].won => req'[q].city = req[q].city
    BY <1>b, <2>1, RecordUpdate DEF Pcs
  <2> QED
    BY <1>5, <2>2, WinningUnmoved DEF CacheL1
<1>6. ASSUME NEW c \in Cities, Begin(q, c)
      PROVE  Begin(q, req'[q].city)
  BY <1>0, <1>6 DEF Begin, TypedRequests
<1> QED
  BY <1>1, <1>2, <1>3, <1>4, <1>5, <1>6

(* One winner per city: the lock is there exactly while it is.             *)
LEMMA OneWinnerStep ==
  ASSUME TypeOK, WinnersOK, OneWinner, [Next]_vars, ~faulty', ~faulty
  PROVE  OneWinner'
<1>a. ASSUME lock' = lock, \A c : Winning(c)' = Winning(c)
      PROVE  OneWinner'
  BY <1>a DEF OneWinner
<1>b. req \in [Requests -> TypedRequests]
  BY DEF TypeOK, TypedRequests
<1>1. ASSUME NEW q \in Requests, Lock(q)
      PROVE  OneWinner'
  <2>1. CASE /\ req[q].city \notin lock
             /\ lock' = lock \cup {req[q].city}
             /\ req' = [req EXCEPT ![q].pc = "permit", ![q].won = TRUE]
    <3>1. /\ req'[q].won /\ req'[q].city = req[q].city
          /\ \A p \in Requests \ {q} : req'[p] = req[p]
      BY <1>b, <2>1 DEF TypedRequests
    <3>2. Winning(req[q].city) = {}
      BY <1>b, <2>1 DEF OneWinner, TypedRequests
    <3>3. \A c \in Cities : c = req[q].city => Winning(c)' = {q}
      BY <3>1, <3>2 DEF Winning
    <3>4. \A c \in Cities \ {req[q].city} : Winning(c)' = Winning(c)
      BY <1>b, <3>1 DEF Winning, TypedRequests
    <3> QED
      BY <2>1, <3>3, <3>4, <1>b DEF OneWinner, TypedRequests
  <2>2. CASE Goto(q, "subscribe") /\ UNCHANGED <<lock, faulty>>
    BY <1>a, <2>2, RecordUpdate, WinningUnmoved DEF Pcs
  <2> QED
    BY <1>1, <2>1, <2>2 DEF Lock
<1>2. ASSUME NEW q \in Requests, Unlock(q)
      PROVE  OneWinner'
  <2>1. /\ ~req'[q].won
        /\ \A p \in Requests \ {q} : req'[p] = req[p]
        /\ lock' = lock \ {req[q].city}
    BY <1>2, RecordUpdate DEF Unlock
  <2>2. q \in Winning(req[q].city)
    BY <1>2 DEF Winning, Unlock, At, WinnersOK
  <2>3. ASSUME NEW c \in Cities, c = req[q].city
        PROVE  Winning(c)' = {}
    <3>1. \A p \in Winning(c) : p = q
      BY <2>2, <2>3 DEF OneWinner
    <3> QED
      BY <2>1, <2>3, <3>1 DEF Winning
  <2>4. \A c \in Cities \ {req[q].city} : Winning(c)' = Winning(c)
    BY <2>1 DEF Winning
  <2> QED
    BY <1>b, <2>1, <2>3, <2>4 DEF OneWinner, TypedRequests
<1>3. ASSUME UNCHANGED vars
      PROVE  OneWinner'
  BY <1>3 DEF vars, OneWinner, Winning
<1> QED
  BY <1>1, <1>2, <1>3, <1>a, FaultFree, WinningFrame

-----------------------------------------------------------------------------
(* A step of one call in which nothing fails.                              *)
Move(q) == (\E c \in Cities : Begin(q, c)) \/ Step(q)

(* A step touches the record of its own call only, and the messages of     *)
(* others only by publishing.                                              *)
LEMMA OthersUntouched ==
  ASSUME TypeOK, NEW q \in Requests, Move(q), NEW p \in Requests, p # q
  PROVE  req'[p] = req[p] /\ (inbox'[p] = inbox[p] \/ Publish(q))
<1>0. req \in [Requests -> TypedRequests] /\ inbox \in [Requests -> Answers \cup {Nothing}]
  BY DEF TypeOK, TypedRequests
<1>1. CASE \E c \in Cities : Begin(q, c)
  BY <1>0, <1>1 DEF Begin
<1>2. CASE ReadL1(q) \/ WarmL1(q) \/ CacheL1(q) \/ Unlock(q)
  BY <1>0, <1>2 DEF ReadL1, WarmL1, CacheL1, Unlock, Return, Goto
<1>3. CASE ReadL2(q) \/ Lock(q) \/ ResolveOnline(q)
  BY <1>0, <1>3 DEF ReadL2, Lock, ResolveOnline, Goto
<1>4. CASE Subscribe(q) \/ Permit(q) \/ Persist(q)
  BY <1>0, <1>4 DEF Subscribe, Permit, Persist, Goto
<1>5. CASE Recheck(q) \/ Hear(q) \/ Timeout(q)
  BY <1>0, <1>5 DEF Recheck, Hear, Timeout, Return, Goto, Unsubscribe
<1>6. CASE Publish(q)
  BY <1>0, <1>6 DEF Publish, Goto
<1> QED
  BY <1>1, <1>2, <1>3, <1>4, <1>5, <1>6 DEF Move, Step

(* As long as nothing fails or expires, a city in L1 stays in L1, and a    *)
(* call that caches an answer puts its city there.                         *)
LEMMA L1Stays ==
  ASSUME TypeOK, WinnersOK, NEW q \in Requests, Move(q), ~faulty', ~faulty,
         NEW c \in Cities, l1[c] # Nothing \/ (At(q, "cache") /\ req[q].city = c)
  PROVE  l1'[c] # Nothing
<1>0. /\ l1 \in [Cities -> Answers \cup {Nothing}]
      /\ Nothing \notin Answers
      /\ req \in [Requests -> TypedRequests]
  BY ResolverAssumption DEF TypeOK, Answers, TypedRequests
<1>1. CASE WarmL1(q) \/ CacheL1(q)
  <2>1. req[q].answer # Nothing
    BY <1>0, <1>1, ResolverAssumption DEF WarmL1, CacheL1, WinnersOK, At
  <2>2. l1' = [l1 EXCEPT ![req[q].city] = req[q].answer]
    BY <1>1 DEF WarmL1, CacheL1, WriteL1
  <2>3. CASE At(q, "cache") /\ req[q].city = c
    BY <1>0, <2>1, <2>2, <2>3
  <2>4. CASE l1[c] # Nothing
    BY <1>0, <2>1, <2>2, <2>4
  <2> QED
    BY <2>3, <2>4
<1>2. CASE l1' = l1
  <2>1. ~At(q, "cache") \/ WarmL1(q) \/ CacheL1(q)
    BY DEF Move, Begin, Step, ReadL1, ReadL2, Lock, Subscribe, Recheck, Hear, Timeout,
           Permit, ResolveOnline, Persist, Publish, Unlock, At
  <2> QED
    BY <1>1, <1>2, <2>1
<1> QED
  BY <1>1, <1>2 DEF Move, Begin, Step, ReadL1, ReadL2, Lock, Subscribe, Recheck, Hear,
                    Timeout, Permit, ResolveOnline, Persist, Publish, Unlock

(* A winner that has yet to publish still has to, until it does.           *)
LEMMA YetStays ==
  ASSUME TypeOK, WinnersOK, NEW q \in Requests, Move(q), ~faulty', ~faulty,
         NEW c \in Cities, YetToPublish(c), ~(At(q, "publish") /\ req[q].city = c)
  PROVE  YetToPublish(c)'
<1>0. req \in [Requests -> TypedRequests]
  BY RequestType
<1>1. PICK p \in Requests : /\ req[p].won /\ req[p].city = c
                            /\ req[p].pc \in {"permit", "publish"} \cup LivePcs
  BY DEF YetToPublish, Winning
<1>2. CASE p # q
  <2>1. req'[p] = req[p]
    BY <1>2, OthersUntouched
  <2> QED
    BY <1>1, <2>1 DEF YetToPublish, Winning
<1>3. CASE p = q
  <2>1. req[q].pc \in {"permit"} \cup LivePcs
    BY <1>1, <1>3 DEF At
  <2>2. Permit(q) \/ ResolveOnline(q) \/ Persist(q) \/ CacheL1(q)
    BY <2>1 DEF Move, Begin, Step, ReadL1, ReadL2, WarmL1, Lock, Subscribe, Recheck, Hear,
                Timeout, Publish, Unlock, At, LivePcs
  <2>3. /\ req'[q].won /\ req'[q].city = c
        /\ req'[q].pc \in {"publish"} \cup LivePcs
    <3>1. CASE Permit(q) \/ Persist(q)
      BY <1>0, <1>1, <1>3, <3>1 DEF Permit, Persist, Goto, LivePcs, TypedRequests
    <3>2. CASE ResolveOnline(q)
      BY <1>0, <1>1, <1>3, <3>2 DEF ResolveOnline, LivePcs, TypedRequests
    <3>3. CASE CacheL1(q)
      BY <1>0, <1>1, <1>3, <3>3 DEF CacheL1, Goto, LivePcs, TypedRequests
    <3> QED
      BY <2>2, <3>1, <3>2, <3>3
  <2> QED
    BY <2>3 DEF YetToPublish, Winning
<1> QED
  BY <1>2, <1>3

(* What a step makes of the call that takes it, at the points that matter  *)
(* to the losers of a lock and to its winner's last two steps.             *)
LEMMA Arrivals ==
  ASSUME TypeOK, NEW q \in Requests, Move(q), ~faulty', ~faulty
  PROVE  /\ req'[q].pc = "publish" => At(q, "cache") /\ req'[q].city = req[q].city
         /\ req'[q].pc = "unlock" => At(q, "publish") /\ req'[q].city = req[q].city
         /\ req'[q].pc = "subscribe" =>
              Lock(q) /\ req[q].city \in lock /\ req'[q].city = req[q].city
         /\ req'[q].pc = "recheck" =>
              Subscribe(q) /\ req'[q].city = req[q].city /\ inbox' = inbox
         /\ req'[q].pc = "listen" =>
              /\ At(q, "recheck") /\ l1[req[q].city] = Nothing
              /\ req'[q].city = req[q].city /\ inbox' = inbox
<1>0. req \in [Requests -> TypedRequests]
  BY RequestType
<1> USE <1>0 DEF Goto, Return, TypedRequests, At
<1>1. CASE \E c \in Cities : Begin(q, c)
  BY <1>1 DEF Begin
<1>2. CASE ReadL1(q) \/ ReadL2(q) \/ WarmL1(q) \/ Hear(q) \/ Unlock(q)
  BY <1>2 DEF ReadL1, ReadL2, WarmL1, Hear, Unlock
<1>3. CASE Lock(q)
  BY <1>3 DEF Lock
<1>4. CASE Subscribe(q) \/ Timeout(q) \/ Permit(q) \/ Persist(q) \/ Publish(q)
  BY <1>4 DEF Subscribe, Timeout, Permit, Persist, Publish
<1>5. CASE Recheck(q)
  BY <1>5 DEF Recheck
<1>6. CASE ResolveOnline(q)
  BY <1>6 DEF ResolveOnline
<1>7. CASE CacheL1(q)
  BY <1>7 DEF CacheL1
<1> QED
  BY <1>1, <1>2, <1>3, <1>4, <1>5, <1>6, <1>7 DEF Move, Step

(* A loser of the lock can count on the winner, or on L1.                  *)
LEMMA LostToSomeone ==
  ASSUME TypeOK, WinnersOK, OneWinner, CachedBeforePublish, ~faulty,
         NEW c \in Cities, c \in lock
  PROVE  YetToPublish(c) \/ l1[c] # Nothing
<1>1. PICK w \in Winning(c) : TRUE
  BY DEF OneWinner
<1>2. w \in Requests /\ req[w].won /\ req[w].city = c
  BY <1>1 DEF Winning
<1>3. req[w].pc \in {"permit", "publish", "unlock"} \cup LivePcs
  BY <1>2 DEF WinnersOK
<1>4. req[w].pc = "unlock" => l1[c] # Nothing
  BY <1>2 DEF CachedBeforePublish
<1> QED
  BY <1>1, <1>3, <1>4 DEF YetToPublish

(* Whoever has published has cached first.                                 *)
LEMMA CachedStep ==
  ASSUME TypeOK, WinnersOK, CachedBeforePublish, NEW q \in Requests, Move(q),
         ~faulty', ~faulty, NEW p \in Requests, req'[p].pc \in {"publish", "unlock"}
  PROVE  \A c \in Cities : c = req'[p].city => l1'[c] # Nothing
<1> SUFFICES ASSUME NEW c \in Cities, c = req'[p].city
             PROVE  l1'[c] # Nothing
  OBVIOUS
<1>1. CASE p # q
  <2>1. req'[p] = req[p]
    BY <1>1, OthersUntouched
  <2>2. l1[c] # Nothing
    BY <2>1 DEF CachedBeforePublish
  <2> QED
    BY <2>2, L1Stays
<1>2. CASE p = q
  <2>1. \/ At(q, "cache") /\ req[q].city = c
        \/ At(q, "publish") /\ req[q].city = c
    BY <1>2, Arrivals
  <2>2. l1[c] # Nothing \/ (At(q, "cache") /\ req[q].city = c)
    BY <2>1 DEF CachedBeforePublish, At
  <2> QED
    BY <2>2, L1Stays
<1> QED
  BY <1>1, <1>2

(* A loser between losing the lock and its second look at L1.              *)
LEMMA LosersStep ==
  ASSUME TypeOK, FlightInv, NEW q \in Requests, Move(q), ~faulty', ~faulty,
         NEW p \in Requests, req'[p].pc \in {"subscribe", "recheck"},
         NEW c \in Cities, c = req'[p].city
  PROVE  \/ YetToPublish(c)' \/ l1'[c] # Nothing
         \/ req'[p].pc = "recheck" /\ inbox'[p] # Nothing
<1>0. WinnersOK /\ OneWinner /\ CachedBeforePublish /\ LosersServed
  BY DEF FlightInv
<1>1. \/ YetToPublish(c) \/ l1[c] # Nothing
      \/ req'[p].pc = "recheck" /\ p # q /\ inbox[p] # Nothing
  <2>1. CASE p # q
    <3>1. req'[p] = req[p]
      BY <2>1, OthersUntouched
    <3> QED
      BY <1>0, <2>1, <3>1 DEF LosersServed, At
  <2>2. CASE p = q /\ req'[p].pc = "subscribe"
    <3>1. c \in lock
      BY <2>2, Arrivals
    <3> QED
      BY <1>0, <3>1, LostToSomeone
  <2>3. CASE p = q /\ req'[p].pc = "recheck"
    <3>1. At(q, "subscribe") /\ req[q].city = c
      BY <2>3, Arrivals DEF Subscribe
    <3> QED
      BY <1>0, <3>1 DEF LosersServed
  <2> QED
    BY <2>1, <2>2, <2>3
<1>2. CASE l1[c] # Nothing
  BY <1>0, <1>2, L1Stays
<1>3. CASE At(q, "publish") /\ req[q].city = c
  <2>1. l1[c] # Nothing
    BY <1>0, <1>3 DEF CachedBeforePublish, At
  <2> QED
    BY <1>0, <2>1, L1Stays
<1>4. CASE YetToPublish(c) /\ ~(At(q, "publish") /\ req[q].city = c)
  BY <1>0, <1>4, YetStays
<1>5. CASE req'[p].pc = "recheck" /\ p # q /\ inbox[p] # Nothing
  <2>1. inbox'[p] # Nothing
    <3>1. CASE inbox'[p] = inbox[p]
      BY <1>5, <3>1
    <3>2. CASE Publish(q)
      BY <1>5, <3>2 DEF Publish
    <3> QED
      BY <1>5, <3>1, <3>2, OthersUntouched
  <2> QED
    BY <1>5, <2>1
<1> QED
  BY <1>1, <1>2, <1>3, <1>4, <1>5

(* A listener without a message is not forgotten.                          *)
LEMMA ListenersStep ==
  ASSUME TypeOK, FlightInv, NEW q \in Requests, Move(q), ~faulty', ~faulty,
         NEW p \in Requests, req'[p].pc = "listen", inbox'[p] = Nothing,
         NEW c \in Cities, c = req'[p].city
  PROVE  YetToPublish(c)'
<1>0. /\ WinnersOK /\ LosersServed /\ NoLostWakeup
      /\ req \in [Requests -> TypedRequests]
      /\ inbox \in [Requests -> Answers \cup {Nothing}]
      /\ Nothing \notin Answers
  BY ResolverAssumption DEF FlightInv, TypeOK, TypedRequests, Answers
<1>1. CASE p = q
  <2>1. /\ At(q, "recheck") /\ l1[c] = Nothing /\ req[q].city = c
        /\ inbox[q] = Nothing
    BY <1>1, Arrivals
  <2>2. YetToPublish(c)
    BY <1>0, <2>1 DEF LosersServed
  <2> QED
    BY <1>0, <2>1, <2>2, YetStays DEF At
<1>2. CASE p # q
  <2>1. req'[p] = req[p]
    BY <1>2, OthersUntouched
  <2>2. CASE Publish(q) /\ req[q].city = c
    <3>1. req[q].answer \in Answers
      BY <1>0, <2>2 DEF Publish, WinnersOK, At
    <3>2. p \in Subscribed(c)
      BY <2>1 DEF Subscribed, WaitPcs
    <3>3. inbox'[p] # Nothing
      BY <1>0, <2>2, <3>1, <3>2 DEF Publish
    <3> QED
      BY <3>3
  <2>3. CASE Publish(q) /\ req[q].city # c
    <3>1. p \notin Subscribed(req[q].city)
      BY <2>1, <2>3 DEF Subscribed
    <3>2. inbox[p] = Nothing
      BY <1>0, <2>3, <3>1 DEF Publish
    <3>3. YetToPublish(c)
      BY <1>0, <2>1, <3>2 DEF NoLostWakeup, At
    <3> QED
      BY <1>0, <2>3, <3>3, YetStays
  <2>4. CASE ~Publish(q)
    <3>1. inbox[p] = Nothing
      BY <1>2, <2>4, OthersUntouched
    <3>2. YetToPublish(c)
      BY <1>0, <2>1, <3>1 DEF NoLostWakeup, At
    <3>3. ~At(q, "publish")
      BY <2>4 DEF Move, Begin, Step, ReadL1, ReadL2, WarmL1, Lock, Subscribe, Recheck,
                  Hear, Timeout, Permit, ResolveOnline, Persist, CacheL1, Unlock, At
    <3> QED
      BY <1>0, <3>2, <3>3, YetStays
  <2> QED
    BY <2>2, <2>3, <2>4
<1> QED
  BY <1>1, <1>2

(* The inductive step of the singleflight.                                 *)
LEMMA FlightStep == TypeOK /\ FlightInv /\ [Next]_vars => FlightInv'
<1> SUFFICES ASSUME TypeOK, FlightInv, [Next]_vars
             PROVE  FlightInv'
  OBVIOUS
<1>0. WinnersOK /\ OneWinner
  BY DEF FlightInv
<1>1. WinnersOK'
  BY <1>0, WinnersStep
<1>2. CASE faulty'
  BY <1>1, <1>2 DEF FlightInv, OneWinner, CachedBeforePublish, LosersServed, NoLostWakeup
<1>3. CASE ~faulty' /\ UNCHANGED vars
  BY <1>3 DEF FlightInv, vars, WinnersOK, OneWinner, CachedBeforePublish, LosersServed,
              NoLostWakeup, YetToPublish, Winning, At
<1>4. ASSUME ~faulty', NEW q \in Requests, Move(q)
      PROVE  FlightInv'
  <2>1. ~faulty
    BY <1>4, FaultsStay
  <2>2. OneWinner'
    BY <1>0, <1>4, <2>1, OneWinnerStep
  <2>3. \A p \in Requests : req'[p].city \in Cities
    <3>1. TypeOK'
      BY <1>0, ResolverTypeStep
    <3> QED
      BY <3>1 DEF TypeOK
  <2>4. CachedBeforePublish'
    BY <1>4, <2>1, <2>3, CachedStep DEF CachedBeforePublish, FlightInv
  <2>5. LosersServed'
    BY <1>4, <2>1, <2>3, LosersStep DEF LosersServed, At
  <2>6. NoLostWakeup'
    BY <1>4, <2>1, <2>3, ListenersStep DEF NoLostWakeup, At
  <2> QED
    BY <1>1, <2>2, <2>4, <2>5, <2>6 DEF FlightInv
<1>5. ~faulty' => UNCHANGED vars \/ \E q \in Requests : Move(q)
  BY FaultsStay, FaultFree DEF Move, Step
<1> QED
  BY <1>2, <1>3, <1>4, <1>5

(* The singleflight invariant holds throughout every behaviour.            *)
LEMMA FlightHolds == Spec => []FlightInv
<1>1. Init => FlightInv
  <2> SUFFICES ASSUME Init PROVE FlightInv
    OBVIOUS
  <2>1. WinnersOK
    BY WinnersInit
  <2>2. \A q \in Requests : req[q].pc = "idle" /\ ~req[q].won
    BY DEF Init
  <2>3. OneWinner
    BY <2>2 DEF Init, OneWinner, Winning
  <2> QED
    BY <2>1, <2>2, <2>3 DEF FlightInv, CachedBeforePublish, LosersServed, NoLostWakeup, At
<1>2. TypeOK /\ FlightInv /\ [Next]_vars => FlightInv'
  BY FlightStep
<1> QED
  BY <1>1, <1>2, ResolverTypes, PTL DEF Spec

(* As long as nothing fails or expires, one call at most holds the lock of *)
(* a city, and the lock exists exactly while one does: for any number of   *)
(* calls, processes, cities and permits.                                   *)
THEOREM OneWinnerPerCity == Spec => []OneWinner
<1>1. FlightInv => OneWinner
  BY DEF FlightInv
<1> QED
  BY <1>1, FlightHolds, PTL

(* Subscribing before the second look at L1 closes the race: a listener    *)
(* without a message has a winner ahead of it that has yet to publish.     *)
THEOREM NoWakeupLost == Spec => []NoLostWakeup
<1>1. FlightInv => NoLostWakeup
  BY DEF FlightInv
<1> QED
  BY <1>1, FlightHolds, PTL
=============================================================================
