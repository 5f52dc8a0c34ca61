------------------------------ MODULE Requests_proofs ------------------------------
(* What serves a request, proved: the rate limiter, the wallet of cards,   *)
(* the clients of the services outside, the resolution of barcodes, the     *)
(* pick among a retailer's listings and the answer to a search.             *)
EXTENDS RateLimiter, CardWallet, AdapterClients, ProductResolution, MiscRetailer,
        ListingPick, ProductSearch, FiniteOrders, SequenceTheorems

-----------------------------------------------------------------------------
(* RateLimiter: however requests overlap, no Window less the lag of a      *)
(* request admits more than the largest limit.                             *)

(* Every limit a request is given is at most the one of the pro tier.      *)
LEMMA LargestLimit ==
  /\ Limit("pro") \in Nat /\ Limit("free") \in Nat
  /\ Limit("free") <= Limit("pro")
<1>1. BaseLimit * ProMultiplier \in Nat /\ BaseLimit <= BaseLimit * ProMultiplier
  BY LimiterAssumption, SMTT(30)
<1> QED
  BY <1>1, LimiterAssumption DEF Limit

(* The wait a rejected request is told is a second at least.               *)
LEMMA WaitInRange ==
  ASSUME LimiterTypeOK, InFlight, Remembered, NEW r \in Requests,
         request[r].pc = "oldest"
  PROVE  RetryAfter(r) \in Nat
<1>1. request[r].at \in Nat /\ clock \in Nat /\ members \subseteq 0..clock
  BY LimiterAssumption DEF Remembered, LimiterTypeOK
<1>2. CASE members = {}
  BY <1>2, LimiterAssumption DEF RetryAfter
<1>3. CASE members # {}
  <2>1. members \in SUBSET Nat
    BY <1>1
  <2>2. Min(members) \in 0..clock
    BY <1>1, <1>3, <2>1, FirstInstant
  <2> QED
    BY <1>1, <1>3, <2>2, LimiterAssumption DEF RetryAfter
<1> QED
  BY <1>2, <1>3

(* What a pipeline leaves in the set: instants no later than the present,  *)
(* finitely many, its own among them, and all those of the last Window.    *)
LEMMA LeftInstants ==
  ASSUME LimiterTypeOK, InFlight, Remembered, NEW r \in Requests, Exec(r),
         NEW at, at = request[r].at,
         NEW left, left = Left(at) \cup {at}
  PROVE  /\ at \in 0..clock /\ clock \in Nat /\ clock <= at + Lag
         /\ left \subseteq 0..clock /\ IsFiniteSet(left) /\ Cardinality(left) \in Nat
         /\ \A m \in members : m > clock - Window => m \in left
<1>1. at \in 0..clock /\ clock \in Nat /\ clock <= at + Lag
  BY LimiterAssumption DEF Exec, Counted, InFlight, LimiterTypeOK
<1>2. left \subseteq 0..clock
  <2>1. members \subseteq 0..clock
    BY DEF Remembered
  <2>2. Left(at) \subseteq members
    BY DEF Left
  <2> QED
    BY <1>1, <2>1, <2>2
<1>3. IsFiniteSet(0..clock)
  <2>1. clock \in Nat
    BY <1>1
  <2> QED
    BY <2>1, UpToFinite
<1>4. ASSUME NEW m \in members, m > clock - Window PROVE m \in left
  <2>1. m \in 0..clock
    BY DEF Remembered
  <2>2. m > at - Window
    BY <1>1, <1>4, <2>1, LimiterAssumption
  <2> QED
    BY <2>2 DEF Left
<1> QED
  BY <1>1, <1>2, <1>3, <1>4, FS_Subset, FS_CardinalityType

LEMMA LimiterInitInv == LimiterInit => LimiterTypeOK /\ LimiterInv
<1> SUFFICES ASSUME LimiterInit PROVE LimiterTypeOK /\ LimiterInv
  OBVIOUS
<1>1. LimiterTypeOK
  BY LimiterAssumption DEF LimiterInit, LimiterTypeOK
<1>2. InFlight /\ LimitKnown /\ Remembered
  BY LimiterAssumption DEF LimiterInit, InFlight, LimitKnown, Remembered
<1>3. ASSUME NEW t \in 0..MaxClock
      PROVE  Cardinality({a \in admitted : a <= t /\ a > t - (Window - Lag)})
                <= Limit("pro")
  <2>1. {a \in admitted : a <= t /\ a > t - (Window - Lag)} = {}
    BY DEF LimiterInit
  <2> QED
    BY <2>1, FS_EmptySet, LargestLimit
<1> QED
  BY <1>1, <1>2, <1>3 DEF LimiterInv, WindowBounded

(* Every step keeps the types.                                             *)
LEMMA LimiterTypeStep ==
  LimiterTypeOK /\ InFlight /\ Remembered /\ [LimiterNext]_limiterVars => LimiterTypeOK'
<1> SUFFICES ASSUME LimiterTypeOK, InFlight, Remembered, [LimiterNext]_limiterVars
             PROVE  LimiterTypeOK'
  OBVIOUS
<1> USE LimiterAssumption
<1>1. ASSUME Pass PROVE LimiterTypeOK'
  <2>1. members' \subseteq 0..MaxClock
    BY <1>1 DEF Pass, LimiterTypeOK
  <2>2. clock' \in 0..MaxClock
    BY <1>1 DEF Pass, LimiterTypeOK
  <2> QED
    BY <1>1, <2>1, <2>2 DEF Pass, LimiterTypeOK
<1>2. ASSUME NEW r \in Requests, Arrive(r) PROVE LimiterTypeOK'
  BY <1>2, LargestLimit DEF Arrive, LimiterTypeOK
<1>3. ASSUME NEW r \in Requests, Exec(r) PROVE LimiterTypeOK'
  <2>1. /\ request[r].at \in 0..clock /\ clock \in 0..MaxClock
        /\ members' \subseteq 0..clock
    BY <1>3, LeftInstants DEF Exec, Counted, LimiterTypeOK
  <2>2. request' \in [Requests -> [pc : {"idle", "exec", "oldest"}, at : 0..MaxClock,
                                   limit : Nat, wait : Nat]]
    BY <1>3 DEF Exec, Counted, Ended, LimiterTypeOK
  <2>3. admitted' \subseteq 0..MaxClock /\ expireAt' \in 0..(MaxClock + Window)
    BY <1>3, <2>1 DEF Exec, Counted, LimiterTypeOK
  <2>4. members' \subseteq 0..MaxClock /\ clock' \in 0..MaxClock
    BY <1>3, <2>1 DEF Exec, Counted, LimiterTypeOK
  <2> QED
    BY <2>2, <2>3, <2>4 DEF LimiterTypeOK
<1>4. ASSUME NEW r \in Requests, Reject(r) PROVE LimiterTypeOK'
  <2>1. RetryAfter(r) \in Nat
    BY <1>4, WaitInRange DEF Reject
  <2> QED
    BY <1>4, <2>1 DEF Reject, LimiterTypeOK
<1>5. CASE UNCHANGED limiterVars
  BY <1>5 DEF limiterVars, LimiterTypeOK
<1> QED
  BY <1>1, <1>2, <1>3, <1>4, <1>5 DEF LimiterNext

(* Every step keeps what is known of the requests in flight and of the set.*)
LEMMA LimiterMemoryStep ==
  LimiterTypeOK /\ InFlight /\ LimitKnown /\ Remembered /\ [LimiterNext]_limiterVars
    => InFlight' /\ LimitKnown' /\ Remembered'
<1> SUFFICES ASSUME LimiterTypeOK, InFlight, LimitKnown, Remembered,
                    [LimiterNext]_limiterVars
             PROVE  InFlight' /\ LimitKnown' /\ Remembered'
  OBVIOUS
<1> USE LimiterAssumption
<1>1. ASSUME Pass PROVE InFlight' /\ LimitKnown' /\ Remembered'
  <2>1. InFlight' /\ LimitKnown'
    BY <1>1 DEF Pass, InFlight, LimitKnown, LimiterTypeOK
  <2>2. clock \in Nat /\ clock' = clock + 1 /\ expireAt \in Int /\ expireAt' = expireAt
    BY <1>1 DEF Pass, LimiterTypeOK
  <2>3. admitted' \subseteq 0..clock' /\ members' \subseteq 0..clock'
    <3>1. admitted' = admitted /\ members' \subseteq members
      BY <1>1 DEF Pass
    <3>2. 0..clock \subseteq 0..clock'
      BY <2>2
    <3> QED
      BY <3>1, <3>2 DEF Remembered
  <2>4. ASSUME NEW a \in admitted', a > clock' - Window PROVE a \in members'
    <3>1. a \in admitted /\ a \in 0..clock /\ a > clock - Window
      BY <1>1, <2>2, <2>4 DEF Pass, Remembered
    <3>2. a \in members /\ a + Window <= expireAt
      BY <3>1 DEF Remembered
    <3>3. ~ (expireAt <= clock')
      BY <2>2, <2>4, <3>1, <3>2
    <3> QED
      BY <1>1, <3>2, <3>3 DEF Pass
  <2>5. \A m \in members' : m + Window <= expireAt'
    BY <1>1 DEF Pass, Remembered
  <2> QED
    BY <2>1, <2>3, <2>4, <2>5 DEF Remembered
<1>2. ASSUME NEW r \in Requests, Arrive(r) PROVE InFlight' /\ LimitKnown' /\ Remembered'
  BY <1>2, LargestLimit DEF Arrive, InFlight, LimitKnown, Remembered, LimiterTypeOK
<1>3. ASSUME NEW r \in Requests, Exec(r) PROVE InFlight' /\ LimitKnown' /\ Remembered'
  <2>1. InFlight' /\ LimitKnown'
    BY <1>3 DEF Exec, Counted, Ended, InFlight, LimitKnown, LimiterTypeOK
  <2> DEFINE at == request[r].at
             left == Left(at) \cup {at}
  <2>2. /\ at \in 0..clock /\ clock \in Nat /\ members' = left /\ left \subseteq 0..clock
        /\ \A m \in members : m > clock - Window => m \in left
    BY <1>3, LeftInstants DEF Exec, Counted
  <2>3. /\ admitted' \subseteq admitted \cup {at} /\ clock' = clock
        /\ expireAt' = clock + Window
    BY <1>3 DEF Exec, Counted
  <2>4. admitted' \subseteq 0..clock'
    BY <2>2, <2>3 DEF Remembered
  <2>5. at \in left
    OBVIOUS
  <2> HIDE DEF at, left
  <2>6. ASSUME NEW a \in admitted', a > clock' - Window PROVE a \in members'
    BY <2>2, <2>3, <2>5, <2>6 DEF Remembered
  <2>7. \A m \in members' : m + Window <= expireAt'
    BY <2>2, <2>3
  <2> QED
    BY <2>1, <2>2, <2>3, <2>4, <2>6, <2>7 DEF Remembered
<1>4. ASSUME NEW r \in Requests, Reject(r) PROVE InFlight' /\ LimitKnown' /\ Remembered'
  BY <1>4 DEF Reject, InFlight, LimitKnown, Remembered, LimiterTypeOK
<1>5. CASE UNCHANGED limiterVars
  BY <1>5 DEF limiterVars, InFlight, LimitKnown, Remembered
<1> QED
  BY <1>1, <1>2, <1>3, <1>4, <1>5 DEF LimiterNext

(* A request that is let through leaves its window within the limit: all   *)
(* that was admitted in it is in the set its pipeline counted.             *)
LEMMA AdmittedWithinLimit ==
  ASSUME LimiterTypeOK, LimiterInv, NEW r \in Requests, Exec(r)
  PROVE  WindowBounded'
<1> USE LimiterAssumption
<1> DEFINE In(A, t) == {a \in A : a <= t /\ a > t - (Window - Lag)}
<1>0. PICK at : at = request[r].at
  OBVIOUS
<1>1. PICK left : left = Left(at) \cup {at}
  OBVIOUS
<1>2. /\ at \in 0..clock /\ clock \in Nat /\ clock <= at + Lag
      /\ left \subseteq 0..clock /\ IsFiniteSet(left) /\ Cardinality(left) \in Nat
      /\ \A m \in members : m > clock - Window => m \in left
  BY <1>0, <1>1, LeftInstants DEF LimiterInv
<1>3. CASE Cardinality(left) > request[r].limit
  <2>1. admitted' = admitted
    BY <1>0, <1>1, <1>3 DEF Exec, Counted
  <2> QED
    BY <2>1 DEF LimiterInv, WindowBounded
<1>4. CASE ~ (Cardinality(left) > request[r].limit)
  <2>1. admitted' = admitted \cup {at} /\ admitted \subseteq 0..clock
    BY <1>0, <1>1, <1>4 DEF Exec, Counted, LimiterInv, Remembered
  <2>2. Cardinality(left) <= Limit("pro")
    <3>1. request[r].limit \in Nat /\ request[r].limit <= Limit("pro")
      BY DEF Exec, Counted, LimiterTypeOK, LimiterInv, LimitKnown
    <3> QED
      BY <1>2, <1>4, <3>1, LargestLimit
  <2>3. ASSUME NEW t \in 0..MaxClock PROVE Cardinality(In(admitted', t)) <= Limit("pro")
    <3>1. CASE at \notin In({at}, t)
      <4>1. In(admitted', t) = In(admitted, t)
        BY <2>1, <3>1
      <4> QED
        BY <4>1 DEF LimiterInv, WindowBounded
    <3>2. CASE at \in In({at}, t)
      <4>1. In(admitted', t) \subseteq left
        <5> SUFFICES ASSUME NEW a \in In(admitted', t) PROVE a \in left
          OBVIOUS
        <5>1. CASE a = at
          BY <1>1, <5>1
        <5>2. CASE a # at
          <6>1. a \in admitted /\ a \in 0..clock /\ a > t - (Window - Lag) /\ at <= t
            BY <2>1, <3>2, <5>2
          <6>2. t \in Nat /\ Window \in Nat /\ Lag \in Nat /\ at \in Nat
            BY <1>2
          <6> HIDE DEF In
          <6>3. a > clock - Window
            BY <1>2, <6>1, <6>2
          <6>4. a \in members
            BY <6>1, <6>3 DEF LimiterInv, Remembered
          <6> QED
            BY <1>2, <6>3, <6>4
        <5> QED
          BY <5>1, <5>2
      <4>2. Cardinality(In(admitted', t)) <= Cardinality(left)
        BY <1>2, <4>1, FS_Subset
      <4>3. Cardinality(In(admitted', t)) \in Nat
        BY <1>2, <4>1, FS_Subset, FS_CardinalityType
      <4> QED
        BY <1>2, <2>2, <4>2, <4>3, LargestLimit
    <3> QED
      BY <3>1, <3>2
  <2> QED
    BY <2>3 DEF WindowBounded
<1> QED
  BY <1>3, <1>4

(* The whole invariant is inductive.                                       *)
LEMMA LimiterInvStep ==
  LimiterTypeOK /\ LimiterInv /\ [LimiterNext]_limiterVars => LimiterTypeOK' /\ LimiterInv'
<1> SUFFICES ASSUME LimiterTypeOK, LimiterInv, [LimiterNext]_limiterVars
             PROVE  LimiterTypeOK' /\ LimiterInv'
  OBVIOUS
<1>1. LimiterTypeOK' /\ InFlight' /\ LimitKnown' /\ Remembered'
  BY LimiterTypeStep, LimiterMemoryStep DEF LimiterInv
<1>2. WindowBounded'
  <2>1. CASE \E r \in Requests : Exec(r)
    BY <2>1, AdmittedWithinLimit
  <2>2. CASE ~ \E r \in Requests : Exec(r)
    <3>1. admitted' = admitted
      BY <2>2 DEF LimiterNext, Pass, Arrive, Reject, limiterVars
    <3> QED
      BY <3>1 DEF LimiterInv, WindowBounded
  <2> QED
    BY <2>1, <2>2
<1> QED
  BY <1>1, <1>2 DEF LimiterInv

LEMMA LimiterInvariant == LimiterSpec => [](LimiterTypeOK /\ LimiterInv)
BY LimiterInitInv, LimiterInvStep, PTL DEF LimiterSpec

(* Every reachable state of the limiter is typed.                          *)
THEOREM LimiterTypes == LimiterSpec => []LimiterTypeOK
BY LimiterInvariant, PTL

(* No Window - Lag consecutive instants hold more admitted requests than   *)
(* the largest limit, Lag being the longest that a request takes from its  *)
(* clock to its pipeline: the whole Window does not, unless Lag is 0.      *)
THEOREM LimitHolds == LimiterSpec => []WindowBounded
<1>1. LimiterTypeOK /\ LimiterInv => WindowBounded
  BY DEF LimiterInv
<1> QED
  BY LimiterInvariant, <1>1, PTL

-----------------------------------------------------------------------------
(* CardWallet: a user has at most one preferred card.                      *)

(* What has to be said of the transaction t that request q goes on with,   *)
(* for a step that commits nothing to preserve the invariant.              *)
HoldsAs(t) == t.pc = "mark" \/ (t.pc = "commit" /\ t.op = "prefer")

TypedTx(t) ==
    /\ t \in Txs
    /\ t.op \in {"add", "prefer", "pick"} => t.card \in Cards
    /\ t.pc = "commit" /\ t.op = "pick" => t.pick \subseteq Program[t.card].allowed

PutTx(q, t) ==
    /\ \A d \in Sessions \ {q} : DOMAIN t.put \cap DOMAIN tx[d].put = {}
    /\ t.pc \in {"idle", "write", "unset"} => DOMAIN t.put = {}
    /\ \A c \in DOMAIN t.put :
          /\ t.put[c].status # "absent"
          /\ t.put[c].preferred =>
                IF t.op = "prefer" THEN t.pc = "commit" /\ c = t.card ELSE wallet[c].preferred

WaitTx(q, t) ==
    /\ t.pc \in {"unset", "mark"} => t.op = "prefer"
    /\ t.op = "prefer" => t.card \in Exists
    /\ t.pc = "unset" =>
          /\ t.card \in t.seen /\ t.seen \subseteq Exists /\ Preferred \subseteq t.seen
          /\ \A d \in Sessions \ {q} :
                tx[d].pc # "unset" /\ (Holds(d) => DOMAIN tx[d].put \subseteq t.seen)

HoldTx(q, t) ==
    HoldsAs(t) =>
        /\ t.card \in DOMAIN t.put
        /\ DOMAIN t.put \subseteq Exists /\ Preferred \subseteq DOMAIN t.put
        /\ \A d \in Sessions \ {q} :
              ~Holds(d) /\ (tx[d].pc = "unset" => DOMAIN t.put \subseteq tx[d].seen)

LEMMA NoTxTyped == NoTx \in Txs /\ DOMAIN NoTx.put = {}
  <1>1. <<>> \in [{} -> Row] /\ DOMAIN <<>> = {}
    OBVIOUS
  <1>2. NoTx.put \in UNION {[S -> Row] : S \in SUBSET Cards}
    BY <1>1 DEF NoTx
  <1> QED
    BY <1>1, <1>2 DEF NoTx, Txs, Statuses

(* A step of request q that leaves the tables alone.                       *)
LEMMA TxFrame ==
    ASSUME WalletInv, NEW q \in Sessions, NEW t,
           TypedTx(t), PutTx(q, t), WaitTx(q, t), HoldTx(q, t),
           Set(q, t), UNCHANGED <<wallet, picks, profile>>
    PROVE  WalletInv'
  <1> USE DEF WalletInv
  <1>1. /\ tx' \in [Sessions -> Txs] /\ tx'[q] = t
        /\ \A d \in Sessions \ {q} : tx'[d] = tx[d]
    BY DEF Set, TxOK, TypedTx
  <1>2. Exists' = Exists /\ Preferred' = Preferred
    BY DEF Exists, Preferred
  <1>3. Holds(q)' <=> HoldsAs(t)
    BY <1>1 DEF Holds, HoldsAs
  <1>4. \A d \in Sessions \ {q} : Holds(d)' <=> Holds(d)
    BY <1>1 DEF Holds
  <1>5. TxOK'
    BY <1>1 DEF TxOK, TypedTx
  <1>6. RowsOK'
    BY <1>2 DEF RowsOK
  <1>7. PicksOK'
    BY <1>1 DEF PicksOK, TypedTx
  <1>8. PutsOK'
    <2>1. \A d, e \in Sessions : d # e => DOMAIN tx'[d].put \cap DOMAIN tx'[e].put = {}
      BY <1>1 DEF PutTx, PutsOK
    <2>2. ASSUME NEW d \in Sessions
          PROVE  /\ tx'[d].pc \in {"idle", "write", "unset"} => DOMAIN tx'[d].put = {}
                 /\ \A c \in DOMAIN tx'[d].put :
                       /\ tx'[d].put[c].status # "absent"
                       /\ tx'[d].put[c].preferred =>
                             IF tx'[d].op = "prefer" THEN tx'[d].pc = "commit" /\ c = tx'[d].card
                             ELSE wallet'[c].preferred
      <3>1. CASE d = q
        BY <3>1, <1>1 DEF PutTx
      <3>2. CASE d # q
        BY <3>2, <1>1 DEF PutsOK
      <3> QED
        BY <3>1, <3>2
    <2> QED
      BY <2>1, <2>2 DEF PutsOK
  <1>9. WaitersOK'
    <2> SUFFICES ASSUME NEW d \in Sessions
                 PROVE  /\ tx'[d].pc \in {"unset", "mark"} => tx'[d].op = "prefer"
                        /\ tx'[d].op = "prefer" => tx'[d].card \in Exists
                        /\ tx'[d].pc = "unset" =>
                              /\ tx'[d].card \in tx'[d].seen /\ tx'[d].seen \subseteq Exists
                              /\ Preferred \subseteq tx'[d].seen
                              /\ \A e \in Sessions \ {d} : tx'[e].pc # "unset"
                              /\ \A e \in Sessions : Holds(e)' => DOMAIN tx'[e].put \subseteq tx'[d].seen
      BY <1>2 DEF WaitersOK
    <2>1. CASE d = q
      BY <2>1, <1>1, <1>3, <1>4 DEF WaitTx, HoldsAs
    <2>2. CASE d # q
      BY <2>2, <1>1, <1>3, <1>4 DEF WaitersOK, HoldTx, WaitTx
    <2> QED
      BY <2>1, <2>2
  <1>10. HoldersOK'
    <2> SUFFICES ASSUME NEW d \in Sessions, Holds(d)'
                 PROVE  /\ tx'[d].card \in DOMAIN tx'[d].put
                        /\ DOMAIN tx'[d].put \subseteq Exists /\ Preferred \subseteq DOMAIN tx'[d].put
                        /\ \A e \in Sessions \ {d} : ~Holds(e)'
      BY <1>2 DEF HoldersOK
    <2>1. CASE d = q
      BY <2>1, <1>1, <1>3, <1>4 DEF HoldTx
    <2>2. CASE d # q
      BY <2>2, <1>1, <1>3, <1>4 DEF HoldersOK, HoldTx
    <2> QED
      BY <2>1, <2>2
  <1>11. AtMostOnePreferred'
    BY DEF AtMostOnePreferred
  <1> QED
    BY <1>5, <1>6, <1>7, <1>8, <1>9, <1>10, <1>11

-----------------------------------------------------------------------------
(* One lemma for each action.                                              *)
LEMMA InitStep == WalletInit => WalletInv
  <1> SUFFICES ASSUME WalletInit PROVE WalletInv
    OBVIOUS
  <1> USE NoTxTyped DEF WalletInit
  <1>1. \A q \in Sessions : tx[q] = NoTx
    OBVIOUS
  <1>2. TxOK
    BY <1>1 DEF TxOK, NoTx
  <1>3. RowsOK /\ AtMostOnePreferred
    BY DEF RowsOK, NoRow, Row, Statuses, Preferred, Exists, AtMostOnePreferred
  <1>4. PicksOK
    BY <1>1 DEF PicksOK, NoTx
  <1>5. PutsOK
    BY <1>1 DEF PutsOK, NoTx
  <1>6. WaitersOK /\ HoldersOK
    BY <1>1 DEF WaitersOK, HoldersOK, Holds, NoTx
  <1> QED
    BY <1>2, <1>3, <1>4, <1>5, <1>6 DEF WalletInv

LEMMA NoTxGood ==
    ASSUME NEW q \in Sessions
    PROVE  TypedTx(NoTx) /\ PutTx(q, NoTx) /\ WaitTx(q, NoTx) /\ HoldTx(q, NoTx)
  BY NoTxTyped DEF TypedTx, PutTx, WaitTx, HoldTx, HoldsAs, NoTx

LEMMA FailStep ==
    ASSUME WalletInv, NEW q \in Sessions, Fail(q), UNCHANGED <<wallet, picks, profile>>
    PROVE  WalletInv'
  BY NoTxGood, TxFrame DEF Fail

LEMMA SelectStep ==
    ASSUME WalletInv, NEW q \in Sessions, NEW c \in Cards,
           NEW op \in {"add", "prefer", "pick"}, Select(q, op, c)
    PROVE  WalletInv'
  <1> DEFINE loaded == IF op = "pick" /\ picks[c] # {} THEN "active"
                       ELSE IF op = "pick" THEN "absent" ELSE wallet[c].status
             t == [NoTx EXCEPT !.pc = "write", !.op = op, !.card = c, !.loaded = loaded]
  <1>1. loaded \in Statuses
    BY DEF WalletInv, RowsOK, Row, Statuses
  <1>2. TypedTx(t)
    BY <1>1, NoTxTyped DEF TypedTx, Txs
  <1>3. t.pc = "write" /\ t.op = op /\ t.card = c /\ DOMAIN t.put = {}
    BY NoTxTyped DEF NoTx
  <1>4. PutTx(q, t)
    BY <1>3 DEF PutTx
  <1>5. WaitTx(q, t)
    BY <1>3 DEF WaitTx, Select, Exists
  <1>6. HoldTx(q, t)
    BY <1>3 DEF HoldTx, HoldsAs
  <1>7. Set(q, t)
    BY DEF Select
  <1> QED
    BY <1>2, <1>4, <1>5, <1>6, <1>7, TxFrame DEF Select

(* A row written alone, by a request that prefers no card.                 *)
LEMMA OneRowPut ==
    ASSUME NEW c \in Cards, NEW row \in Row
    PROVE  [x \in {c} |-> row] \in UNION {[S -> Row] : S \in SUBSET Cards}
  <1>1. [x \in {c} |-> row] \in [{c} -> Row]
    OBVIOUS
  <1> QED
    BY <1>1

LEMMA OneRowGood ==
    ASSUME WalletInv, NEW q \in Sessions, NEW t \in Txs, NEW c \in Cards, NEW row \in Row,
           c \notin LockedByOthers(q), t.pc = "commit", t.op \in {"add", "remove"},
           t.card \in Cards, t.put = [x \in {c} |-> row],
           row.status # "absent", row.preferred => wallet[c].preferred
    PROVE  TypedTx(t) /\ PutTx(q, t) /\ WaitTx(q, t) /\ HoldTx(q, t)
  <1>1. DOMAIN t.put = {c} /\ t.put[c] = row
    OBVIOUS
  <1>2. TypedTx(t)
    BY DEF TypedTx
  <1>3. PutTx(q, t)
    BY <1>1 DEF PutTx, LockedByOthers
  <1>4. WaitTx(q, t) /\ HoldTx(q, t)
    BY DEF WaitTx, HoldTx, HoldsAs
  <1> QED
    BY <1>2, <1>3, <1>4

(* A request that has written nothing and goes on to its commit.           *)
LEMMA NoPutGood ==
    ASSUME WalletInv, NEW q \in Sessions, NEW t, TypedTx(t), DOMAIN t.put = {},
           t.pc = "commit", t.op # "prefer"
    PROVE  PutTx(q, t) /\ WaitTx(q, t) /\ HoldTx(q, t)
  BY DEF PutTx, WaitTx, HoldTx, HoldsAs

LEMMA AddCardStep ==
    ASSUME WalletInv, NEW q \in Sessions, AddCard(q)
    PROVE  WalletInv'
  <1> DEFINE c == tx[q].card
  <1>1. /\ tx[q] \in Txs /\ tx[q].pc = "write" /\ tx[q].op = "add" /\ c \in Cards
        /\ DOMAIN tx[q].put = {} /\ wallet[c] \in Row /\ c \notin LockedByOthers(q)
    BY DEF AddCard, Writing, WalletInv, TxOK, PutsOK, RowsOK
  <1>2. CASE tx[q].loaded = "absent" /\ wallet[c].status # "absent"
    BY <1>2, FailStep DEF AddCard
  <1>3. ASSUME NEW row \in Row, Wrote(q, c, row), row.status # "absent",
               row.preferred => wallet[c].preferred, UNCHANGED <<wallet, picks, profile>>
        PROVE  WalletInv'
    <2> DEFINE t == [tx[q] EXCEPT !.pc = "commit", !.put = [x \in {c} |-> row]]
    <2>1. t \in Txs /\ t.pc = "commit" /\ t.op = "add" /\ t.card = c /\ t.put = [x \in {c} |-> row]
      BY <1>1, OneRowPut DEF Txs
    <2>2. Set(q, t)
      BY <1>3 DEF Wrote
    <2> HIDE DEF t
    <2> QED
      BY <1>1, <1>3, <2>1, <2>2, OneRowGood, TxFrame
  <1>4. CASE tx[q].loaded = "absent" /\ wallet[c].status = "absent"
    <2> DEFINE row == [status |-> "active", preferred |-> FALSE]
    <2>1. row \in Row /\ row.status # "absent" /\ ~row.preferred
      BY DEF Row, Statuses
    <2>2. Wrote(q, c, row) /\ UNCHANGED <<wallet, picks, profile>>
      BY <1>4 DEF AddCard
    <2> HIDE DEF row
    <2> QED
      BY <2>1, <2>2, <1>3
  <1>5. CASE tx[q].loaded = "inactive"
    <2> DEFINE row == [wallet[c] EXCEPT !.status = "active"]
    <2>1. row \in Row /\ row.status # "absent" /\ (row.preferred => wallet[c].preferred)
      BY <1>1 DEF Row, Statuses
    <2>2. Wrote(q, c, row) /\ UNCHANGED <<wallet, picks, profile>>
      BY <1>5 DEF AddCard
    <2> QED
      BY <2>1, <2>2, <1>3
  <1>6. CASE tx[q].loaded = "active"
    <2> DEFINE t == [tx[q] EXCEPT !.pc = "commit"]
    <2>1. Set(q, t) /\ UNCHANGED <<wallet, picks, profile>>
      BY <1>6 DEF AddCard
    <2>2. t \in Txs /\ t.pc = "commit" /\ t.op = "add" /\ t.card = c /\ DOMAIN t.put = {}
      BY <1>1 DEF Txs
    <2> HIDE DEF t
    <2>3. TypedTx(t)
      BY <2>2, <1>1 DEF TypedTx
    <2> QED
      BY <2>1, <2>2, <2>3, NoPutGood, TxFrame
  <1> QED
    BY <1>1, <1>2, <1>4, <1>5, <1>6 DEF Txs, Statuses

LEMMA RemoveCardStep ==
    ASSUME WalletInv, NEW q \in Sessions, NEW c \in Cards, RemoveCard(q, c)
    PROVE  WalletInv'
  <1> DEFINE row == [status |-> "inactive", preferred |-> FALSE]
             t == [NoTx EXCEPT !.pc = "commit", !.op = "remove", !.card = c, !.put = [x \in {c} |-> row]]
  <1>1. row \in Row /\ row.status # "absent" /\ ~row.preferred
    BY DEF Row, Statuses
  <1> HIDE DEF row
  <1>2. t \in Txs /\ t.pc = "commit" /\ t.op = "remove" /\ t.card = c /\ t.put = [x \in {c} |-> row]
    BY <1>1, NoTxTyped, OneRowPut DEF Txs
  <1>3. Set(q, t) /\ c \notin LockedByOthers(q) /\ UNCHANGED <<wallet, picks, profile>>
    BY DEF RemoveCard, row
  <1> HIDE DEF t
  <1> QED
    BY <1>1, <1>2, <1>3, OneRowGood, TxFrame

(* The UPDATE of set_preferred over the rows it has found, every row of a  *)
(* holder among them: it has them all, and there is no holder, or it waits.*)
LEMMA UnsettingGood ==
    ASSUME WalletInv, NEW q \in Sessions, NEW seen \in SUBSET Exists,
           tx[q].op = "prefer", tx[q].pc \in {"write", "unset"},
           tx[q].card \in seen, Preferred \subseteq seen,
           \A d \in Sessions \ {q} : tx[d].pc # "unset",
           \A d \in Sessions : Holds(d) => DOMAIN tx[d].put \subseteq seen
    PROVE  LET t == Unsetting(q, seen)
           IN  TypedTx(t) /\ PutTx(q, t) /\ WaitTx(q, t) /\ HoldTx(q, t)
  <1> DEFINE t == Unsetting(q, seen)
             put == [c \in seen |-> [wallet[c] EXCEPT !.preferred = FALSE]]
  <1>1. tx[q] \in Txs /\ DOMAIN tx[q].put = {} /\ seen \subseteq Cards /\ tx[q].card \in Cards
    BY DEF WalletInv, TxOK, PutsOK, Exists
  <1>2. CASE seen \cap LockedByOthers(q) = {}
    <2>1. \A c \in seen : wallet[c] \in Row /\ wallet[c].status # "absent"
      BY DEF Exists, WalletInv, RowsOK
    <2>2. /\ put \in [seen -> Row]
          /\ \A c \in seen : put[c].status # "absent" /\ ~put[c].preferred
      BY <2>1 DEF Row, Statuses
    <2>3. put \in UNION {[S -> Row] : S \in SUBSET Cards} /\ DOMAIN put = seen
      BY <1>1, <2>2
    <2>4. t = [tx[q] EXCEPT !.pc = "mark", !.put = put]
      BY <1>2 DEF Unsetting
    <2> HIDE DEF put, t
    <2>5. /\ t \in Txs /\ t.pc = "mark" /\ t.op = "prefer"
          /\ t.card = tx[q].card /\ t.put = put
      BY <1>1, <2>3, <2>4 DEF Txs
    <2>6. TypedTx(t)
      BY <1>1, <2>5 DEF TypedTx
    <2>7. PutTx(q, t)
      BY <1>2, <2>2, <2>3, <2>5 DEF PutTx, LockedByOthers
    <2>8. WaitTx(q, t)
      BY <2>5 DEF WaitTx
    <2>9. ASSUME NEW d \in Sessions \ {q}, Holds(d) PROVE FALSE
      <3>1. tx[d].card \in DOMAIN tx[d].put
        BY <2>9 DEF WalletInv, HoldersOK
      <3>2. tx[d].card \in seen /\ tx[d].card \in LockedByOthers(q)
        BY <2>9, <3>1 DEF LockedByOthers
      <3> QED
        BY <1>2, <3>2
    <2>10. HoldTx(q, t)
      BY <2>3, <2>5, <2>9 DEF HoldTx
    <2> QED
      BY <2>6, <2>7, <2>8, <2>10 DEF t
  <1>3. CASE seen \cap LockedByOthers(q) # {}
    <2>1. t = [tx[q] EXCEPT !.pc = "unset", !.seen = seen]
      BY <1>3 DEF Unsetting
    <2> HIDE DEF t
    <2>2. /\ t \in Txs /\ t.pc = "unset" /\ t.op = "prefer" /\ t.seen = seen
          /\ t.card = tx[q].card /\ t.put = tx[q].put
      BY <1>1, <2>1 DEF Txs
    <2>3. TypedTx(t)
      BY <1>1, <2>2 DEF TypedTx
    <2>4. PutTx(q, t) /\ HoldTx(q, t)
      BY <1>1, <2>2 DEF PutTx, HoldTx, HoldsAs
    <2>5. WaitTx(q, t)
      BY <2>2 DEF WaitTx
    <2> QED
      BY <2>3, <2>4, <2>5 DEF t
  <1> QED
    BY <1>2, <1>3

LEMMA UnsetStep ==
    ASSUME WalletInv, NEW q \in Sessions, Unset(q)
    PROVE  WalletInv'
  <1> DEFINE t == Unsetting(q, Exists)
  <1>1. /\ tx[q].pc = "write" /\ tx[q].op = "prefer" /\ Set(q, t)
        /\ UNCHANGED <<wallet, picks, profile>>
    BY DEF Unset, Writing, Exists
  <1>2. \A d \in Sessions \ {q} : tx[d].pc # "unset"
    BY DEF Unset, Waiting
  <1>3. /\ tx[q].card \in Exists /\ Preferred \subseteq Exists
        /\ \A d \in Sessions : Holds(d) => DOMAIN tx[d].put \subseteq Exists
    BY <1>1 DEF WalletInv, WaitersOK, RowsOK, HoldersOK
  <1>4. TypedTx(t) /\ PutTx(q, t) /\ WaitTx(q, t) /\ HoldTx(q, t)
    BY <1>1, <1>2, <1>3, UnsettingGood
  <1> HIDE DEF t
  <1> QED
    BY <1>1, <1>4, TxFrame

LEMMA UnsetAfterWaitStep ==
    ASSUME WalletInv, NEW q \in Sessions, UnsetAfterWait(q)
    PROVE  WalletInv'
  <1> DEFINE t == Unsetting(q, tx[q].seen)
  <1>1. tx[q].pc = "unset" /\ Set(q, t) /\ UNCHANGED <<wallet, picks, profile>>
    BY DEF UnsetAfterWait
  <1>2. /\ tx[q].op = "prefer" /\ tx[q].card \in tx[q].seen /\ tx[q].seen \subseteq Exists
        /\ Preferred \subseteq tx[q].seen
        /\ \A d \in Sessions \ {q} : tx[d].pc # "unset"
        /\ \A d \in Sessions : Holds(d) => DOMAIN tx[d].put \subseteq tx[q].seen
    BY <1>1 DEF WalletInv, WaitersOK
  <1>3. TypedTx(t) /\ PutTx(q, t) /\ WaitTx(q, t) /\ HoldTx(q, t)
    BY <1>1, <1>2, UnsettingGood
  <1> HIDE DEF t
  <1> QED
    BY <1>1, <1>3, TxFrame

LEMMA MarkStep ==
    ASSUME WalletInv, NEW q \in Sessions, Mark(q)
    PROVE  WalletInv'
  <1> DEFINE c == tx[q].card
             old == tx[q].put
             put == [x \in DOMAIN old \cup {c} |->
                       IF x = c THEN [With(old)[c] EXCEPT !.preferred = TRUE] ELSE old[x]]
             t == [tx[q] EXCEPT !.pc = "commit", !.put = put]
  <1>1. tx[q].pc = "mark" /\ Set(q, t) /\ UNCHANGED <<wallet, picks, profile>>
    BY DEF Mark
  <1>2. /\ tx[q] \in Txs /\ tx[q].op = "prefer" /\ Holds(q)
        /\ c \in DOMAIN old /\ DOMAIN old \subseteq Exists /\ Preferred \subseteq DOMAIN old
        /\ \A d \in Sessions \ {q} : ~Holds(d)
    BY <1>1 DEF WalletInv, TxOK, WaitersOK, HoldersOK, Holds
  <1>3. /\ DOMAIN old \subseteq Cards
        /\ \A x \in DOMAIN old : old[x] \in Row /\ old[x].status # "absent" /\ ~old[x].preferred
    <2>1. PICK S \in SUBSET Cards : old \in [S -> Row]
      BY <1>2 DEF Txs
    <2>2. DOMAIN old = S /\ \A x \in S : old[x] \in Row
      BY <2>1
    <2>3. \A x \in DOMAIN old : old[x].status # "absent" /\ ~old[x].preferred
      BY <1>1, <1>2 DEF WalletInv, PutsOK
    <2> QED
      BY <2>2, <2>3
  <1>4. With(old)[c] = old[c]
    BY <1>2, <1>3 DEF With
  <1>5. /\ put \in [DOMAIN old -> Row]
        /\ \A x \in DOMAIN old : put[x].status # "absent" /\ (put[x].preferred => x = c)
    <2>1. /\ [old[c] EXCEPT !.preferred = TRUE] \in Row
          /\ [old[c] EXCEPT !.preferred = TRUE].status # "absent"
      BY <1>2, <1>3 DEF Row
    <2>2. put = [x \in DOMAIN old |-> IF x = c THEN [old[c] EXCEPT !.preferred = TRUE] ELSE old[x]]
      BY <1>2, <1>4
    <2> HIDE DEF put
    <2> QED
      BY <1>3, <2>1, <2>2
  <1>6. put \in UNION {[S -> Row] : S \in SUBSET Cards} /\ DOMAIN put = DOMAIN old
    BY <1>3, <1>5
  <1> HIDE DEF put
  <1>7. t \in Txs /\ t.pc = "commit" /\ t.op = "prefer" /\ t.card = c /\ t.put = put
    BY <1>2, <1>6 DEF Txs
  <1> HIDE DEF t
  <1>8. TypedTx(t)
    BY <1>2, <1>3, <1>7 DEF TypedTx
  <1>9. PutTx(q, t)
    BY <1>5, <1>6, <1>7 DEF PutTx, WalletInv, PutsOK
  <1>10. WaitTx(q, t)
    BY <1>2, <1>7 DEF WaitTx
  <1>11. \A d \in Sessions \ {q} : tx[d].pc = "unset" => DOMAIN old \subseteq tx[d].seen
    BY <1>2 DEF WalletInv, WaitersOK
  <1>12. HoldTx(q, t)
    BY <1>2, <1>6, <1>7, <1>11 DEF HoldTx
  <1> QED
    BY <1>1, <1>8, <1>9, <1>10, <1>12, TxFrame

LEMMA SetCategoriesStep ==
    ASSUME WalletInv, NEW q \in Sessions, SetCategories(q)
    PROVE  WalletInv'
  <1> DEFINE c == tx[q].card
  <1>1. CASE tx[q].loaded = "absent" /\ picks[c] # {}
    BY <1>1, FailStep DEF SetCategories
  <1>2. CASE ~(tx[q].loaded = "absent" /\ picks[c] # {})
    <2>1. PICK some \in SUBSET Program[c].allowed :
              Set(q, [tx[q] EXCEPT !.pc = "commit", !.pick = some])
      BY <1>2 DEF SetCategories
    <2> DEFINE t == [tx[q] EXCEPT !.pc = "commit", !.pick = some]
    <2>2. tx[q] \in Txs /\ tx[q].op = "pick" /\ c \in Cards /\ DOMAIN tx[q].put = {}
      BY DEF SetCategories, Writing, WalletInv, TxOK, PutsOK
    <2>3. /\ t \in Txs /\ t.pc = "commit" /\ t.op = "pick" /\ t.card = c
          /\ t.pick = some /\ DOMAIN t.put = {}
      <3>1. some \in SUBSET UNION {Program[d].allowed : d \in Cards}
        BY <2>2
      <3>2. t = [[tx[q] EXCEPT !.pc = "commit"] EXCEPT !.pick = some]
        OBVIOUS
      <3> HIDE DEF t
      <3> QED
        BY <2>2, <3>1, <3>2 DEF Txs
    <2>4. Set(q, t) /\ UNCHANGED <<wallet, picks, profile>>
      BY <2>1 DEF SetCategories
    <2> HIDE DEF t
    <2>5. TypedTx(t)
      BY <2>2, <2>3 DEF TypedTx
    <2> QED
      BY <2>3, <2>4, <2>5, NoPutGood, TxFrame
  <1> QED
    BY <1>1, <1>2

LEMMA ProfileStep ==
    ASSUME WalletInv, NEW q \in Sessions, GetOrCreateProfile(q)
    PROVE  WalletInv' \/ UNCHANGED walletVars
  <1>1. CASE profile
    BY <1>1 DEF GetOrCreateProfile, walletVars
  <1>2. CASE ~profile
    <2> DEFINE t == [NoTx EXCEPT !.pc = "commit", !.op = "profile"]
    <2>1. Set(q, t) /\ UNCHANGED <<wallet, picks, profile>>
      BY <1>2 DEF GetOrCreateProfile
    <2>2. t \in Txs /\ t.pc = "commit" /\ t.op = "profile" /\ DOMAIN t.put = {}
      BY NoTxTyped DEF Txs
    <2> HIDE DEF t
    <2>3. TypedTx(t)
      BY <2>2 DEF TypedTx
    <2> QED
      BY <2>1, <2>2, <2>3, NoPutGood, TxFrame
  <1> QED
    BY <1>1, <1>2

(* What a commit leaves preferred: the card of the holder, or less than    *)
(* before.                                                                 *)
LEMMA CommitStep ==
    ASSUME WalletInv, NEW q \in Sessions, Commit(q)
    PROVE  WalletInv'
  <1> DEFINE put == tx[q].put
  <1>1. /\ tx[q] \in Txs /\ tx[q].pc = "commit" /\ DOMAIN put \subseteq Cards
        /\ \A c \in DOMAIN put : put[c] \in Row /\ put[c].status # "absent"
    <2>1. tx[q] \in Txs /\ tx[q].pc = "commit"
      BY DEF Commit, WalletInv, TxOK
    <2>2. PICK S \in SUBSET Cards : put \in [S -> Row]
      BY <2>1 DEF Txs
    <2>3. DOMAIN put = S /\ \A c \in S : put[c] \in Row
      BY <2>2
    <2>4. \A c \in DOMAIN put : put[c].status # "absent"
      BY DEF WalletInv, PutsOK
    <2> QED
      BY <2>1, <2>3, <2>4
  <1>2. wallet' = [c \in Cards |-> IF c \in DOMAIN put THEN put[c] ELSE wallet[c]]
    BY DEF Commit, With
  <1>3. /\ tx' \in [Sessions -> Txs] /\ tx'[q] = NoTx
        /\ \A d \in Sessions \ {q} : tx'[d] = tx[d]
    BY NoTxTyped DEF Commit, Fail, Set, WalletInv, TxOK
  <1>4. ~Holds(q)' /\ \A d \in Sessions \ {q} : Holds(d)' <=> Holds(d)
    BY <1>3 DEF Holds, NoTx
  <1>5. Exists \subseteq Exists'
    BY <1>1, <1>2 DEF Exists
  <1>6. ASSUME ~Holds(q) PROVE Preferred' \subseteq Preferred
    <2>1. tx[q].op # "prefer"
      BY <1>1, <1>6 DEF Holds
    <2>2. \A c \in DOMAIN put : put[c].preferred => wallet[c].preferred
      BY <2>1 DEF WalletInv, PutsOK
    <2> QED
      BY <1>2, <2>2 DEF Preferred
  <1>7. ASSUME Holds(q)
        PROVE  Preferred' \subseteq {tx[q].card} /\ tx[q].card \in DOMAIN put
    <2>1. /\ tx[q].op = "prefer" /\ tx[q].card \in DOMAIN put
          /\ Preferred \subseteq DOMAIN put
      BY <1>1, <1>7 DEF WalletInv, HoldersOK, Holds
    <2>2. \A c \in DOMAIN put : put[c].preferred => c = tx[q].card
      BY <2>1 DEF WalletInv, PutsOK
    <2> QED
      BY <1>2, <2>1, <2>2 DEF Preferred
  <1>8. TxOK'
    BY <1>3 DEF TxOK, NoTx, WalletInv
  <1>9. RowsOK'
    <2>1. wallet' \in [Cards -> Row]
      BY <1>1, <1>2 DEF WalletInv, RowsOK
    <2>2. Preferred' \subseteq Exists'
      BY <1>1, <1>2 DEF Preferred, Exists, WalletInv, RowsOK
    <2> QED
      BY <2>1, <2>2 DEF RowsOK
  <1>10. PicksOK'
    <2>1. \A c \in Cards : picks'[c] \subseteq SUBSET Program[c].allowed
      BY <1>1 DEF Commit, WalletInv, PicksOK
    <2>2. DOMAIN picks' = Cards /\ profile' \in BOOLEAN
      BY DEF Commit, WalletInv, PicksOK
    <2>3. \A d \in Sessions : tx'[d].pc = "commit" /\ tx'[d].op = "pick" =>
             tx'[d].pick \subseteq Program[tx'[d].card].allowed
      BY <1>3 DEF WalletInv, PicksOK, NoTx
    <2> QED
      BY <2>1, <2>2, <2>3 DEF PicksOK
  <1>11. PutsOK'
    <2>1. \A d, e \in Sessions : d # e => DOMAIN tx'[d].put \cap DOMAIN tx'[e].put = {}
      BY <1>3, NoTxTyped DEF WalletInv, PutsOK
    <2>2. ASSUME NEW d \in Sessions \ {q}, NEW c \in DOMAIN tx[d].put
          PROVE  wallet'[c] = wallet[c]
      <3>1. c \notin DOMAIN put
        BY DEF WalletInv, PutsOK
      <3>2. c \in Cards
        <4>1. PICK S \in SUBSET Cards : tx[d].put \in [S -> Row]
          BY DEF WalletInv, TxOK, Txs
        <4> QED
          BY <4>1
      <3> QED
        BY <1>2, <3>1, <3>2
    <2>3. \A d \in Sessions :
             /\ tx'[d].pc \in {"idle", "write", "unset"} => DOMAIN tx'[d].put = {}
             /\ \A c \in DOMAIN tx'[d].put :
                   /\ tx'[d].put[c].status # "absent"
                   /\ tx'[d].put[c].preferred =>
                         IF tx'[d].op = "prefer" THEN tx'[d].pc = "commit" /\ c = tx'[d].card
                         ELSE wallet'[c].preferred
      <3> SUFFICES ASSUME NEW d \in Sessions
                   PROVE  /\ tx'[d].pc \in {"idle", "write", "unset"} => DOMAIN tx'[d].put = {}
                          /\ \A c \in DOMAIN tx'[d].put :
                                /\ tx'[d].put[c].status # "absent"
                                /\ tx'[d].put[c].preferred =>
                                      IF tx'[d].op = "prefer"
                                      THEN tx'[d].pc = "commit" /\ c = tx'[d].card
                                      ELSE wallet'[c].preferred
        OBVIOUS
      <3>1. CASE d = q
        BY <1>3, <3>1, NoTxTyped
      <3>2. CASE d # q
        BY <1>3, <2>2, <3>2 DEF WalletInv, PutsOK
      <3> QED
        BY <3>1, <3>2
    <2> QED
      BY <2>1, <2>3 DEF PutsOK
  <1>12. WaitersOK'
    <2> SUFFICES ASSUME NEW d \in Sessions \ {q}
                 PROVE  /\ tx[d].pc \in {"unset", "mark"} => tx[d].op = "prefer"
                        /\ tx[d].op = "prefer" => tx[d].card \in Exists'
                        /\ tx[d].pc = "unset" =>
                              /\ tx[d].card \in tx[d].seen /\ tx[d].seen \subseteq Exists'
                              /\ Preferred' \subseteq tx[d].seen
                              /\ \A e \in Sessions \ {d} : tx'[e].pc # "unset"
                              /\ \A e \in Sessions :
                                    Holds(e)' => DOMAIN tx'[e].put \subseteq tx[d].seen
      BY <1>3 DEF WaitersOK, NoTx
    <2>1. /\ tx[d].pc \in {"unset", "mark"} => tx[d].op = "prefer"
          /\ tx[d].op = "prefer" => tx[d].card \in Exists'
      BY <1>5 DEF WalletInv, WaitersOK
    <2>2. ASSUME tx[d].pc = "unset"
          PROVE  /\ tx[d].card \in tx[d].seen /\ tx[d].seen \subseteq Exists'
                 /\ Preferred' \subseteq tx[d].seen
                 /\ \A e \in Sessions \ {d} : tx'[e].pc # "unset"
                 /\ \A e \in Sessions : Holds(e)' => DOMAIN tx'[e].put \subseteq tx[d].seen
      <3>1. /\ tx[d].card \in tx[d].seen /\ tx[d].seen \subseteq Exists
            /\ Preferred \subseteq tx[d].seen
            /\ \A e \in Sessions \ {d} : tx[e].pc # "unset"
            /\ \A e \in Sessions : Holds(e) => DOMAIN tx[e].put \subseteq tx[d].seen
        BY <2>2 DEF WalletInv, WaitersOK
      <3>2. Preferred' \subseteq tx[d].seen
        BY <1>6, <1>7, <3>1
      <3>3. \A e \in Sessions \ {d} : tx'[e].pc # "unset"
        BY <1>3, <3>1 DEF NoTx
      <3>4. \A e \in Sessions : Holds(e)' => DOMAIN tx'[e].put \subseteq tx[d].seen
        BY <1>3, <1>4, <3>1
      <3> QED
        BY <1>5, <3>1, <3>2, <3>3, <3>4
    <2> QED
      BY <2>1, <2>2
  <1>13. HoldersOK'
    <2> SUFFICES ASSUME NEW d \in Sessions, Holds(d)'
                 PROVE  /\ tx'[d].card \in DOMAIN tx'[d].put
                        /\ DOMAIN tx'[d].put \subseteq Exists' /\ Preferred' \subseteq DOMAIN tx'[d].put
                        /\ \A e \in Sessions \ {d} : ~Holds(e)'
      BY DEF HoldersOK
    <2>1. d # q /\ Holds(d) /\ tx'[d] = tx[d]
      BY <1>3, <1>4
    <2>2. /\ tx[d].card \in DOMAIN tx[d].put
          /\ DOMAIN tx[d].put \subseteq Exists /\ Preferred \subseteq DOMAIN tx[d].put
          /\ \A e \in Sessions \ {d} : ~Holds(e)
      BY <2>1 DEF WalletInv, HoldersOK
    <2> QED
      BY <1>4, <1>5, <1>6, <2>1, <2>2
  <1>14. AtMostOnePreferred'
    <2>1. \A c, d \in Preferred' : c = d
      <3>1. \A c, d \in Preferred : c = d
        BY DEF WalletInv, AtMostOnePreferred, Preferred
      <3> QED
        BY <1>6, <1>7, <3>1
    <2> QED
      BY <2>1 DEF AtMostOnePreferred, Preferred
  <1> QED
    BY <1>8, <1>9, <1>10, <1>11, <1>12, <1>13, <1>14 DEF WalletInv

LEMMA StutterStep == WalletInv /\ UNCHANGED walletVars => WalletInv'
  <1> SUFFICES ASSUME WalletInv, UNCHANGED walletVars PROVE WalletInv'
    OBVIOUS
  <1>1. /\ Exists' = Exists /\ Preferred' = Preferred
        /\ \A q \in Sessions : Holds(q)' <=> Holds(q)
    BY DEF walletVars, Exists, Preferred, Holds
  <1> QED
    BY <1>1 DEF walletVars, WalletInv, TxOK, RowsOK, PicksOK, PutsOK, WaitersOK, HoldersOK,
                AtMostOnePreferred

-----------------------------------------------------------------------------
(* The invariant that carries the two below: a holder has written every    *)
(* row, and there is one (CardService.set_preferred).                      *)
THEOREM WalletInvariant == WalletSpec => []WalletInv
  <1>1. WalletInv /\ [WalletNext]_walletVars => WalletInv'
    <2> SUFFICES ASSUME WalletInv, [WalletNext]_walletVars PROVE WalletInv'
      OBVIOUS
    <2>1. CASE UNCHANGED walletVars
      BY <2>1, StutterStep
    <2>2. ASSUME NEW q \in Sessions, AddCard(q) PROVE WalletInv'
      BY <2>2, AddCardStep
    <2>3. ASSUME NEW q \in Sessions, Unset(q) PROVE WalletInv'
      BY <2>3, UnsetStep
    <2>4. ASSUME NEW q \in Sessions, UnsetAfterWait(q) PROVE WalletInv'
      BY <2>4, UnsetAfterWaitStep
    <2>5. ASSUME NEW q \in Sessions, Mark(q) PROVE WalletInv'
      BY <2>5, MarkStep
    <2>6. ASSUME NEW q \in Sessions, SetCategories(q) PROVE WalletInv'
      BY <2>6, SetCategoriesStep
    <2>7. ASSUME NEW q \in Sessions, GetOrCreateProfile(q) PROVE WalletInv'
      BY <2>7, ProfileStep, StutterStep
    <2>8. ASSUME NEW q \in Sessions, Commit(q) PROVE WalletInv'
      BY <2>8, CommitStep
    <2>9. ASSUME NEW q \in Sessions, Rollback(q) PROVE WalletInv'
      BY <2>9, FailStep DEF Rollback
    <2>10. ASSUME NEW q \in Sessions, NEW c \in Cards, RemoveCard(q, c) PROVE WalletInv'
      BY <2>10, RemoveCardStep
    <2>11. ASSUME NEW q \in Sessions, NEW c \in Cards, NEW op \in {"add", "prefer", "pick"},
                  Select(q, op, c)
           PROVE  WalletInv'
      BY <2>11, SelectStep
    <2> QED
      BY <2>1, <2>2, <2>3, <2>4, <2>5, <2>6, <2>7, <2>8, <2>9, <2>10, <2>11 DEF WalletNext
  <1> QED
    BY <1>1, InitStep, PTL DEF WalletSpec

(* The tables and the transactions of the wallet hold what their columns   *)
(* may (user_cards, user_category_selections).                             *)
THEOREM WalletTypes == WalletSpec => []WalletTypeOK
  <1>1. WalletInv => WalletTypeOK
    <2> SUFFICES ASSUME WalletInv PROVE WalletTypeOK
      OBVIOUS
    <2>1. ASSUME NEW q \in Sessions
          PROVE  tx[q].seen \subseteq Cards /\ DOMAIN tx[q].put \subseteq Cards
      <3>1. tx[q] \in Txs
        BY DEF WalletInv, TxOK
      <3>2. PICK S \in SUBSET Cards : tx[q].put \in [S -> Row]
        BY <3>1 DEF Txs
      <3> QED
        BY <3>1, <3>2 DEF Txs
    <2> QED
      BY <2>1 DEF WalletInv, RowsOK, PicksOK, WalletTypeOK, Row
  <1> QED
    BY <1>1, WalletInvariant, PTL

(* "Set one card as preferred, unset all others" (set_preferred): two      *)
(* cards of a user are never preferred, however many requests overlap.     *)
THEOREM OneCardPreferred == WalletSpec => []AtMostOnePreferred
  <1>1. WalletInv => AtMostOnePreferred
    BY DEF WalletInv
  <1> QED
    BY <1>1, WalletInvariant, PTL

(* The best of some amounts, and of none nothing.                          *)
LEMMA BestOfTyped ==
  ASSUME NEW S, IsFiniteSet(S), S \subseteq Int
  PROVE  BestOf(S) \in Nat /\ (\A x \in S : x <= BestOf(S)) /\ BestOf(S) \in S \cup {0}
<1> DEFINE T == {x \in S \cup {0} : x >= 0}
<1>1. IsFiniteSet(S \cup {0}) /\ IsFiniteSet(T)
  <2>1. IsFiniteSet(S \cup {0})
    BY FS_AddElement
  <2> QED
    BY <2>1, FS_Subset
<1>2. T \in SUBSET Nat /\ T # {}
  <2>1. ASSUME NEW x \in T PROVE x \in Nat
    <3>1. x \in Int /\ x >= 0
      OBVIOUS
    <3> QED
      BY <3>1
  <2>2. 0 \in T
    OBVIOUS
  <2> HIDE DEF T
  <2> QED
    BY <2>1, <2>2
<1> HIDE DEF T
<1>3. Max(T) \in T /\ \A x \in T : Max(T) >= x
  BY <1>1, <1>2, GreatestOfFinite
<1>4. Max(T) \in S \cup {0} /\ Max(T) \in Nat /\ \A x \in S \cup {0} : Max(T) >= x
  <2>1. Max(T) \in S \cup {0} /\ Max(T) \in Nat
    BY <1>2, <1>3 DEF T
  <2>2. ASSUME NEW x \in S \cup {0} PROVE Max(T) >= x
    <3>1. x \in Int
      OBVIOUS
    <3>2. CASE x >= 0
      BY <1>3, <3>2 DEF T
    <3>3. CASE ~(x >= 0)
      BY <2>1, <3>1, <3>3
    <3> QED
      BY <3>2, <3>3
  <2> QED
    BY <2>1, <2>2
<1>5. PICK m \in S \cup {0} : \A x \in S \cup {0} : m >= x
  BY <1>4
<1>6. BestOf(S) \in S \cup {0} /\ \A x \in S \cup {0} : BestOf(S) >= x
  BY <1>5 DEF BestOf, Max
<1>7. BestOf(S) \in Int /\ BestOf(S) >= 0
  <2>1. BestOf(S) \in Int
    <3>1. \A x \in S \cup {0} : x \in Int
      OBVIOUS
    <3> QED
      BY <1>6, <3>1
  <2>2. 0 \in S \cup {0}
    OBVIOUS
  <2> QED
    BY <1>6, <2>1, <2>2
<1> QED
  BY <1>6, <1>7

(* The rates of finitely many bonuses or categories.                       *)
LEMMA RatesOf ==
  ASSUME NEW T, IsFiniteSet(T), \A b \in T : b.rate \in Nat
  PROVE  IsFiniteSet({b.rate : b \in T}) /\ {b.rate : b \in T} \subseteq Nat
<1> DEFINE f == [b \in T |-> b.rate]
<1>1. f \in Surjection(T, {b.rate : b \in T})
  BY DEF Surjection
<1> QED
  BY <1>1, FS_Surjection

LEMMA RateTyped ==
  ASSUME NEW c \in Cards, NEW r
  PROVE  Rate(c, r) \in Nat
<1> DEFINE P == Program[c]
           rotating == {b \in P.rotating : b.tags \cap Tags[r] # {}}
           static == {b \in P.static : b.tag \in Tags[r]}
           picked == {P.picked : t \in (UNION picks[c]) \cap Tags[r]}
           S == {P.base} \cup {b.rate : b \in rotating} \cup picked \cup {b.rate : b \in static}
<1>1. /\ {P.base, P.picked} \subseteq Nat
      /\ IsFiniteSet(P.static) /\ IsFiniteSet(P.rotating)
      /\ \A b \in P.static \cup P.rotating : b.rate \in Nat
  BY WalletAssumption
<1>2. IsFiniteSet({b.rate : b \in rotating}) /\ {b.rate : b \in rotating} \subseteq Nat
  <2>1. IsFiniteSet(rotating) /\ \A b \in rotating : b.rate \in Nat
    BY <1>1, FS_Subset
  <2> HIDE DEF rotating
  <2> QED
    BY <2>1, RatesOf
<1>3. IsFiniteSet({b.rate : b \in static}) /\ {b.rate : b \in static} \subseteq Nat
  <2>1. IsFiniteSet(static) /\ \A b \in static : b.rate \in Nat
    BY <1>1, FS_Subset
  <2> HIDE DEF static
  <2> QED
    BY <2>1, RatesOf
<1>4. IsFiniteSet(picked) /\ picked \subseteq Nat
  <2>1. picked \in SUBSET {P.picked} /\ IsFiniteSet({P.picked})
    BY FS_Singleton
  <2> QED
    BY <1>1, <2>1, FS_Subset
<1>5. IsFiniteSet(S) /\ S \in SUBSET Nat /\ S # {}
  <2>1. IsFiniteSet({P.base})
    BY FS_Singleton
  <2> HIDE DEF picked, P, rotating, static
  <2> QED
    BY <1>1, <1>2, <1>3, <1>4, <2>1, FS_Union
<1>6. Rate(c, r) = Max(S)
  BY DEF Rate
<1> HIDE DEF S
<1> QED
  BY <1>5, <1>6, GreatestOfFinite

(* What the portals of a retailer give, and that one more never gives less. *)
LEMMA PortalTyped ==
  ASSUME NEW r, NEW some
  PROVE  /\ BestPortal(r, some) \in Nat
         /\ \A p : BestPortal(r, some) <= BestPortal(r, some \cup {p})
<1> DEFINE On(active) == {b \in PortalBonuses : b.retailer = r /\ b.portal \in active}
           Give(active) == {b.rate : b \in On(active)}
<1>1. ASSUME NEW active
      PROVE  /\ BestPortal(r, active) \in Nat /\ \A x \in Give(active) : x <= BestPortal(r, active)
             /\ BestPortal(r, active) \in Give(active) \cup {0}
  <2>1. IsFiniteSet(On(active)) /\ \A b \in On(active) : b.rate \in Nat
    BY WalletAssumption, FS_Subset
  <2>2. BestPortal(r, active) = BestOf(Give(active))
    BY DEF BestPortal
  <2> HIDE DEF On
  <2>3. IsFiniteSet(Give(active)) /\ Give(active) \subseteq Nat
    BY <2>1, RatesOf
  <2> HIDE DEF Give
  <2> QED
    BY <2>2, <2>3, BestOfTyped
<1>2. ASSUME NEW p PROVE BestPortal(r, some) <= BestPortal(r, some \cup {p})
  <2>1. Give(some) \subseteq Give(some \cup {p})
    OBVIOUS
  <2> HIDE DEF Give
  <2> QED
    BY <1>1, <2>1
<1> QED
  BY <1>1, <1>2

(* A card choice gives a rate wherever it names a card.                    *)
LEMMA ChoiceTyped ==
  ASSUME NEW card \in CardChoices, NEW r \in DOMAIN card
  PROVE  card[r] \in Cards
BY DEF CardChoices, Active

LEMMA TimesGrows ==
  ASSUME NEW a \in Nat, NEW b \in Nat, NEW c \in Nat, b <= c
  PROVE  a * b \in Nat /\ a * c \in Nat /\ a * b <= a * c
<1>1. PICK d \in Nat : c = b + d
  BY c - b \in Nat
<1>2. a * c = a * b + a * d /\ a * d \in Nat /\ a * b \in Nat
  BY <1>1, SMTT(30)
<1> QED
  BY <1>2

(* A listing's path costs no more than its price, and no more with one     *)
(* more portal.                                                            *)
LEMMA PathTyped ==
  ASSUME NEW l \in Listings, NEW card \in CardChoices, NEW some
  PROVE  /\ Path(l, card, some).effective \in Int /\ Path(l, card, some).listing = l
         /\ Path(l, card, some).effective <= 100 * l.price
         /\ \A p : Path(l, card, some \cup {p}).effective <= Path(l, card, some).effective
<1> DEFINE r == l.retailer
           identity == BestOf(Discounts[r])
           post == BestOf({l.price - identity})
           rate == IF r \in DOMAIN card THEN Rate(card[r], r) ELSE 0
           Total(active) == 100 * identity + post * rate + post * BestPortal(r, active)
<1>1. l.price \in Nat /\ identity \in Nat
  BY WalletAssumption, BestOfTyped
<1>2. post \in Nat
  <2>1. l.price - identity \in Int
    BY <1>1
  <2>2. IsFiniteSet({l.price - identity}) /\ {l.price - identity} \subseteq Int
    BY <2>1, FS_Singleton
  <2> HIDE DEF identity
  <2> QED
    BY <2>2, BestOfTyped
<1>3. rate \in Nat
  BY ChoiceTyped, RateTyped
<1>4. \A active : /\ Path(l, card, active).effective = 100 * l.price - Total(active)
                  /\ Path(l, card, active).listing = l
  BY DEF Path
<1>5. /\ \A active : BestPortal(r, active) \in Nat
      /\ \A p : BestPortal(r, some) <= BestPortal(r, some \cup {p})
  BY PortalTyped
<1> HIDE DEF identity, post, rate, r
<1>6. ASSUME NEW p
      PROVE  /\ Total(some) \in Nat /\ Total(some \cup {p}) \in Nat
             /\ Total(some) <= Total(some \cup {p})
  <2> DEFINE b == BestPortal(r, some)
             c == BestPortal(r, some \cup {p})
  <2>1. b \in Nat /\ c \in Nat /\ b <= c
    BY <1>5
  <2> HIDE DEF b, c
  <2>2. post * b \in Nat /\ post * c \in Nat /\ post * b <= post * c
    BY <1>2, <2>1, TimesGrows
  <2>3. post * rate \in Nat
    BY <1>2, <1>3, TimesGrows
  <2>4. 100 * identity \in Nat
    BY <1>1
  <2> QED
    BY <2>2, <2>3, <2>4 DEF b, c
<1> HIDE DEF Total
<1> DEFINE Cost(active) == Path(l, card, active).effective
           most == 100 * l.price
<1>7. most \in Nat
  BY <1>1
<1>8. Path(l, card, some).listing = l /\ \A active : Cost(active) = most - Total(active)
  BY <1>4
<1> HIDE DEF Cost, most
<1>9. Cost(some) \in Int /\ Cost(some) <= most
  <2>1. Cost(some) = most - Total(some) /\ Total(some) \in Nat
    BY <1>6, <1>8
  <2> QED
    BY <1>7, <2>1
<1>10. ASSUME NEW p PROVE Cost(some \cup {p}) <= Cost(some)
  <2>1. Cost(some) = most - Total(some) /\ Cost(some \cup {p}) = most - Total(some \cup {p})
    BY <1>8
  <2>2. /\ Total(some) \in Nat /\ Total(some \cup {p}) \in Nat
        /\ Total(some) <= Total(some \cup {p})
    BY <1>6
  <2> QED
    BY <1>7, <2>1, <2>2
<1> QED
  BY <1>8, <1>9, <1>10 DEF Cost, most

(* The winner is the path of a listing, and none costs less: _rank_key     *)
(* orders the paths of finitely many listings.                             *)
LEMMA BeforeOrders ==
  ASSUME NEW p, NEW q, NEW s,
         p.effective \in Int, q.effective \in Int, s.effective \in Int,
         p.listing.condition \in Nat, q.listing.condition \in Nat, s.listing.condition \in Nat,
         p.listing.retailer \in Nat, q.listing.retailer \in Nat, s.listing.retailer \in Nat
  PROVE  /\ Before(p, p)
         /\ Before(p, q) \/ Before(q, p)
         /\ Before(p, q) /\ Before(q, s) => Before(p, s)
         /\ Before(p, q) => p.effective <= q.effective
BY DEF Before

LEMMA WinnerIsBest ==
  ASSUME NEW card \in CardChoices, NEW some
  PROVE  /\ \E l \in Listings : Winner(card, some) = Path(l, card, some)
         /\ \A l \in Listings : Winner(card, some).effective <= Path(l, card, some).effective
<1> DEFINE paths == {Path(l, card, some) : l \in Listings}
           f == [l \in Listings |-> Path(l, card, some)]
           R == {pq \in paths \X paths : ~Before(pq[2], pq[1])}
<1>1. IsFiniteSet(paths) /\ paths # {}
  <2>1. f \in Surjection(Listings, paths)
    BY DEF Surjection
  <2> QED
    BY <2>1, WalletAssumption, FS_Surjection
<1>2. ASSUME NEW p \in paths
      PROVE  p.effective \in Int /\ p.listing.condition \in Nat /\ p.listing.retailer \in Nat
  <2>1. PICK l \in Listings : p = Path(l, card, some)
    OBVIOUS
  <2>2. l.condition \in Nat /\ l.retailer \in Nat
    BY WalletAssumption
  <2> HIDE DEF paths
  <2> QED
    BY <2>1, <2>2, PathTyped
<1>3. \A p, q \in paths : <<p, q>> \in R <=> ~Before(q, p)
  OBVIOUS
<1> HIDE DEF R
<1>4. \A p \in paths : <<p, p>> \notin R
  <2> HIDE DEF paths
  <2> QED
    BY <1>2, <1>3, BeforeOrders
<1>5. ASSUME NEW p \in paths, NEW q \in paths, NEW s \in paths, <<p, q>> \in R, <<q, s>> \in R
      PROVE  <<p, s>> \in R
  <2> HIDE DEF paths
  <2>1. ~Before(q, p) /\ ~Before(s, q)
    BY <1>3, <1>5
  <2>2. Before(p, q)
    BY <1>2, <2>1, BeforeOrders
  <2>3. ~Before(s, p)
    BY <1>2, <2>1, <2>2, BeforeOrders
  <2> QED
    BY <1>3, <2>3
<1>6. PICK best \in paths : \A q \in paths : Before(best, q)
  <2> HIDE DEF paths
  <2>1. PICK x \in paths : \A y \in paths : <<y, x>> \notin R
    BY <1>1, <1>4, <1>5, FinitelyManyBefore
  <2> QED
    BY <1>3, <2>1
<1>7. Winner(card, some) = CHOOSE p \in paths : \A q \in paths : Before(p, q)
  BY DEF Winner
<1>8. Winner(card, some) \in paths /\ \A q \in paths : Before(Winner(card, some), q)
  <2> HIDE DEF paths
  <2> QED
    BY <1>6, <1>7
<1>9. \A q \in paths : Winner(card, some).effective <= q.effective
  <2> HIDE DEF paths
  <2> QED
    BY <1>2, <1>8, BeforeOrders
<1> QED
  BY <1>8, <1>9

(* Whatever cards and picks a user has: a portal more never makes the best *)
(* deal dearer, and it never costs more than any listing does.             *)
THEOREM PortalsAreFree == WalletSpec => []PortalsNeverCost
<1>1. PortalsNeverCost
  <2>1. ASSUME NEW card \in CardChoices, NEW some, NEW l \in Listings
        PROVE  Winner(card, some).effective <= 100 * l.price
    <3> DEFINE w == Winner(card, some).effective
               v == Path(l, card, some).effective
    <3>1. w <= v /\ v \in Int /\ v <= 100 * l.price /\ l.price \in Nat
      BY WinnerIsBest, PathTyped, WalletAssumption
    <3>2. w \in Int
      BY WinnerIsBest, PathTyped
    <3> HIDE DEF w, v
    <3> QED
      BY <3>1, <3>2 DEF w
  <2>2. ASSUME NEW card \in CardChoices, NEW some, NEW p
        PROVE  Winner(card, some \cup {p}).effective <= Winner(card, some).effective
    <3>1. PICK l \in Listings : Winner(card, some) = Path(l, card, some)
      BY WinnerIsBest
    <3> DEFINE w == Winner(card, some \cup {p}).effective
               u == Path(l, card, some \cup {p}).effective
               v == Path(l, card, some).effective
    <3>2. w <= u /\ u <= v
      BY WinnerIsBest, PathTyped
    <3>3. u \in Int /\ v \in Int
      BY PathTyped
    <3>4. w \in Int
      BY WinnerIsBest, PathTyped
    <3>5. Winner(card, some).effective = v
      BY <3>1
    <3> HIDE DEF u, v, w
    <3>6. w <= v
      BY <3>2, <3>3, <3>4
    <3> QED
      BY <3>5, <3>6 DEF w
  <2> QED
    BY <2>1, <2>2 DEF PortalsNeverCost
<1> QED
  BY <1>1, PTL

-----------------------------------------------------------------------------
(* AdapterClients: no token refused is sent again, and Walmart's API is    *)
(* called no faster than its floor.                                        *)

LEMMA ClientInitInv == ClientInit => ClientInv
<1> SUFFICES ASSUME ClientInit PROVE ClientInv
  OBVIOUS
<1>1. NoCall \in CallStates
  BY DEF NoCall, CallStates, Routes
<1>2. CallsTyped
  BY <1>1 DEF ClientInit, CallsTyped, NoToken
<1>3. ClientTypeOK
  BY ClientAssumption DEF ClientInit, ClientTypeOK, NoToken, NoCall, Routes
<1>4. TokensKnown /\ OneExchange /\ OneSleeper
  BY DEF ClientInit, TokensKnown, OneExchange, OneSleeper, CallAt, NoCall, NoToken
<1> QED
  BY <1>2, <1>3, <1>4 DEF ClientInv

(* A call that takes a step keeps its route.                               *)
Steps(c) == /\ call' \in [Calls -> CallStates] /\ call'[c].route = call[c].route
            /\ \A d \in Calls \ {c} : call'[d] = call[d]

LEMMA StepsWithToken ==
  ASSUME CallsTyped, NEW c \in Calls, NEW pc \in {"send"}, NEW k \in Nat,
         call' = [call EXCEPT ![c].pc = pc, ![c].token = k]
  PROVE  Steps(c) /\ call'[c].pc = pc /\ call'[c].token = k /\ call'[c].tries = call[c].tries
<1>1. call[c] \in CallStates /\ DOMAIN call = Calls
  BY DEF CallsTyped
<1>2. /\ call'[c] = [[call[c] EXCEPT !.pc = pc] EXCEPT !.token = k]
      /\ \A d \in Calls \ {c} : call'[d] = call[d]
      /\ DOMAIN call' = Calls /\ call' = [d \in Calls |-> call'[d]]
  BY <1>1
<1>3. call'[c] \in CallStates
  BY <1>1, <1>2 DEF CallStates
<1>4. call'[c].pc = pc /\ call'[c].token = k
      /\ call'[c].tries = call[c].tries /\ call'[c].route = call[c].route
  BY <1>1, <1>2 DEF CallStates
<1> QED
  BY <1>1, <1>2, <1>3, <1>4 DEF CallsTyped, Steps

LEMMA StepsWithTime ==
  ASSUME CallsTyped, NEW c \in Calls, NEW pc \in {"oauth", "sleep"}, NEW k \in Nat,
         call' = [call EXCEPT ![c].pc = pc, ![c].at = k]
  PROVE  Steps(c) /\ call'[c].pc = pc /\ call'[c].at = k /\ call'[c].tries = call[c].tries
<1>1. call[c] \in CallStates /\ DOMAIN call = Calls
  BY DEF CallsTyped
<1>2. /\ call'[c] = [[call[c] EXCEPT !.pc = pc] EXCEPT !.at = k]
      /\ \A d \in Calls \ {c} : call'[d] = call[d]
      /\ DOMAIN call' = Calls /\ call' = [d \in Calls |-> call'[d]]
  BY <1>1
<1>3. call'[c] \in CallStates
  BY <1>1, <1>2 DEF CallStates
<1>4. call'[c].pc = pc /\ call'[c].at = k
      /\ call'[c].tries = call[c].tries /\ call'[c].route = call[c].route
  BY <1>1, <1>2 DEF CallStates
<1> QED
  BY <1>1, <1>2, <1>3, <1>4 DEF CallsTyped, Steps

(* A call that has become t, and nothing else but the locks it held.       *)
LEMMA CallBecomes ==
  ASSUME ClientInv, NEW c \in Calls, NEW t \in CallStates,
         call' = [call EXCEPT ![c] = t], t.pc \in {"idle", "token", "send", "pace"},
         t.tries < Attempts[t.route],
         t.pc = "send" /\ t.route \in {"ebay", "ebay_gtin"} => t.token \in 1..Len(issued),
         t.pc = "pace" => t.route = "walmart_io",
         tokenLock' = tokenLock \/ (tokenLock = c /\ tokenLock' = Nobody),
         pace' = pace \/ (pace.holder = c /\ pace' = [pace EXCEPT !.holder = Nobody]),
         UNCHANGED <<now, cached, issued, rejected>>
  PROVE  ClientInv'
<1>1. call' \in [Calls -> CallStates] /\ call'[c] = t /\ \A d \in Calls \ {c} : call'[d] = call[d]
  BY DEF ClientInv, CallsTyped
<1>2. pace' \in [holder : Calls \cup {Nobody}, last : Nat] /\ pace'.last = pace.last
      /\ (pace'.holder = pace.holder \/ pace.holder = c)
  BY DEF ClientInv, CallsTyped
<1>3. CallsTyped'
  BY <1>1, <1>2 DEF ClientInv, CallsTyped
<1>4. ClientTypeOK'
  BY <1>1, <1>2 DEF ClientInv, ClientTypeOK
<1>5. TokensKnown'
  BY <1>1 DEF ClientInv, TokensKnown, CallAt
<1>6. OneExchange'
  BY <1>1 DEF ClientInv, OneExchange, CallAt
<1>7. OneSleeper'
  BY <1>1, <1>2 DEF ClientInv, OneSleeper, CallAt
<1> QED
  BY <1>3, <1>4, <1>5, <1>6, <1>7 DEF ClientInv

(* An answer ends a call, and an attempt more leaves it where it is.       *)
LEMMA AnswerStep ==
  ASSUME ClientInv, NEW c \in Calls, Answer(c),
         tokenLock' = tokenLock \/ (tokenLock = c /\ tokenLock' = Nobody),
         pace' = pace \/ (pace.holder = c /\ pace' = [pace EXCEPT !.holder = Nobody]),
         UNCHANGED <<now, cached, issued, rejected>>
  PROVE  ClientInv'
<1>1. NoCall \in CallStates /\ NoCall.pc = "idle" /\ NoCall.tries < Attempts[NoCall.route]
  BY ClientAssumption DEF NoCall, CallStates, Routes
<1> QED
  BY <1>1, CallBecomes DEF Answer

LEMMA AgainStep ==
  ASSUME ClientInv, NEW c \in Calls, CallAt(c, "send"),
         call[c].route \notin {"ebay", "ebay_gtin"},
         Answer(c) \/ Again(c), UNCHANGED <<now, tokenLock, pace, cached, issued, rejected>>
  PROVE  ClientInv'
<1>1. CASE Answer(c)
  BY <1>1, AnswerStep
<1>2. CASE call' = [call EXCEPT ![c].tries = @ + 1] /\ call[c].tries + 1 < Attempts[call[c].route]
  <2> DEFINE t == [call[c] EXCEPT !.tries = @ + 1]
  <2>1. call[c] \in CallStates /\ DOMAIN call = Calls
    BY DEF ClientInv, CallsTyped
  <2>2. t \in CallStates /\ t.pc = "send" /\ t.route = call[c].route
        /\ t.tries = call[c].tries + 1
    BY <2>1 DEF CallAt, CallStates
  <2>3. call' = [call EXCEPT ![c] = t]
    BY <1>2
  <2> HIDE DEF t
  <2> QED
    BY <1>2, <2>2, <2>3, CallBecomes
<1> QED
  BY <1>1, <1>2 DEF Again

LEMMA DispatchStep ==
  ASSUME ClientInv, NEW c \in Calls, NEW route \in Asked, Dispatch(c, route)
  PROVE  ClientInv'
<1>1. PICK t : /\ call' = [call EXCEPT ![c] = t]
               /\ t = CASE route \in Sourcing \ Configured -> NoCall
                 [] route \in Configured \cap {"ebay", "ebay_gtin"} ->
                       [NoCall EXCEPT !.route = route, !.pc = "token"]
                 [] route \in Configured \cap {"walmart_io"} ->
                       [NoCall EXCEPT !.route = route, !.pc = "pace"]
                 [] OTHER -> [NoCall EXCEPT !.pc = "send",
                            !.route = IF route \in Configured THEN route ELSE "container"]
  BY DEF Dispatch
<1>2. t \in CallStates /\ t.pc \in {"idle", "token", "send", "pace"} /\ t.tries = 0
      /\ (t.pc = "send" => t.route \notin {"ebay", "ebay_gtin"})
      /\ (t.pc = "pace" => t.route = "walmart_io")
  BY <1>1 DEF NoCall, CallStates, Routes, Sourcing
<1>3. t.tries < Attempts[t.route]
  BY <1>2, ClientAssumption DEF CallStates
<1> QED
  BY <1>1, <1>2, <1>3, CallBecomes DEF Dispatch, tokenVars

LEMMA GetAppTokenStep ==
  ASSUME ClientInv, NEW c \in Calls, GetAppToken(c)
  PROVE  ClientInv'
<1>1. UNCHANGED <<now, cached, issued, rejected, pace>> /\ now \in Nat /\ cached.id \in Nat
  BY ClientAssumption DEF GetAppToken, ClientInv, CallsTyped, ClientTypeOK
<1>2. CASE cached.id # 0 /\ cached.expires > now + Buffer
  <2>1. Steps(c) /\ call'[c].pc = "send" /\ call'[c].token = cached.id
        /\ call'[c].tries = call[c].tries
    BY <1>1, <1>2, StepsWithToken DEF GetAppToken, ClientInv
  <2>2. cached.id \in 1..Len(issued) /\ tokenLock' = tokenLock
    BY <1>2 DEF GetAppToken, ClientInv, CallsTyped, ClientTypeOK
  <2>3. CallsTyped' /\ ClientTypeOK'
    BY <1>1, <2>1, <2>2 DEF ClientInv, CallsTyped, ClientTypeOK, Steps
  <2>4. TokensKnown'
    BY <1>1, <2>1, <2>2 DEF ClientInv, TokensKnown, CallAt, Steps
  <2>5. OneExchange' /\ OneSleeper'
    BY <1>1, <2>1, <2>2 DEF ClientInv, OneExchange, OneSleeper, CallAt, Steps
  <2> QED
    BY <2>3, <2>4, <2>5 DEF ClientInv
<1>3. CASE ~(cached.id # 0 /\ cached.expires > now + Buffer)
  <2>1. Steps(c) /\ call'[c].pc = "oauth" /\ call'[c].at = now
        /\ call'[c].tries = call[c].tries
    BY <1>1, <1>3, StepsWithTime DEF GetAppToken, ClientInv
  <2>2. tokenLock = Nobody /\ tokenLock' = c
    BY <1>3 DEF GetAppToken
  <2>3. CallsTyped' /\ ClientTypeOK'
    BY <1>1, <2>1, <2>2 DEF ClientInv, CallsTyped, ClientTypeOK, Steps
  <2>4. TokensKnown'
    BY <1>1, <2>1, <2>2 DEF ClientInv, TokensKnown, CallAt, Steps
  <2>5. OneExchange' /\ OneSleeper'
    BY <1>1, <2>1, <2>2, ClientAssumption DEF ClientInv, OneExchange, OneSleeper, CallAt, Steps
  <2> QED
    BY <2>3, <2>4, <2>5 DEF ClientInv
<1> QED
  BY <1>2, <1>3

LEMMA ExchangeStep ==
  ASSUME ClientInv, NEW c \in Calls, Exchange(c)
  PROVE  ClientInv'
<1> DEFINE id == Len(issued) + 1
<1>1. /\ now \in Nat /\ Lifetime \in Nat /\ issued \in Seq(Nat) /\ Len(issued) \in Nat
      /\ call[c].at \in Nat /\ call[c].at <= now /\ CallAt(c, "oauth") /\ Len(issued) < MaxTokens
  BY ClientAssumption DEF Exchange, ClientInv, CallsTyped, CallStates, ClientTypeOK, OneExchange
<1>2. /\ issued' \in Seq(Nat) /\ Len(issued') = id /\ issued'[id] = now + Lifetime
      /\ \A i \in 1..Len(issued) : issued'[i] = issued[i]
  BY <1>1 DEF Exchange
<1>3. /\ cached' = [id |-> id, expires |-> call[c].at + Lifetime]
      /\ call' = [call EXCEPT ![c].pc = "send", ![c].token = id]
      /\ UNCHANGED <<now, rejected, pace>> /\ tokenLock' = Nobody
  BY <1>2 DEF Exchange
<1>4. call' \in [Calls -> CallStates] /\ call'[c].pc = "send" /\ call'[c].token = id
      /\ call'[c].tries = call[c].tries /\ call'[c].route = call[c].route
      /\ \A d \in Calls \ {c} : call'[d] = call[d]
  <2>1. id \in Nat /\ CallsTyped
    BY <1>1 DEF ClientInv
  <2> HIDE DEF id
  <2> QED
    BY <1>3, <2>1, StepsWithToken DEF Steps
<1>5. CallsTyped'
  BY <1>1, <1>2, <1>3, <1>4 DEF ClientInv, CallsTyped
<1>6. ClientTypeOK'
  BY <1>1, <1>2, <1>3, <1>4, ClientAssumption DEF ClientInv, ClientTypeOK
<1>7. TokensKnown'
  <2>1. rejected' \subseteq 1..Len(issued') /\ id \notin rejected'
    BY <1>1, <1>2, <1>3 DEF ClientInv, TokensKnown
  <2>2. cached'.id = id /\ issued'[id] >= cached'.expires
    BY <1>1, <1>2, <1>3
  <2>3. ASSUME NEW d \in Calls, call'[d].pc = "send", call'[d].route \in {"ebay", "ebay_gtin"}
        PROVE  call'[d].token \in 1..Len(issued')
    <3>1. CASE d = c
      BY <1>1, <1>2, <1>4, <3>1
    <3>2. CASE d # c
      <4>1. call[d].token \in 1..Len(issued)
        BY <1>4, <2>3, <3>2 DEF ClientInv, TokensKnown, CallAt
      <4> QED
        BY <1>1, <1>2, <1>4, <3>2, <4>1
    <3> QED
      BY <3>1, <3>2
  <2> QED
    BY <2>1, <2>2, <2>3 DEF TokensKnown, CallAt
<1>8. OneExchange'
  BY <1>1, <1>3, <1>4 DEF ClientInv, OneExchange, CallAt
<1>9. OneSleeper'
  BY <1>3, <1>4 DEF ClientInv, OneSleeper, CallAt
<1> QED
  BY <1>5, <1>6, <1>7, <1>8, <1>9 DEF ClientInv

LEMMA SearchEbayStep ==
  ASSUME ClientInv, NEW c \in Calls, SearchEbay(c)
  PROVE  ClientInv'
<1>1. CASE UNCHANGED <<cached, rejected>>
  BY <1>1, AnswerStep DEF SearchEbay
<1>2. CASE cached' = NoToken /\ rejected' = rejected \cup {call[c].token}
  <2>1. NoCall \in CallStates /\ NoCall.pc = "idle" /\ NoCall.tries < Attempts[NoCall.route]
    BY ClientAssumption DEF NoCall, CallStates, Routes
  <2>2. call' \in [Calls -> CallStates] /\ call'[c] = NoCall
        /\ \A d \in Calls \ {c} : call'[d] = call[d]
    BY <2>1 DEF SearchEbay, Answer, ClientInv, CallsTyped
  <2>3. call[c].token \in 1..Len(issued)
    BY DEF SearchEbay, ClientInv, TokensKnown
  <2>4. UNCHANGED <<now, tokenLock, issued, pace>> /\ cached' = [id |-> 0, expires |-> 0]
    BY <1>2 DEF SearchEbay, NoToken
  <2>5. CallsTyped'
    BY <2>2, <2>4 DEF ClientInv, CallsTyped
  <2>6. ClientTypeOK'
    BY <2>1, <2>2, <2>4 DEF ClientInv, ClientTypeOK, CallsTyped
  <2>7. TokensKnown'
    <3>1. rejected' \subseteq 1..Len(issued') /\ cached'.id = 0
      <4>1. rejected \subseteq 1..Len(issued) /\ issued' = issued /\ cached'.id = 0
        BY <2>4 DEF ClientInv, TokensKnown
      <4> QED
        BY <1>2, <2>3, <4>1
    <3>2. \A d \in Calls : call'[d].pc = "send" /\ call'[d].route \in {"ebay", "ebay_gtin"} =>
                             call'[d].token \in 1..Len(issued')
      BY <2>1, <2>2, <2>4 DEF ClientInv, TokensKnown, CallAt
    <3> QED
      BY <3>1, <3>2 DEF TokensKnown, CallAt
  <2>8. OneExchange' /\ OneSleeper'
    BY <2>1, <2>2, <2>4 DEF ClientInv, OneExchange, OneSleeper, CallAt
  <2> QED
    BY <2>5, <2>6, <2>7, <2>8 DEF ClientInv
<1> QED
  BY <1>1, <1>2 DEF SearchEbay

LEMMA PaceStep ==
  ASSUME ClientInv, NEW c \in Calls, Pace(c)
  PROVE  ClientInv'
<1>1. pace.last \in Nat /\ Interval \in Nat /\ pace.holder = Nobody
  BY ClientAssumption DEF Pace, ClientInv, CallsTyped
<1>2. Steps(c) /\ call'[c].pc = "sleep" /\ call'[c].at = pace.last + Interval
      /\ call'[c].tries = call[c].tries
  <2>1. pace.last + Interval \in Nat /\ CallsTyped
    BY <1>1 DEF ClientInv
  <2>2. call' = [call EXCEPT ![c].pc = "sleep", ![c].at = pace.last + Interval]
    BY DEF Pace
  <2> QED
    BY <2>1, <2>2, StepsWithTime
<1>3. pace' \in [holder : Calls \cup {Nobody}, last : Nat] /\ pace'.holder = c
      /\ pace'.last = pace.last
  BY <1>1 DEF Pace, ClientInv, CallsTyped
<1>4. UNCHANGED <<now, cached, tokenLock, issued, rejected>>
  BY DEF Pace, tokenVars
<1>5. CallsTyped' /\ ClientTypeOK'
  BY <1>2, <1>3, <1>4 DEF ClientInv, CallsTyped, ClientTypeOK, Steps
<1>6. TokensKnown' /\ OneExchange'
  BY <1>2, <1>4 DEF ClientInv, TokensKnown, OneExchange, CallAt, Steps
<1>7. OneSleeper'
  BY <1>1, <1>2, <1>3, ClientAssumption DEF Pace, ClientInv, OneSleeper, CallAt, Steps
<1> QED
  BY <1>5, <1>6, <1>7 DEF ClientInv

LEMMA LetThroughStep ==
  ASSUME ClientInv, NEW c \in Calls, LetThrough(c)
  PROVE  ClientInv'
<1>1. call[c] \in CallStates /\ DOMAIN call = Calls /\ call[c].pc = "sleep"
      /\ call[c].route = "walmart_io"
  BY DEF LetThrough, CallAt, ClientInv, CallsTyped, OneSleeper
<1>2. /\ call'[c] = [call[c] EXCEPT !.pc = "send"]
      /\ \A d \in Calls \ {c} : call'[d] = call[d]
  BY <1>1 DEF LetThrough, CallGoes
<1>3. call'[c] \in CallStates /\ call'[c].pc = "send"
      /\ call'[c].tries = call[c].tries /\ call'[c].route = call[c].route
  BY <1>1, <1>2 DEF CallStates
<1>4. Steps(c)
  <2>1. call \in [Calls -> CallStates]
    BY DEF ClientInv, CallsTyped
  <2>2. \A d \in Calls : call'[d] \in CallStates
    BY <1>2, <1>3, <2>1
  <2>3. call' = [d \in Calls |-> call'[d]]
    BY <2>1 DEF LetThrough, CallGoes
  <2>4. call' \in [Calls -> CallStates]
    BY <2>2, <2>3
  <2> QED
    BY <1>2, <1>3, <2>4 DEF Steps
<1>5. pace' = [holder |-> Nobody, last |-> now] /\ now \in Nat
      /\ UNCHANGED <<now, cached, tokenLock, issued, rejected>>
  BY ClientAssumption DEF LetThrough, tokenVars, ClientInv, ClientTypeOK
<1>6. CallsTyped' /\ ClientTypeOK'
  BY <1>3, <1>4, <1>5 DEF ClientInv, CallsTyped, ClientTypeOK, Steps
<1>7. TokensKnown' /\ OneExchange'
  BY <1>1, <1>3, <1>4, <1>5 DEF ClientInv, TokensKnown, OneExchange, CallAt, Steps
<1>8. OneSleeper'
  <2>1. \A d \in Calls \ {c} : ~CallAt(d, "sleep")
    BY <1>1 DEF ClientInv, OneSleeper, CallAt
  <2>2. \A d \in Calls \ {c} : call[d].pc \in {"pace", "sleep"} => call[d].route = "walmart_io"
    BY DEF ClientInv, OneSleeper
  <2> QED
    BY <1>3, <1>4, <2>1, <2>2 DEF OneSleeper, CallAt, Steps
<1> QED
  BY <1>6, <1>7, <1>8 DEF ClientInv

LEMMA ClientInvStep == ClientInv /\ [ClientNext]_clientVars => ClientInv'
<1> SUFFICES ASSUME ClientInv, [ClientNext]_clientVars PROVE ClientInv'
  OBVIOUS
<1>1. ASSUME NEW c \in Calls, NEW route \in Asked, Dispatch(c, route) PROVE ClientInv'
  BY <1>1, DispatchStep
<1>2. ASSUME NEW c \in Calls, GetAppToken(c) PROVE ClientInv'
  BY <1>2, GetAppTokenStep
<1>3. ASSUME NEW c \in Calls, Exchange(c) PROVE ClientInv'
  BY <1>3, ExchangeStep
<1>4. ASSUME NEW c \in Calls, ExchangeFails(c) PROVE ClientInv'
  <2>1. tokenLock = c
    BY <1>4 DEF ExchangeFails, ClientInv, OneExchange
  <2> QED
    BY <1>4, <2>1, AnswerStep DEF ExchangeFails
<1>5. ASSUME NEW c \in Calls, SearchEbay(c) PROVE ClientInv'
  BY <1>5, SearchEbayStep
<1>6. ASSUME NEW c \in Calls, Pace(c) PROVE ClientInv'
  BY <1>6, PaceStep
<1>7. ASSUME NEW c \in Calls, LetThrough(c) PROVE ClientInv'
  BY <1>7, LetThroughStep
<1>8. ASSUME NEW c \in Calls, LookupByUpc(c) \/ FetchAmazon(c) PROVE ClientInv'
  BY <1>8, AnswerStep DEF LookupByUpc, FetchAmazon, tokenVars
<1>9. ASSUME NEW c \in Calls,
             FetchBestBuy(c) \/ FetchWalmart(c) \/ FetchWalmartFirecrawl(c) \/ Extract(c)
      PROVE  ClientInv'
  BY <1>9, AgainStep
     DEF FetchBestBuy, FetchWalmart, FetchWalmartFirecrawl, Extract, Sending, tokenVars
<1>10. ASSUME NEW c \in Calls, Cancel(c) PROVE ClientInv'
  BY <1>10, AnswerStep DEF Cancel
<1>11. ASSUME UNCHANGED <<cached, tokenLock, issued, rejected, pace, call>>,
              now' = now \/ (now < MaxNow /\ now' = now + 1)
       PROVE  ClientInv'
  <2>1. now \in 0..MaxNow /\ now' \in 0..MaxNow /\ now <= now'
    BY <1>11, ClientAssumption DEF ClientInv, ClientTypeOK
  <2>2. CallsTyped' /\ ClientTypeOK' /\ TokensKnown' /\ OneSleeper'
    BY <1>11, <2>1 DEF ClientInv, CallsTyped, ClientTypeOK, TokensKnown, OneSleeper, CallAt
  <2>3. OneExchange'
    <3> SUFFICES ASSUME NEW c \in Calls, call[c].pc = "oauth"
                 PROVE  tokenLock = c /\ call[c].at <= now'
      BY <1>11 DEF OneExchange, CallAt
    <3>1. tokenLock = c /\ call[c].at <= now /\ call[c].at \in Nat
      BY DEF ClientInv, CallsTyped, CallStates, OneExchange, CallAt
    <3> QED
      BY <2>1, <3>1, ClientAssumption
  <2> QED
    BY <2>2, <2>3 DEF ClientInv
<1>12. ASSUME \E t \in DOMAIN issued : Revoke(t) PROVE ClientInv'
  BY <1>11, <1>12 DEF Revoke
<1>13. CASE ScriptEnds \/ Tick \/ UNCHANGED clientVars
  BY <1>11, <1>13 DEF ScriptEnds, Tick, clientVars, tokenVars
<1> QED
  BY <1>1, <1>2, <1>3, <1>4, <1>5, <1>6, <1>7, <1>8, <1>9, <1>10, <1>12, <1>13 DEF ClientNext

LEMMA ClientInvariant == ClientSpec => []ClientInv
BY ClientInitInv, ClientInvStep, PTL DEF ClientSpec

(* The clients' variables keep their types, and no call makes more         *)
(* attempts than its route allows.                                         *)
THEOREM ClientTypes == ClientSpec => []ClientTypeOK
<1>1. ClientInv => ClientTypeOK
  BY DEF ClientInv
<1> QED
  BY <1>1, ClientInvariant, PTL

(* Only its own step lets a call that waits for a token, or sleeps, send.  *)
LEMMA CallNext ==
  ASSUME ClientInv, ClientNext, NEW c \in Calls, call'[c].pc = "send"
  PROVE  /\ CallAt(c, "token") => GetAppToken(c)
         /\ CallAt(c, "sleep") => LetThrough(c)
<1> SUFFICES ASSUME call[c].pc \in {"token", "sleep"}
             PROVE  /\ CallAt(c, "token") => GetAppToken(c)
                    /\ CallAt(c, "sleep") => LetThrough(c)
  BY DEF CallAt
<1>1. call \in [Calls -> CallStates]
  BY DEF ClientInv, CallsTyped
<1>2. call' # call
  BY DEF CallAt
<1>3. ASSUME NEW d \in Calls,
             \/ \E route \in Asked : Dispatch(d, route)
             \/ GetAppToken(d) \/ Exchange(d) \/ ExchangeFails(d) \/ SearchEbay(d)
             \/ Pace(d) \/ LetThrough(d) \/ LookupByUpc(d) \/ FetchAmazon(d)
             \/ FetchBestBuy(d) \/ FetchWalmart(d) \/ FetchWalmartFirecrawl(d)
             \/ Extract(d) \/ Cancel(d)
      PROVE  d = c
  <2> SUFFICES ASSUME d # c PROVE FALSE
    OBVIOUS
  <2>1. call'[c] = call[c]
    BY <1>1, <1>3 DEF Dispatch, GetAppToken, Exchange, ExchangeFails, SearchEbay, Pace,
       LetThrough, LookupByUpc, FetchAmazon, FetchBestBuy, FetchWalmart,
       FetchWalmartFirecrawl, Extract, Cancel, Answer, Again, CallGoes
  <2> QED
    BY <2>1
<1>4. PICK d \in Calls :
             \/ \E route \in Asked : Dispatch(d, route)
             \/ GetAppToken(d) \/ Exchange(d) \/ ExchangeFails(d) \/ SearchEbay(d)
             \/ Pace(d) \/ LetThrough(d) \/ LookupByUpc(d) \/ FetchAmazon(d)
             \/ FetchBestBuy(d) \/ FetchWalmart(d) \/ FetchWalmartFirecrawl(d)
             \/ Extract(d) \/ Cancel(d)
  BY <1>2 DEF ClientNext, Revoke, ScriptEnds, Tick
<1>5. \/ \E route \in Asked : Dispatch(c, route)
      \/ GetAppToken(c) \/ Exchange(c) \/ ExchangeFails(c) \/ SearchEbay(c)
      \/ Pace(c) \/ LetThrough(c) \/ LookupByUpc(c) \/ FetchAmazon(c)
      \/ FetchBestBuy(c) \/ FetchWalmart(c) \/ FetchWalmartFirecrawl(c)
      \/ Extract(c) \/ Cancel(c)
  BY <1>3, <1>4
<1>6. ~Cancel(c)
  BY <1>1 DEF Cancel, Answer, NoCall
<1> QED
  BY <1>5, <1>6 DEF Dispatch, Exchange, ExchangeFails, SearchEbay, Pace, GetAppToken,
     LetThrough, LookupByUpc, FetchAmazon, FetchBestBuy, FetchWalmart,
     FetchWalmartFirecrawl, Extract, Sending, CallAt

(* Of the cache alone: a token that a call takes from it was never refused *)
(* to a call that has handled the 401, and outlasts the buffer.  A call    *)
(* that took it before the 401 was handled may still send it.              *)
THEOREM CacheHandsOutNoRejectedToken == ClientSpec => TokensUsable
<1> DEFINE Handed == \A c \in Calls : CallAt(c, "token") /\ call'[c].pc = "send" =>
                        /\ call'[c].token \notin rejected
                        /\ issued[call'[c].token] > now + Buffer
<1>1. ClientInv /\ [ClientNext]_clientVars => [Handed]_clientVars
  <2> SUFFICES ASSUME ClientInv, ClientNext, NEW c \in Calls,
                      CallAt(c, "token"), call'[c].pc = "send"
               PROVE  /\ call'[c].token \notin rejected
                      /\ issued[call'[c].token] > now + Buffer
    OBVIOUS
  <2>1. GetAppToken(c)
    BY CallNext
  <2>2. cached.id # 0 /\ cached.expires > now + Buffer /\ call'[c].token = cached.id
    <3>1. CASE cached.id # 0 /\ cached.expires > now + Buffer
      <4>1. CallsTyped /\ cached.id \in Nat
        BY DEF ClientInv, CallsTyped
      <4>2. call' = [call EXCEPT ![c].pc = "send", ![c].token = cached.id]
        BY <2>1, <3>1 DEF GetAppToken
      <4> QED
        BY <3>1, <4>1, <4>2, StepsWithToken
    <3>2. CASE ~(cached.id # 0 /\ cached.expires > now + Buffer)
      <4>1. CallsTyped /\ now \in Nat
        BY ClientAssumption DEF ClientInv, ClientTypeOK
      <4>2. call' = [call EXCEPT ![c].pc = "oauth", ![c].at = now]
        BY <2>1, <3>2 DEF GetAppToken
      <4>3. call'[c].pc = "oauth"
        BY <4>1, <4>2, StepsWithTime
      <4> QED
        BY <4>3
    <3> QED
      BY <3>1, <3>2
  <2>3. issued[cached.id] \in Nat /\ cached.expires \in Nat /\ now + Buffer \in Nat
    BY <2>2, ClientAssumption DEF ClientInv, CallsTyped, ClientTypeOK
  <2> QED
    BY <2>2, <2>3 DEF ClientInv, TokensKnown
<1> QED
  BY <1>1, ClientInvariant, PTL DEF ClientSpec, TokensUsable

(* Two calls of Walmart's API are at least the floor apart.                *)
THEOREM WalmartIsPaced == ClientSpec => WalmartPaced
<1> DEFINE Let == \A c \in Calls : CallAt(c, "sleep") /\ call'[c].pc = "send" =>
                        now >= pace.last + Interval
<1>1. ClientInv /\ [ClientNext]_clientVars => [Let]_clientVars
  <2> SUFFICES ASSUME ClientInv, ClientNext, NEW c \in Calls,
                      CallAt(c, "sleep"), call'[c].pc = "send"
               PROVE  now >= pace.last + Interval
    OBVIOUS
  <2>1. LetThrough(c)
    BY CallNext
  <2> QED
    BY <2>1 DEF LetThrough, ClientInv, OneSleeper
<1> QED
  BY <1>1, ClientInvariant, PTL DEF ClientSpec, WalmartPaced

-----------------------------------------------------------------------------
(* ProductResolution: requests for one barcode agree on a committed row.   *)

Pcs == {"idle"} \union Naming \union Looking \union Answering \union Finished

(* One request takes a step, into a typed state.                           *)
Turns(r) == /\ resolve' \in [Resolves -> ResolveStates]
            /\ \A d \in Resolves \ {r} : resolve'[d] = resolve[d]

(* The updates of a request that change more than its step.               *)
SetsId(r, pc, i) == resolve' = [resolve EXCEPT ![r].pc = pc, ![r].id = i]
SetsUpc(r, pc, u) == resolve' = [resolve EXCEPT ![r].pc = pc, ![r].upc = u]
SetsCached(r, pc, u) == resolve' = [resolve EXCEPT ![r].pc = pc, ![r].upc = u, ![r].cached = TRUE]
SetsSource(r, pc, src) == resolve' = [resolve EXCEPT ![r].pc = pc, ![r].source = src]

(* What the updates of a request do to its fields.                         *)
LEMMA TurnPc ==
  ASSUME ResolveTyped, NEW r \in Resolves, NEW pc \in Pcs,
         resolve' = [resolve EXCEPT ![r].pc = pc]
  PROVE  /\ Turns(r)
         /\ resolve'[r].pc = pc /\ resolve'[r].upc = resolve[r].upc /\ resolve'[r].id = resolve[r].id
<1>1. resolve[r] \in ResolveStates /\ DOMAIN resolve = Resolves
  BY DEF ResolveTyped
<1>2. /\ resolve'[r] = [resolve[r] EXCEPT !.pc = pc]
      /\ \A d \in Resolves \ {r} : resolve'[d] = resolve[d]
  BY <1>1
<1>3. /\ resolve'[r] \in ResolveStates
      /\ resolve'[r].pc = pc /\ resolve'[r].upc = resolve[r].upc /\ resolve'[r].id = resolve[r].id
  BY <1>1, <1>2 DEF ResolveStates, Pcs
<1>4. resolve' = [d \in Resolves |-> resolve'[d]]
  BY <1>1
<1>5. \A d \in Resolves : resolve'[d] \in ResolveStates
  BY <1>2, <1>3 DEF ResolveTyped
<1>6. resolve' \in [Resolves -> ResolveStates]
  BY <1>4, <1>5
<1> QED
  BY <1>2, <1>3, <1>6 DEF Turns

LEMMA TurnId ==
  ASSUME ResolveTyped, NEW r \in Resolves, NEW pc \in Pcs, NEW i \in Resolves,
         SetsId(r, pc, i)
  PROVE  /\ Turns(r)
         /\ resolve'[r].pc = pc /\ resolve'[r].upc = resolve[r].upc /\ resolve'[r].id = i
<1>1. resolve[r] \in ResolveStates /\ DOMAIN resolve = Resolves
  BY DEF ResolveTyped
<1>2. /\ resolve'[r] = [[resolve[r] EXCEPT !.pc = pc] EXCEPT !.id = i]
      /\ \A d \in Resolves \ {r} : resolve'[d] = resolve[d]
  BY <1>1 DEF SetsId
<1>3. /\ resolve'[r] \in ResolveStates
      /\ resolve'[r].pc = pc /\ resolve'[r].upc = resolve[r].upc /\ resolve'[r].id = i
  BY <1>1, <1>2 DEF ResolveStates, Pcs
<1>4. resolve' = [d \in Resolves |-> resolve'[d]]
  BY <1>1 DEF SetsId
<1>5. \A d \in Resolves : resolve'[d] \in ResolveStates
  BY <1>2, <1>3 DEF ResolveTyped
<1>6. resolve' \in [Resolves -> ResolveStates]
  BY <1>4, <1>5
<1> QED
  BY <1>2, <1>3, <1>6 DEF Turns

LEMMA TurnUpc ==
  ASSUME ResolveTyped, NEW r \in Resolves, NEW pc \in Pcs, NEW u \in Upcs,
         SetsUpc(r, pc, u)
  PROVE  /\ Turns(r)
         /\ resolve'[r].pc = pc /\ resolve'[r].upc = u /\ resolve'[r].id = resolve[r].id
<1>1. resolve[r] \in ResolveStates /\ DOMAIN resolve = Resolves
  BY DEF ResolveTyped
<1>2. /\ resolve'[r] = [[resolve[r] EXCEPT !.pc = pc] EXCEPT !.upc = u]
      /\ \A d \in Resolves \ {r} : resolve'[d] = resolve[d]
  BY <1>1 DEF SetsUpc
<1>3. /\ resolve'[r] \in ResolveStates
      /\ resolve'[r].pc = pc /\ resolve'[r].upc = u /\ resolve'[r].id = resolve[r].id
  BY <1>1, <1>2 DEF ResolveStates, Pcs
<1>4. resolve' = [d \in Resolves |-> resolve'[d]]
  BY <1>1 DEF SetsUpc
<1>5. \A d \in Resolves : resolve'[d] \in ResolveStates
  BY <1>2, <1>3 DEF ResolveTyped
<1>6. resolve' \in [Resolves -> ResolveStates]
  BY <1>4, <1>5
<1> QED
  BY <1>2, <1>3, <1>6 DEF Turns

LEMMA TurnCached ==
  ASSUME ResolveTyped, NEW r \in Resolves, NEW pc \in Pcs, NEW u \in Upcs,
         SetsCached(r, pc, u)
  PROVE  /\ Turns(r)
         /\ resolve'[r].pc = pc /\ resolve'[r].upc = u /\ resolve'[r].id = resolve[r].id
<1>1. resolve[r] \in ResolveStates /\ DOMAIN resolve = Resolves
  BY DEF ResolveTyped
<1>2. /\ resolve'[r] = [[[resolve[r] EXCEPT !.pc = pc] EXCEPT !.upc = u] EXCEPT !.cached = TRUE]
      /\ \A d \in Resolves \ {r} : resolve'[d] = resolve[d]
  BY <1>1 DEF SetsCached
<1>3. /\ resolve'[r] \in ResolveStates
      /\ resolve'[r].pc = pc /\ resolve'[r].upc = u /\ resolve'[r].id = resolve[r].id
  <2> DEFINE s == [[resolve[r] EXCEPT !.pc = pc] EXCEPT !.upc = u]
  <2>1. s \in ResolveStates /\ s.pc = pc /\ s.upc = u /\ s.id = resolve[r].id
    BY <1>1 DEF ResolveStates, Pcs
  <2>2. PICK k \in BOOLEAN : resolve'[r] = [s EXCEPT !.cached = k]
    BY <1>2
  <2> HIDE DEF s
  <2> QED
    BY <2>1, <2>2 DEF ResolveStates
<1>4. resolve' = [d \in Resolves |-> resolve'[d]]
  BY <1>1 DEF SetsCached
<1>5. \A d \in Resolves : resolve'[d] \in ResolveStates
  BY <1>2, <1>3 DEF ResolveTyped
<1>6. resolve' \in [Resolves -> ResolveStates]
  BY <1>4, <1>5
<1> QED
  BY <1>2, <1>3, <1>6 DEF Turns

LEMMA TurnSource ==
  ASSUME ResolveTyped, NEW r \in Resolves, NEW pc \in Pcs, NEW src \in Sources,
         SetsSource(r, pc, src)
  PROVE  /\ Turns(r)
         /\ resolve'[r].pc = pc /\ resolve'[r].upc = resolve[r].upc /\ resolve'[r].id = resolve[r].id
<1>1. resolve[r] \in ResolveStates /\ DOMAIN resolve = Resolves
  BY DEF ResolveTyped
<1>2. /\ resolve'[r] = [[resolve[r] EXCEPT !.pc = pc] EXCEPT !.source = src]
      /\ \A d \in Resolves \ {r} : resolve'[d] = resolve[d]
  BY <1>1 DEF SetsSource
<1>3. /\ resolve'[r] \in ResolveStates
      /\ resolve'[r].pc = pc /\ resolve'[r].upc = resolve[r].upc /\ resolve'[r].id = resolve[r].id
  BY <1>1, <1>2 DEF ResolveStates, Pcs
<1>4. resolve' = [d \in Resolves |-> resolve'[d]]
  BY <1>1 DEF SetsSource
<1>5. \A d \in Resolves : resolve'[d] \in ResolveStates
  BY <1>2, <1>3 DEF ResolveTyped
<1>6. resolve' \in [Resolves -> ResolveStates]
  BY <1>4, <1>5
<1> QED
  BY <1>2, <1>3, <1>6 DEF Turns

LEMMA ResolutionInitInv == ResolutionInit => ResolutionInv
<1> SUFFICES ASSUME ResolutionInit PROVE ResolutionInv
  OBVIOUS
<1>1. NoResolve \in ResolveStates /\ NoResolve.pc = "idle"
  BY DEF NoResolve, ResolveStates, Kinds, Sources
<1>2. DOMAIN products = {}
  BY DEF ResolutionInit
<1>3. ResolveTyped
  BY <1>1, <1>2 DEF ResolutionInit, ResolveTyped
<1>4. UpcKnown /\ OwnRows /\ AnswersExist
  BY <1>1, <1>2
     DEF ResolutionInit, UpcKnown, OwnRows, AnswersExist, Naming, Looking, Answering
<1>5. UniqueUpc /\ CachedIds
  BY <1>2 DEF ResolutionInit, UniqueUpc, CachedIds
<1> QED
  BY <1>3, <1>4, <1>5 DEF ResolutionInv

(* A step of one request that commits nothing and flushes nothing: it may  *)
(* roll its row back, drop ids from Redis, or put the id it answers with   *)
(* there.                                                                  *)
LEMMA QuietStep ==
  ASSUME ResolutionInv, NEW r \in Resolves, Turns(r), resolve[r].pc \notin Finished,
         products' = products, devupc' \in Upcs \union {None},
         pending' = pending \/ pending' = [pending EXCEPT ![r] = None],
         redis' \in [Upcs -> Resolves \union {None}],
         \A u \in Upcs : \/ redis'[u] \in {None, redis[u]}
                         \/ /\ resolve[r].pc = "cache" /\ resolve[r].upc = u
                            /\ redis'[u] = resolve[r].id,
         resolve'[r].pc \in Naming => resolve'[r].upc = None,
         resolve'[r].pc \in Looking \union {"cache", "match"} => resolve'[r].upc # None,
         pending'[r] # None =>
            resolve'[r].pc \in Answering /\ UNCHANGED <<resolve[r].id, resolve[r].upc>>,
         resolve'[r].pc \in Answering \union {"done"} =>
            \/ pending'[r] # None
            \/ /\ resolve'[r].id \in DOMAIN products
               /\ resolve'[r].upc # None => products[resolve'[r].id].upc = resolve'[r].upc,
         resolve[r].pc \in Answering => resolve'[r].pc \in Answering \union Finished
  PROVE  ResolutionInv'
<1>1. /\ pending' \in [Resolves -> ProductRows \union {None}]
      /\ pending'[r] \in {None, pending[r]}
      /\ \A d \in Resolves \ {r} : pending'[d] = pending[d]
  BY DEF ResolutionInv, ResolveTyped
<1>2. r \notin DOMAIN products
  BY DEF ResolutionInv, OwnRows, ResolveAt, Finished
<1>3. ResolveTyped'
  BY <1>1 DEF ResolutionInv, ResolveTyped, Turns
<1>4. UpcKnown'
  BY DEF ResolutionInv, UpcKnown, Turns
<1>5. OwnRows'
  BY <1>1, <1>2 DEF ResolutionInv, OwnRows, Turns, ResolveAt
<1>6. AnswersExist'
  BY <1>1 DEF ResolutionInv, AnswersExist, Turns
<1>7. UniqueUpc'
  BY <1>1 DEF ResolutionInv, UniqueUpc
<1>8. CachedIds'
  <2> SUFFICES ASSUME NEW u \in Upcs, redis'[u] # None
               PROVE  /\ resolve'[redis'[u]].pc \in Answering \union Finished
                      /\ pending'[redis'[u]] # None => pending'[redis'[u]].upc = u
                      /\ redis'[u] \in DOMAIN products => products[redis'[u]].upc = u
    BY DEF CachedIds
  <2> DEFINE i == redis'[u]
  <2>1. /\ i \in Resolves /\ resolve[i].pc \in Answering \union Finished
        /\ pending[i] # None => pending[i].upc = u
        /\ i \in DOMAIN products => products[i].upc = u
    <3>1. CASE i = redis[u]
      BY <3>1 DEF ResolutionInv, CachedIds, ResolveTyped
    <3>2. CASE resolve[r].pc = "cache" /\ resolve[r].upc = u /\ i = resolve[r].id
      <4>1. u # None
        BY ResolutionAssumption
      <4>2. CASE pending[r] # None
        BY <3>2, <4>2, <1>2 DEF ResolutionInv, OwnRows, Answering
      <4>3. CASE pending[r] = None
        <5>1. i \in DOMAIN products /\ products[i].upc = u
          BY <3>2, <4>1, <4>3 DEF ResolutionInv, AnswersExist, Answering
        <5>2. resolve[i].pc = "done" /\ i \in Resolves
          BY <5>1 DEF ResolutionInv, OwnRows, ResolveTyped, ResolveAt
        <5>3. pending[i] = None
          BY <5>2 DEF ResolutionInv, OwnRows, Answering
        <5> QED
          BY <5>1, <5>2, <5>3 DEF Finished
      <4> QED
        BY <4>2, <4>3
    <3> QED
      BY <3>1, <3>2
  <2> HIDE DEF i
  <2>2. resolve'[i].pc \in Answering \union Finished
    BY <2>1 DEF Turns
  <2>3. pending'[i] # None => pending'[i].upc = u
    BY <1>1, <2>1
  <2> QED
    BY <2>1, <2>2, <2>3 DEF i
<1> QED
  BY <1>3, <1>4, <1>5, <1>6, <1>7, <1>8 DEF ResolutionInv

(* A request flushes its own row: no row has its UPC, and no other         *)
(* transaction's uncommitted row does.                                     *)
LEMMA FlushStep ==
  ASSUME ResolutionInv, NEW r \in Resolves, Turns(r),
         resolve[r].pc \in {"insert", "provisional"}, NEW row \in ProductRows,
         pending' = [pending EXCEPT ![r] = row], UNCHANGED <<products, redis, devupc>>,
         resolve'[r].pc \in Answering, resolve'[r].id = r, resolve'[r].upc = row.upc,
         resolve'[r].pc # "commit" => row.upc # None,
         row.upc # None =>
            /\ \A i \in DOMAIN products : products[i].upc # row.upc
            /\ \A s \in Resolves \ {r} : pending[s] # None => pending[s].upc # row.upc
  PROVE  ResolutionInv'
<1>1. /\ pending' \in [Resolves -> ProductRows \union {None}] /\ pending'[r] = row
      /\ \A d \in Resolves \ {r} : pending'[d] = pending[d]
  BY DEF ResolutionInv, ResolveTyped
<1>2. resolve[r].pc \notin Answering \union Finished
  BY DEF Answering, Finished
<1>3. r \notin DOMAIN products
  BY <1>2 DEF ResolutionInv, OwnRows, ResolveAt, Finished
<1>4. \A u \in Upcs : redis[u] # r
  <2> SUFFICES ASSUME NEW u \in Upcs, redis[u] = r PROVE FALSE
    OBVIOUS
  <2>1. r # None
    BY ResolutionAssumption
  <2> QED
    BY <1>2, <2>1 DEF ResolutionInv, CachedIds
<1>5. ResolveTyped'
  BY <1>1 DEF ResolutionInv, ResolveTyped, Turns
<1>6. UpcKnown'
  BY DEF ResolutionInv, UpcKnown, Turns, Answering, Looking, Naming
<1>7. OwnRows'
  BY <1>1, <1>3 DEF ResolutionInv, OwnRows, Turns, ResolveAt
<1>8. row # None
  BY ResolutionAssumption
<1>9. AnswersExist'
  BY <1>1, <1>8 DEF ResolutionInv, AnswersExist, Turns
<1>10. UniqueUpc'
  BY <1>1 DEF ResolutionInv, UniqueUpc
<1>11. CachedIds'
  BY <1>1, <1>4 DEF ResolutionInv, CachedIds, Turns, ResolveTyped
<1> QED
  BY <1>5, <1>6, <1>7, <1>9, <1>10, <1>11 DEF ResolutionInv

(* The steps, one lemma each for those that take more than a line.         *)
LEMMA BeginStep ==
  ASSUME ResolutionInv, NEW r \in Resolves,
         \/ \E u \in Upcs : Scan(r, u)
         \/ \E kind \in {"search", "confirm"} : Search(r, kind)
  PROVE  ResolutionInv'
<1>1. resolve[r].pc = "idle" /\ UNCHANGED <<products, pending, redis, devupc>>
  BY DEF Scan, Search, ResolveAt
<1>2. PICK s \in ResolveStates :
         /\ resolve' = [resolve EXCEPT ![r] = s]
         /\ \/ s.pc = "redis" /\ s.upc # None
            \/ s.pc = "devupc" /\ s.upc = None
  <2>1. CASE \E u \in Upcs : Scan(r, u)
    <3>1. PICK u \in Upcs : Scan(r, u)
      BY <2>1
    <3> DEFINE s == [NoResolve EXCEPT !.pc = "redis", !.upc = u]
    <3>2. s \in ResolveStates /\ s.pc = "redis" /\ s.upc # None
      BY ResolutionAssumption DEF NoResolve, ResolveStates, Kinds, Sources, Looking
    <3>3. resolve' = [resolve EXCEPT ![r] = s]
      BY <3>1 DEF Scan
    <3> HIDE DEF s
    <3> QED
      BY <3>2, <3>3
  <2>2. CASE \E kind \in {"search", "confirm"} : Search(r, kind)
    <3>1. PICK kind \in {"search", "confirm"} : Search(r, kind)
      BY <2>2
    <3> DEFINE s == [NoResolve EXCEPT !.pc = "devupc", !.kind = kind]
    <3>2. s \in ResolveStates /\ s.pc = "devupc" /\ s.upc = None
      BY DEF NoResolve, ResolveStates, Kinds, Sources, Naming
    <3>3. resolve' = [resolve EXCEPT ![r] = s]
      BY <3>1 DEF Search
    <3> HIDE DEF s
    <3> QED
      BY <3>2, <3>3
  <2> QED
    BY <2>1, <2>2
<1>3. Turns(r) /\ resolve'[r] = s
  BY <1>2 DEF ResolutionInv, ResolveTyped, Turns
<1>4. pending[r] = None
  BY <1>1 DEF ResolutionInv, OwnRows, Answering
<1> QED
  BY <1>1, <1>2, <1>3, <1>4, QuietStep
     DEF ResolutionInv, ResolveTyped, Naming, Looking, Answering, Finished

(* A request that holds no row looks on: only its step, UPC and source     *)
(* change, and an id may be dropped from Redis.                            *)
LEMMA LookStep ==
  ASSUME ResolutionInv, NEW r \in Resolves, Turns(r),
         resolve[r].pc \in Naming \union Looking,
         resolve'[r].pc \in {"describe", "provisional", "failed"} \union Looking,
         resolve'[r].pc \in {"describe", "provisional"} => resolve'[r].upc = None,
         resolve'[r].pc \in Looking => resolve'[r].upc # None,
         UNCHANGED <<products, pending, devupc>>,
         redis' \in [Upcs -> Resolves \union {None}],
         \A u \in Upcs : redis'[u] \in {None, redis[u]}
  PROVE  ResolutionInv'
<1>1. pending[r] = None
  BY DEF ResolutionInv, OwnRows, Naming, Looking, Answering
<1> QED
  BY <1>1, QuietStep
     DEF ResolutionInv, ResolveTyped, Naming, Looking, Answering, Finished

LEMMA ReadDevUpcStep ==
  ASSUME ResolutionInv, NEW r \in Resolves, ReadDevUpc(r)
  PROVE  ResolutionInv'
<1>1. ResolveTyped /\ resolve[r].pc = "devupc" /\ resolve[r].upc = None
      /\ UNCHANGED <<products, pending, redis, devupc>>
  BY DEF ReadDevUpc, ResolveAt, ResolutionInv, UpcKnown, Naming
<1>2. CASE devupc # None
  <2>1. devupc \in Upcs /\ devupc # None
    BY <1>2 DEF ResolutionInv, ResolveTyped
  <2>2. SetsCached(r, "redis", devupc)
    BY <1>2 DEF ReadDevUpc, SetsCached
  <2>3. "redis" \in Pcs
    BY DEF Pcs, Looking
  <2>4. Turns(r) /\ resolve'[r].pc = "redis" /\ resolve'[r].upc = devupc
    BY <1>1, <2>1, <2>2, <2>3, TurnCached
  <2> QED
    BY <1>1, <2>1, <2>4, LookStep DEF ResolveTyped, Naming, Looking
<1>3. CASE devupc = None
  <2>1. resolve' = [resolve EXCEPT ![r].pc = "describe"] /\ "describe" \in Pcs
    BY <1>3 DEF ReadDevUpc, Goes, Pcs, Naming
  <2>2. Turns(r) /\ resolve'[r].pc = "describe" /\ resolve'[r].upc = None
    BY <1>1, <2>1, TurnPc
  <2> QED
    BY <1>1, <2>2, LookStep DEF ResolveTyped, Naming, Looking
<1> QED
  BY <1>2, <1>3

LEMMA DescribeStep ==
  ASSUME ResolutionInv, NEW r \in Resolves, NEW g \in Upcs \union {None},
         NEW i \in Upcs \union {None}, Describe(r, g, i)
  PROVE  ResolutionInv'
<1> DEFINE u == IF g # None THEN g ELSE i
<1>1. ResolveTyped /\ resolve[r].pc = "describe" /\ resolve[r].upc = None
      /\ UNCHANGED <<products, pending, redis, devupc>>
  BY DEF Describe, ResolveAt, ResolutionInv, UpcKnown, Naming
<1>2. CASE u # None
  <2>1. u \in Upcs /\ SetsUpc(r, "redis", u)
    BY <1>2 DEF Describe, SetsUpc
  <2>2. "redis" \in Pcs
    BY DEF Pcs, Looking
  <2> HIDE DEF u
  <2>3. Turns(r) /\ resolve'[r].pc = "redis" /\ resolve'[r].upc # None
    BY <1>1, <1>2, <2>1, <2>2, TurnUpc
  <2> QED
    BY <1>1, <2>3, LookStep DEF ResolveTyped, Naming, Looking
<1>3. CASE u = None
  <2>1. PICK pc \in {"provisional", "failed"} : resolve' = [resolve EXCEPT ![r].pc = pc]
    BY <1>3 DEF Describe, Goes
  <2>2. pc \in Pcs
    BY DEF Pcs, Naming, Finished
  <2>3. Turns(r) /\ resolve'[r].pc = pc /\ resolve'[r].upc = None
    BY <1>1, <2>1, <2>2, TurnPc
  <2> QED
    BY <1>1, <2>3, LookStep DEF ResolveTyped, Naming, Looking
<1> QED
  BY <1>2, <1>3

LEMMA PersistProvisionalStep ==
  ASSUME ResolutionInv, NEW r \in Resolves, PersistProvisional(r)
  PROVE  ResolutionInv'
<1>1. ResolveTyped /\ resolve[r].pc = "provisional" /\ resolve[r].upc = None
      /\ UNCHANGED <<products, redis, devupc>> /\ pending[r] = None /\ "commit" \in Pcs
  BY DEF PersistProvisional, ResolveAt, ResolutionInv, UpcKnown, OwnRows, Naming, Answering,
         Pcs
<1>2. CASE {i \in DOMAIN products : products[i].source = "provisional"} # {}
  <2>1. PICK i \in DOMAIN products :
               SetsId(r, "commit", i)
    BY <1>2 DEF PersistProvisional, SetsId
  <2>2. i \in Resolves /\ pending' = pending
    BY <1>1, <1>2 DEF ResolveTyped, PersistProvisional
  <2>3. Turns(r) /\ resolve'[r].pc = "commit" /\ resolve'[r].id = i /\ resolve'[r].upc = None
    BY <1>1, <2>1, <2>2, TurnId
  <2> QED
    BY <1>1, <2>2, <2>3, QuietStep
       DEF ResolveTyped, Naming, Looking, Answering, Finished
<1>3. CASE {i \in DOMAIN products : products[i].source = "provisional"} = {}
  <2> DEFINE row == [upc |-> None, source |-> "provisional", confirmed |-> FALSE]
  <2>1. row \in ProductRows /\ row.upc = None
    BY DEF ProductRows, Sources
  <2>2. /\ pending' = [pending EXCEPT ![r] = row]
        /\ SetsId(r, "commit", r)
    BY <1>3 DEF PersistProvisional, SetsId
  <2> HIDE DEF row
  <2>3. Turns(r) /\ resolve'[r].pc = "commit" /\ resolve'[r].id = r /\ resolve'[r].upc = None
    BY <1>1, <2>2, TurnId
  <2> QED
    BY <1>1, <2>1, <2>2, <2>3, FlushStep DEF Answering
<1> QED
  BY <1>2, <1>3

LEMMA CheckRedisStep ==
  ASSUME ResolutionInv, NEW r \in Resolves, CheckRedis(r)
  PROVE  ResolutionInv'
<1> DEFINE u == resolve[r].upc
           i == redis[u]
<1>1. /\ ResolveTyped /\ resolve[r].pc = "redis" /\ u \in Upcs /\ u # None
      /\ UNCHANGED <<products, pending, devupc>> /\ pending[r] = None
      /\ {"match", "postgres"} \subseteq Pcs
  BY DEF CheckRedis, ResolveAt, ResolutionInv, ResolveTyped, ResolveStates, UpcKnown, OwnRows,
         Looking, Answering, Pcs
<1>2. CASE i \in DOMAIN products
  <2>1. SetsId(r, "match", i) /\ redis' = redis
    BY <1>2 DEF CheckRedis, SetsId
  <2>2. i \in Resolves /\ i # None /\ products[i].upc = u
    BY <1>1, <1>2, ResolutionAssumption DEF ResolutionInv, ResolveTyped, CachedIds
  <2> HIDE DEF i
  <2>3. Turns(r) /\ resolve'[r].pc = "match" /\ resolve'[r].id = i /\ resolve'[r].upc = u
    BY <1>1, <2>1, <2>2, TurnId
  <2> HIDE DEF u
  <2> QED
    BY <1>1, <1>2, <2>1, <2>2, <2>3, QuietStep
       DEF ResolveTyped, Naming, Looking, Answering, Finished
<1>3. CASE i \notin DOMAIN products
  <2>1. /\ resolve' = [resolve EXCEPT ![r].pc = "postgres"]
        /\ redis' = [redis EXCEPT ![u] = None]
    BY <1>3 DEF CheckRedis, Goes
  <2>2. Turns(r) /\ resolve'[r].pc = "postgres" /\ resolve'[r].upc = u
    BY <1>1, <2>1, TurnPc
  <2> HIDE DEF u
  <2>3. redis' \in [Upcs -> Resolves \union {None}] /\ \A v \in Upcs : redis'[v] \in {None, redis[v]}
    BY <1>1, <2>1 DEF ResolveTyped
  <2> QED
    BY <1>1, <2>2, <2>3, LookStep DEF Naming, Looking
<1> QED
  BY <1>2, <1>3

(* A committed row of a request's UPC is one to answer with.               *)
LEMMA FoundStep ==
  ASSUME ResolutionInv, NEW r \in Resolves, resolve[r].pc \in {"postgres", "insert"},
         NEW i \in RowOf(resolve[r].upc),
         SetsId(r, "cache", i),
         pending' = pending \/ RollBack(r), UNCHANGED <<products, redis, devupc>>
  PROVE  ResolutionInv'
<1>1. /\ ResolveTyped /\ i \in DOMAIN products /\ i \in Resolves
      /\ products[i].upc = resolve[r].upc /\ resolve[r].upc # None
      /\ "cache" \in Pcs
  BY DEF ResolutionInv, ResolveTyped, RowOf, UpcKnown, Looking, Answering, Pcs
<1>2. Turns(r) /\ resolve'[r].pc = "cache" /\ resolve'[r].id = i
      /\ resolve'[r].upc = resolve[r].upc
  BY <1>1, TurnId
<1>3. pending[r] = None /\ pending'[r] = None
  BY DEF ResolutionInv, OwnRows, ResolveTyped, RollBack, Looking, Answering
<1> QED
  BY <1>1, <1>2, <1>3, QuietStep DEF ResolveTyped, RollBack, Naming, Looking, Answering, Finished

LEMMA CheckPostgresStep ==
  ASSUME ResolutionInv, NEW r \in Resolves, CheckPostgres(r)
  PROVE  ResolutionInv'
<1>1. ResolveTyped /\ resolve[r].pc = "postgres" /\ resolve[r].upc # None
      /\ UNCHANGED <<products, pending, redis, devupc>> /\ "upstream" \in Pcs
  BY DEF CheckPostgres, ResolveAt, ResolutionInv, UpcKnown, Looking, Pcs
<1>2. CASE RowOf(resolve[r].upc) = {}
  <2>1. resolve' = [resolve EXCEPT ![r].pc = "upstream"]
    BY <1>2 DEF CheckPostgres, Goes
  <2>2. Turns(r) /\ resolve'[r].pc = "upstream" /\ resolve'[r].upc = resolve[r].upc
    BY <1>1, <2>1, TurnPc
  <2> QED
    BY <1>1, <2>2, LookStep DEF ResolveTyped, Naming, Looking
<1>3. CASE RowOf(resolve[r].upc) # {}
  <2>1. PICK i \in RowOf(resolve[r].upc) :
           SetsId(r, "cache", i)
    BY <1>3 DEF CheckPostgres, SetsId
  <2> QED
    BY <1>1, <2>1, FoundStep
<1> QED
  BY <1>2, <1>3

LEMMA UpstreamStep ==
  ASSUME ResolutionInv, NEW r \in Resolves, NEW first \in BOOLEAN, NEW retry \in BOOLEAN,
         NEW i \in {"agree", "disagree", "nothing"}, Upstream(r, first, retry, i)
  PROVE  ResolutionInv'
<1> DEFINE source == CrossValidate(first \/ retry, i)
<1>1. ResolveTyped /\ resolve[r].pc = "upstream" /\ resolve[r].upc # None
      /\ UNCHANGED <<products, pending, redis, devupc>> /\ {"failed", "insert"} \subseteq Pcs
  BY DEF Upstream, ResolveAt, ResolutionInv, UpcKnown, Looking, Finished, Pcs
<1>2. source \in Sources
  BY DEF CrossValidate, Sources
<1>3. CASE source = "none"
  <2>1. resolve' = [resolve EXCEPT ![r].pc = "failed"]
    BY <1>3 DEF Upstream, Goes
  <2>2. Turns(r) /\ resolve'[r].pc = "failed"
    BY <1>1, <2>1, TurnPc
  <2> QED
    BY <1>1, <2>2, LookStep DEF ResolveTyped, Naming, Looking
<1>4. CASE source # "none"
  <2>1. SetsSource(r, "insert", source)
    BY <1>4 DEF Upstream, SetsSource
  <2> HIDE DEF source
  <2>2. Turns(r) /\ resolve'[r].pc = "insert" /\ resolve'[r].upc = resolve[r].upc
    BY <1>1, <1>2, <2>1, TurnSource
  <2> QED
    BY <1>1, <2>2, LookStep DEF ResolveTyped, Naming, Looking
<1> QED
  BY <1>3, <1>4

LEMMA InsertStep ==
  ASSUME ResolutionInv, NEW r \in Resolves, Insert(r)
  PROVE  ResolutionInv'
<1> DEFINE u == resolve[r].upc
<1>1. /\ ResolveTyped /\ resolve[r].pc = "insert" /\ resolve[r] \in ResolveStates
      /\ u \in Upcs /\ u # None
      /\ UNCHANGED <<products, redis, devupc>> /\ "cache" \in Pcs
  BY DEF Insert, ResolveAt, ResolutionInv, ResolveTyped, ResolveStates, UpcKnown, Looking,
         Answering, Pcs
<1>2. \A s \in Resolves \ {r} : pending[s] # None => pending[s].upc # u
  BY DEF Insert
<1>3. CASE RowOf(u) = {}
  <2>1. PICK source \in Sources : source = resolve[r].source
    BY <1>1 DEF ResolveStates
  <2> DEFINE row == [upc |-> u, source |-> source, confirmed |-> FALSE]
  <2>2. row \in ProductRows /\ row.upc = u
    BY <1>1, <2>1 DEF ProductRows
  <2>3. pending' = [pending EXCEPT ![r] = row] /\ SetsId(r, "cache", r)
    BY <1>3, <2>1 DEF Insert, SetsId
  <2>4. \A i \in DOMAIN products : products[i].upc # u
    BY <1>3 DEF RowOf
  <2> HIDE DEF row, u
  <2>5. Turns(r) /\ resolve'[r].pc = "cache" /\ resolve'[r].id = r /\ resolve'[r].upc = u
    BY <1>1, <2>3, TurnId DEF u
  <2> QED
    BY <1>1, <1>2, <2>2, <2>3, <2>4, <2>5, FlushStep DEF Answering
<1>4. CASE RowOf(u) # {}
  <2>1. PICK i \in RowOf(u) : SetsId(r, "cache", i) /\ RollBack(r)
    BY <1>4 DEF Insert, SetsId
  <2> QED
    BY <1>1, <2>1, FoundStep
<1> QED
  BY <1>3, <1>4

LEMMA CacheStep ==
  ASSUME ResolutionInv, NEW r \in Resolves, Cache(r)
  PROVE  ResolutionInv'
<1> DEFINE u == resolve[r].upc
           i == resolve[r].id
<1>1. /\ ResolveTyped /\ resolve[r].pc = "cache" /\ u \in Upcs /\ u # None
      /\ UNCHANGED <<products, pending, devupc>> /\ Goes(r, "match") /\ "match" \in Pcs
      /\ redis' = [redis EXCEPT ![u] = i]
  BY DEF Cache, ResolveAt, ResolutionInv, ResolveTyped, ResolveStates, UpcKnown, Answering, Pcs
<1>2. /\ i \in Resolves
      /\ \/ pending[r] # None
         \/ i \in DOMAIN products /\ products[i].upc = u
  BY <1>1 DEF ResolutionInv, OwnRows, AnswersExist, ResolveTyped, Answering
<1>3. Turns(r) /\ resolve'[r].pc = "match" /\ resolve'[r].id = i /\ resolve'[r].upc = u
  BY <1>1, TurnPc DEF Goes
<1> HIDE DEF u, i
<1>4. /\ redis' \in [Upcs -> Resolves \union {None}] /\ redis'[u] = i
      /\ \A v \in Upcs \ {u} : redis'[v] = redis[v]
  BY <1>1, <1>2 DEF ResolveTyped
<1>5. \A v \in Upcs : \/ redis'[v] \in {None, redis[v]}
                      \/ /\ resolve[r].pc = "cache" /\ resolve[r].upc = v
                         /\ redis'[v] = resolve[r].id
  BY <1>1, <1>4 DEF u, i
<1>6. UNCHANGED <<resolve[r].id, resolve[r].upc>>
  BY <1>3 DEF u, i
<1> QED
  BY <1>1, <1>2, <1>3, <1>4, <1>5, <1>6, QuietStep
     DEF ResolveTyped, Naming, Looking, Answering, Finished

(* An answer is judged, or a request given up: its row goes with it.       *)
LEMMA GiveUpStep ==
  ASSUME ResolutionInv, NEW r \in Resolves, resolve[r].pc \notin Finished, Goes(r, "failed"),
         RollBack(r), devupc' \in Upcs \union {None}, UNCHANGED <<products, redis>>
  PROVE  ResolutionInv'
<1>1. ResolveTyped /\ "failed" \in Pcs
  BY DEF ResolutionInv, Finished, Pcs
<1>2. Turns(r) /\ resolve'[r].pc = "failed"
  BY <1>1, TurnPc DEF Goes
<1>3. pending' = [pending EXCEPT ![r] = None] /\ pending'[r] = None
  BY <1>1 DEF RollBack, ResolveTyped
<1> QED
  BY <1>1, <1>2, <1>3, QuietStep DEF ResolveTyped, Naming, Looking, Answering, Finished

LEMMA MatchStep ==
  ASSUME ResolutionInv, NEW r \in Resolves, Match(r)
  PROVE  ResolutionInv'
<1>1. /\ ResolveTyped /\ resolve[r].pc = "match" /\ resolve[r].upc \in Upcs
      /\ UNCHANGED <<products, redis>> /\ "commit" \in Pcs /\ devupc' \in Upcs \union {None}
  BY DEF Match, ResolveAt, ResolutionInv, ResolveTyped, ResolveStates, UpcKnown, Answering, Pcs
<1>2. CASE Goes(r, "commit") /\ pending' = pending
  <2>1. /\ Turns(r) /\ resolve'[r].pc = "commit" /\ UNCHANGED <<resolve[r].id, resolve[r].upc>>
    BY <1>1, <1>2, TurnPc DEF Goes
  <2>2. \/ pending[r] # None
        \/ /\ resolve[r].id \in DOMAIN products
           /\ resolve[r].upc # None => products[resolve[r].id].upc = resolve[r].upc
    BY <1>1 DEF ResolutionInv, AnswersExist, Answering
  <2> QED
    BY <1>1, <1>2, <2>1, <2>2, QuietStep DEF ResolveTyped, Naming, Looking, Answering, Finished
<1>3. CASE Goes(r, "failed") /\ RollBack(r)
  BY <1>1, <1>3, GiveUpStep DEF Finished
<1> QED
  BY <1>2, <1>3 DEF Match, Goes

(* A commit publishes the request's own row, if it has one: its UPC is no  *)
(* other row's, so what everyone else holds stays true.                    *)
LEMMA CommitResolveStep ==
  ASSUME ResolutionInv, NEW r \in Resolves, CommitResolve(r)
  PROVE  ResolutionInv'
<1>1. /\ ResolveTyped /\ resolve[r].pc = "commit" /\ Goes(r, "done") /\ RollBack(r)
      /\ UNCHANGED <<redis, devupc>> /\ "done" \in Pcs
  BY DEF CommitResolve, ResolveAt, ResolutionInv, Finished, Pcs
<1>2. /\ Turns(r) /\ resolve'[r].pc = "done" /\ UNCHANGED <<resolve[r].id, resolve[r].upc>>
  BY <1>1, TurnPc DEF Goes
<1>3. /\ pending' \in [Resolves -> ProductRows \union {None}] /\ pending'[r] = None
      /\ \A d \in Resolves \ {r} : pending'[d] = pending[d]
  BY <1>1 DEF ResolveTyped, RollBack
<1> DEFINE new == IF pending[r] = None THEN {} ELSE {r}
           stored == IF pending[r] = None THEN products
                     ELSE [i \in DOMAIN products \union {r} |->
                             IF i = r THEN pending[r] ELSE products[i]]
<1>4. r \notin DOMAIN products /\ DOMAIN products \subseteq Resolves
  BY <1>1 DEF ResolutionInv, OwnRows, ResolveTyped, ResolveAt
<1>5. pending[r] # None => resolve[r].id = r /\ pending[r] \in ProductRows
                           /\ pending[r].upc = resolve[r].upc
  BY DEF ResolutionInv, OwnRows, ResolveTyped
<1>6. /\ DOMAIN stored = DOMAIN products \union new
      /\ \A i \in DOMAIN products : stored[i] = products[i]
      /\ r \in new => stored[r] = pending[r]
      /\ \A i \in DOMAIN stored : stored[i] \in ProductRows
  BY <1>4, <1>5 DEF ResolutionInv, ResolveTyped
<1> HIDE DEF stored
<1>7. /\ DOMAIN products' = DOMAIN products \union new
      /\ \A i \in DOMAIN products' : products'[i] \in ProductRows /\ products'[i].upc = stored[i].upc
  <2>1. CASE products' = stored
    BY <1>6, <2>1
  <2>2. CASE products' = [stored EXCEPT ![resolve[r].id].confirmed = TRUE]
    <3> DEFINE k == resolve[r].id
    <3>1. DOMAIN products' = DOMAIN stored /\ \A i \in DOMAIN stored \ {k} : products'[i] = stored[i]
      BY <2>2
    <3>2. ASSUME k \in DOMAIN stored
          PROVE  products'[k] \in ProductRows /\ products'[k].upc = stored[k].upc
      <4>1. PICK row \in ProductRows : row = stored[k]
        BY <1>6, <3>2
      <4>2. PICK b \in BOOLEAN : products'[k] = [row EXCEPT !.confirmed = b]
        BY <2>2, <3>2, <4>1
      <4>3. products'[k] \in ProductRows /\ products'[k].upc = row.upc
        BY <4>2 DEF ProductRows
      <4> QED
        BY <4>1, <4>3
    <3> QED
      BY <1>6, <3>1, <3>2
  <2> QED
    BY <2>1, <2>2 DEF CommitResolve, stored
<1>8. /\ \A i \in DOMAIN products : i \in DOMAIN products' /\ products'[i].upc = products[i].upc
      /\ pending[r] # None => r \in DOMAIN products' /\ products'[r].upc = pending[r].upc
  BY <1>6, <1>7
<1>9. ResolveTyped'
  BY <1>1, <1>2, <1>3, <1>4, <1>7 DEF ResolveTyped, Turns
<1>10. UpcKnown'
  BY <1>2 DEF ResolutionInv, UpcKnown, Turns, Naming, Looking
<1>11. OwnRows'
  BY <1>2, <1>3, <1>4, <1>7 DEF ResolutionInv, OwnRows, Turns, ResolveAt
<1>12. AnswersExist'
  <2>1. /\ resolve[r].id \in DOMAIN products'
        /\ resolve[r].upc # None => products'[resolve[r].id].upc = resolve[r].upc
    BY <1>1, <1>5, <1>8 DEF ResolutionInv, AnswersExist, Answering
  <2> QED
    BY <1>2, <1>3, <1>8, <2>1 DEF ResolutionInv, AnswersExist, Turns
<1>13. UniqueUpc'
  <2> HIDE DEF new
  <2>1. ASSUME NEW i \in DOMAIN products', NEW j \in DOMAIN products',
               products'[i].upc = products'[j].upc, products'[i].upc # None
        PROVE  i = j
    BY <1>7, <1>8, <2>1 DEF ResolutionInv, UniqueUpc, new
  <2>2. ASSUME NEW s \in Resolves, pending'[s] # None, pending'[s].upc # None
        PROVE  /\ \A i \in DOMAIN products' : products'[i].upc # pending'[s].upc
               /\ \A d \in Resolves : pending'[d] # None /\ pending'[d].upc = pending'[s].upc => s = d
    <3>1. s # r /\ pending[s] # None /\ pending[s].upc # None /\ pending'[s] = pending[s]
      BY <1>3, <2>2
    <3>2. /\ \A i \in DOMAIN products : products[i].upc # pending[s].upc
          /\ \A d \in Resolves : pending[d] # None /\ pending[d].upc = pending[s].upc => s = d
      BY <3>1 DEF ResolutionInv, UniqueUpc
    <3> QED
      BY <1>3, <1>7, <1>8, <3>1, <3>2 DEF new
  <2> QED
    BY <2>1, <2>2 DEF UniqueUpc
<1>14. CachedIds'
  <2> SUFFICES ASSUME NEW u \in Upcs, redis[u] # None
               PROVE  /\ resolve'[redis[u]].pc \in Answering \union Finished
                      /\ pending'[redis[u]] # None => pending'[redis[u]].upc = u
                      /\ redis[u] \in DOMAIN products' => products'[redis[u]].upc = u
    BY <1>1 DEF CachedIds
  <2> DEFINE i == redis[u]
  <2>1. /\ i \in Resolves /\ resolve[i].pc \in Answering \union Finished
        /\ pending[i] # None => pending[i].upc = u
        /\ i \in DOMAIN products => products[i].upc = u
    BY DEF ResolutionInv, CachedIds, ResolveTyped
  <2> HIDE DEF i
  <2>2. resolve'[i].pc \in Answering \union Finished
    BY <1>2, <2>1 DEF Turns, Finished
  <2>3. pending'[i] # None => pending'[i].upc = u
    BY <1>3, <2>1
  <2>4. i \in DOMAIN products' => products'[i].upc = u
    BY <1>7, <1>8, <2>1
  <2> QED
    BY <2>2, <2>3, <2>4 DEF i
<1> QED
  BY <1>9, <1>10, <1>11, <1>12, <1>13, <1>14 DEF ResolutionInv

LEMMA ExpireStep == ResolutionInv /\ Expire => ResolutionInv'
<1> SUFFICES ASSUME ResolutionInv, Expire PROVE ResolutionInv'
  OBVIOUS
<1>1. /\ UNCHANGED <<products, pending, resolve>> /\ devupc' \in Upcs \union {None}
      /\ redis' \in [Upcs -> Resolves \union {None}] /\ \A u \in Upcs : redis'[u] \in {None, redis[u]}
  BY DEF Expire, ResolutionInv, ResolveTyped
<1>2. CachedIds'
  BY <1>1 DEF ResolutionInv, CachedIds
<1> QED
  BY <1>1, <1>2
     DEF ResolutionInv, ResolveTyped, UpcKnown, OwnRows, AnswersExist, UniqueUpc, ResolveAt

LEMMA ResolutionInvStep == ResolutionInv /\ [ResolutionNext]_resolutionVars => ResolutionInv'
<1> SUFFICES ASSUME ResolutionInv, [ResolutionNext]_resolutionVars PROVE ResolutionInv'
  OBVIOUS
<1>1. ASSUME NEW r \in Resolves,
             \/ \E u \in Upcs : Scan(r, u)
             \/ \E kind \in {"search", "confirm"} : Search(r, kind)
      PROVE  ResolutionInv'
  BY <1>1, BeginStep
<1>2. ASSUME NEW r \in Resolves, ReadDevUpc(r) PROVE ResolutionInv'
  BY <1>2, ReadDevUpcStep
<1>3. ASSUME NEW r \in Resolves, NEW g \in Upcs \union {None}, NEW i \in Upcs \union {None},
             Describe(r, g, i)
      PROVE  ResolutionInv'
  BY <1>3, DescribeStep
<1>4. ASSUME NEW r \in Resolves, PersistProvisional(r) PROVE ResolutionInv'
  BY <1>4, PersistProvisionalStep
<1>5. ASSUME NEW r \in Resolves, CheckRedis(r) PROVE ResolutionInv'
  BY <1>5, CheckRedisStep
<1>6. ASSUME NEW r \in Resolves, CheckPostgres(r) PROVE ResolutionInv'
  BY <1>6, CheckPostgresStep
<1>7. ASSUME NEW r \in Resolves, NEW first \in BOOLEAN, NEW retry \in BOOLEAN,
             NEW i \in {"agree", "disagree", "nothing"}, Upstream(r, first, retry, i)
      PROVE  ResolutionInv'
  BY <1>7, UpstreamStep
<1>8. ASSUME NEW r \in Resolves, Insert(r) PROVE ResolutionInv'
  BY <1>8, InsertStep
<1>9. ASSUME NEW r \in Resolves, Cache(r) PROVE ResolutionInv'
  BY <1>9, CacheStep
<1>10. ASSUME NEW r \in Resolves, Match(r) PROVE ResolutionInv'
  BY <1>10, MatchStep
<1>11. ASSUME NEW r \in Resolves, CommitResolve(r) PROVE ResolutionInv'
  BY <1>11, CommitResolveStep
<1>12. ASSUME NEW r \in Resolves, Abort(r) PROVE ResolutionInv'
  BY <1>12, GiveUpStep DEF Abort, ResolutionInv, ResolveTyped
<1>13. CASE UNCHANGED resolutionVars
  BY <1>13 DEF resolutionVars, ResolutionInv, ResolveTyped, UpcKnown, OwnRows, AnswersExist,
               UniqueUpc, CachedIds, ResolveAt
<1> QED
  BY <1>1, <1>2, <1>3, <1>4, <1>5, <1>6, <1>7, <1>8, <1>9, <1>10, <1>11, <1>12, <1>13, ExpireStep
     DEF ResolutionNext

LEMMA ResolutionInvariant == ResolutionSpec => []ResolutionInv
BY ResolutionInitInv, ResolutionInvStep, PTL DEF ResolutionSpec

(* The resolution's tables, caches and requests keep their types.          *)
THEOREM ResolutionTypes == ResolutionSpec => []ResolutionTypeOK
<1>1. ResolutionInv => ResolutionTypeOK
  BY DEF ResolutionInv, ResolveTyped, ResolveStates, ResolutionTypeOK
<1> QED
  BY <1>1, ResolutionInvariant, PTL

(* The requests for one barcode that succeed answer with one committed row *)
(* of it, however they interleave and whichever is rolled back.            *)
THEOREM BarcodesAgree == ResolutionSpec => []OneCanonicalRow
<1>1. ResolutionInv => OneCanonicalRow
  <2> SUFFICES ASSUME ResolutionInv, NEW r \in Resolves, resolve[r].pc = "done"
               PROVE  /\ resolve[r].id \in DOMAIN products
                      /\ resolve[r].upc # None => products[resolve[r].id].upc = resolve[r].upc
    BY DEF ResolutionInv, OneCanonicalRow, UniqueUpc, ResolveAt
  <2>1. pending[r] = None
    BY DEF ResolutionInv, OwnRows, Answering
  <2> QED
    BY <2>1 DEF ResolutionInv, AnswersExist
<1> QED
  BY <1>1, ResolutionInvariant, PTL

-----------------------------------------------------------------------------
(* MiscRetailer: what is shown of the merchants that are not scraped.      *)

(* Rows are in the order of their positions, and of the list.              *)
LEMMA RowOrder ==
  ASSUME NEW u, NEW v, NEW w,
         u.position \in Nat, v.position \in Nat, w.position \in Nat,
         u.place \in Nat, v.place \in Nat, w.place \in Nat
  PROVE  /\ ~RowBefore(u, u)
         /\ RowBefore(u, v) /\ RowBefore(v, w) => RowBefore(u, w)
         /\ RowBefore(u, v) => u.position <= v.position
         /\ u.place # v.place => RowBefore(u, v) \/ RowBefore(v, u)
BY DEF RowBefore

LEMMA EmptyOffers ==
  ASSUME NEW query \in Queries
  PROVE  {} \in Raws(query) /\ Nothing \in Answers(query) /\ <<>> \in Answers(query)
<1>1. Parsed(<<>>) = {}
  BY DEF Parsed
<1> QED
  BY <1>1 DEF Raws, Answers

LEMMA MiscInitInv == MiscInit => MiscInv
<1> SUFFICES ASSUME MiscInit PROVE MiscInv
  OBVIOUS
<1>1. ByName \in Queries
  BY MiscAssumption
<1>2. {} \in Raws(ByName) /\ Nothing \in Answers(ByName)
  BY <1>1, EmptyOffers
<1>3. NoReq \in Asking
  BY <1>1, <1>2 DEF NoReq, Asking, AllRaws
<1>4. miscReq \in [Shoppers -> Asking] /\ \A q \in Shoppers : miscReq[q] = NoReq
  BY <1>3 DEF MiscInit
<1>5. ASSUME NEW k \in Queries PROVE miscCache[k] \in Answers(k)
  BY EmptyOffers DEF MiscInit
<1> QED
  BY <1>2, <1>4, <1>5 DEF MiscInit, MiscInv, NoReq

(* A step of one request, and what it leaves of Redis.                     *)
LEMMA AskStep ==
  ASSUME MiscInv, NEW q \in Shoppers, NEW ask, AskBecomes(q, ask),
         ask \in Asking, ask.raw \in Raws(ask.query), ask.answer \in Answers(ask.query),
         NEW k \in Queries, NEW rows \in Answers(k),
         miscCache' = miscCache \/ miscCache' = [miscCache EXCEPT ![k] = rows],
         miscInflight' \in [Queries -> {Nothing, <<>>}]
  PROVE  MiscInv'
<1>1. miscReq' \in [Shoppers -> Asking] /\ \A d \in Shoppers : miscReq'[d] = IF d = q THEN ask ELSE miscReq[d]
  BY DEF MiscInv, AskBecomes
<1>2. DOMAIN miscCache' = Queries /\ \A d \in Queries : miscCache'[d] \in Answers(d)
  BY DEF MiscInv
<1> QED
  BY <1>1, <1>2 DEF MiscInv, Raws, Answers

LEMMA AskTyped ==
  ASSUME MiscInv, NEW q \in Shoppers
  PROVE  /\ miscReq[q] \in Asking /\ miscReq[q].query \in Queries
         /\ miscReq[q].raw \in Raws(miscReq[q].query)
         /\ miscReq[q].answer \in Answers(miscReq[q].query)
         /\ KeyOf(q) = miscReq[q].query
BY DEF MiscInv, Asking, KeyOf, MiscKey

LEMMA AnswerTyped ==
  ASSUME MiscInv, NEW query \in Queries, NEW rows \in Answers(query),
         NEW ask, ask = [NoReq EXCEPT !.query = query, !.answer = rows]
  PROVE  ask \in Asking /\ ask.raw \in Raws(ask.query) /\ ask.answer \in Answers(ask.query)
<1>1. {} \in Raws(query)
  BY EmptyOffers
<1> QED
  BY <1>1 DEF NoReq, Asking, AllRaws

LEMMA GoTyped ==
  ASSUME MiscInv, NEW q \in Shoppers, NEW pc,
         pc \in {"idle", "cache", "inflight", "mark", "fetch", "store", "clear", "raise"},
         NEW ask, ask = [miscReq[q] EXCEPT !.pc = pc]
  PROVE  ask \in Asking /\ ask.raw \in Raws(ask.query) /\ ask.answer \in Answers(ask.query)
BY AskTyped DEF Asking

LEMMA FetchTyped ==
  ASSUME NEW old \in Asking, NEW rows \in AllRaws
  PROVE  /\ WithRows(old, rows) \in Asking /\ WithRows(old, rows).raw = rows
         /\ WithRows(old, rows).query = old.query /\ WithRows(old, rows).answer = old.answer
<1> DEFINE given == UNION {Answers(k) : k \in Queries}
<1>1. Asking = [pc : {"idle", "cache", "inflight", "mark", "fetch", "store", "clear", "raise"},
                query : Queries, force : BOOLEAN, raw : AllRaws, answer : given]
  BY DEF Asking
<1> HIDE DEF given
<1> QED
  BY <1>1 DEF WithRows

LEMMA MiscStep == MiscInv /\ [MiscNext]_miscVars => MiscInv'
<1> SUFFICES ASSUME MiscInv, [MiscNext]_miscVars PROVE MiscInv'
  OBVIOUS
<1>1. miscInflight \in [Queries -> {Nothing, <<>>}]
  BY DEF MiscInv
<1>2. ASSUME NEW q \in Shoppers, GetMiscRetailers(q) PROVE MiscInv'
  <2>1. PICK query \in Queries, force \in BOOLEAN :
           AskBecomes(q, [NoReq EXCEPT !.pc = IF force THEN "mark" ELSE "cache",
                                       !.query = query, !.force = force])
    BY <1>2 DEF GetMiscRetailers
  <2> DEFINE ask == [NoReq EXCEPT !.pc = IF force THEN "mark" ELSE "cache",
                                  !.query = query, !.force = force]
  <2>2. {} \in Raws(query) /\ Nothing \in Answers(query)
    BY EmptyOffers
  <2>3. ask \in Asking /\ ask.raw \in Raws(ask.query) /\ ask.answer \in Answers(ask.query)
    BY <2>2 DEF NoReq, Asking, AllRaws
  <2>4. miscCache' = miscCache /\ miscInflight' = miscInflight
    BY <1>2 DEF GetMiscRetailers
  <2> HIDE DEF ask
  <2> QED
    BY <1>1, <2>1, <2>2, <2>3, <2>4, AskStep DEF ask
<1>3. ASSUME NEW q \in Shoppers, NEW rows \in Answers(miscReq[q].query), Answered(q, rows),
             miscCache' = miscCache, miscInflight' \in [Queries -> {Nothing, <<>>}]
      PROVE  MiscInv'
  <2> DEFINE ask == [NoReq EXCEPT !.query = miscReq[q].query, !.answer = rows]
  <2>1. miscReq[q].query \in Queries
    BY AskTyped
  <2>2. ask \in Asking /\ ask.raw \in Raws(ask.query) /\ ask.answer \in Answers(ask.query)
    BY <2>1, AnswerTyped
  <2>3. AskBecomes(q, ask)
    BY <1>3 DEF Answered
  <2> HIDE DEF ask
  <2> QED
    BY <1>3, <2>1, <2>2, <2>3, AskStep
<1>4. ASSUME NEW q \in Shoppers, NEW pc,
             pc \in {"idle", "cache", "inflight", "mark", "fetch", "store", "clear", "raise"},
             AskGoes(q, pc), NEW k \in Queries, NEW rows \in Answers(k),
             miscCache' = miscCache \/ miscCache' = [miscCache EXCEPT ![k] = rows],
             miscInflight' \in [Queries -> {Nothing, <<>>}]
      PROVE  MiscInv'
  <2> DEFINE ask == [miscReq[q] EXCEPT !.pc = pc]
  <2>1. ask \in Asking /\ ask.raw \in Raws(ask.query) /\ ask.answer \in Answers(ask.query)
    BY <1>4, GoTyped
  <2>2. AskBecomes(q, ask)
    BY <1>4 DEF AskGoes
  <2> HIDE DEF ask
  <2> QED
    BY <1>4, <2>1, <2>2, AskStep
<1>5. ASSUME NEW q \in Shoppers
      PROVE  /\ miscReq[q].query \in Queries /\ KeyOf(q) = miscReq[q].query
             /\ Nothing \in Answers(miscReq[q].query) /\ <<>> \in Answers(miscReq[q].query)
             /\ miscCache[KeyOf(q)] \in Answers(miscReq[q].query)
             /\ miscInflight[KeyOf(q)] \in Answers(miscReq[q].query)
             /\ Top(miscReq[q].raw) \in Answers(miscReq[q].query)
  <2>1. /\ miscReq[q].query \in Queries /\ KeyOf(q) = miscReq[q].query
        /\ miscReq[q].raw \in Raws(miscReq[q].query)
    BY AskTyped
  <2>2. Nothing \in Answers(miscReq[q].query) /\ <<>> \in Answers(miscReq[q].query)
    BY <2>1, EmptyOffers
  <2>3. miscCache[KeyOf(q)] \in Answers(miscReq[q].query)
    BY <2>1 DEF MiscInv
  <2>4. miscInflight[KeyOf(q)] \in {Nothing, <<>>}
    BY <1>1, <2>1
  <2>5. Top(miscReq[q].raw) \in Answers(miscReq[q].query)
    BY <2>1 DEF Answers
  <2> QED
    BY <2>1, <2>2, <2>3, <2>4, <2>5
<1>6. ASSUME NEW q \in Shoppers, ReadCache(q) PROVE MiscInv'
  <2>1. miscCache' = miscCache /\ miscInflight' = miscInflight
    BY <1>6 DEF ReadCache
  <2>2. Answered(q, miscCache[KeyOf(q)]) \/ AskGoes(q, "inflight")
    BY <1>6 DEF ReadCache
  <2>3. CASE Answered(q, miscCache[KeyOf(q)])
    BY <1>1, <1>3, <1>5, <2>1, <2>3
  <2>4. CASE AskGoes(q, "inflight")
    BY <1>1, <1>4, <1>5, <2>1, <2>4
  <2> QED
    BY <2>2, <2>3, <2>4
<1>7. ASSUME NEW q \in Shoppers, ReadInflight(q) PROVE MiscInv'
  <2>1. miscCache' = miscCache /\ miscInflight' = miscInflight
    BY <1>7 DEF ReadInflight
  <2>2. Answered(q, miscInflight[KeyOf(q)]) \/ AskGoes(q, "mark")
    BY <1>7 DEF ReadInflight
  <2>3. CASE Answered(q, miscInflight[KeyOf(q)])
    BY <1>1, <1>3, <1>5, <2>1, <2>3
  <2>4. CASE AskGoes(q, "mark")
    BY <1>1, <1>4, <1>5, <2>1, <2>4
  <2> QED
    BY <2>2, <2>3, <2>4
<1>8. ASSUME NEW q \in Shoppers, WriteInflight(q) PROVE MiscInv'
  <2>1. miscCache' = miscCache /\ AskGoes(q, "fetch")
        /\ miscInflight' \in {miscInflight, [miscInflight EXCEPT ![KeyOf(q)] = <<>>]}
    BY <1>8 DEF WriteInflight
  <2>2. miscInflight' \in [Queries -> {Nothing, <<>>}]
    BY <1>1, <2>1
  <2> QED
    BY <1>4, <1>5, <2>1, <2>2
<1>9. ASSUME NEW q \in Shoppers, Fetch(q) PROVE MiscInv'
  <2>1. miscCache' = miscCache /\ miscInflight' = miscInflight
    BY <1>9 DEF Fetch
  <2>2. CASE AskGoes(q, "raise")
    BY <1>1, <1>4, <1>5, <2>1, <2>2
  <2>3. ASSUME NEW items \in Found[miscReq[q].query] \cup {<<>>},
               AskBecomes(q, WithRows(miscReq[q], Parsed(items)))
        PROVE  MiscInv'
    <3> DEFINE rows == Parsed(items)
               ask == WithRows(miscReq[q], rows)
    <3>1. /\ miscReq[q] \in Asking /\ miscReq[q].query \in Queries
          /\ miscReq[q].answer \in Answers(miscReq[q].query)
      BY AskTyped
    <3>2. rows \in Raws(miscReq[q].query)
      BY DEF Raws
    <3> HIDE DEF rows
    <3>3. rows \in AllRaws
      BY <3>1, <3>2 DEF AllRaws
    <3>4. /\ ask \in Asking /\ ask.raw = rows /\ ask.query = miscReq[q].query
          /\ ask.answer = miscReq[q].answer
      BY <3>1, <3>3, FetchTyped
    <3>5. AskBecomes(q, ask)
      BY <2>3 DEF rows
    <3> HIDE DEF ask
    <3>6. ask.raw \in Raws(ask.query) /\ ask.answer \in Answers(ask.query)
      BY <3>1, <3>2, <3>4
    <3> QED
      BY <1>1, <1>5, <2>1, <3>4, <3>5, <3>6, AskStep
  <2> QED
    BY <1>9, <2>2, <2>3 DEF Fetch
<1>10. ASSUME NEW q \in Shoppers, WriteCache(q) PROVE MiscInv'
  <2>1. miscInflight' = miscInflight /\ AskGoes(q, "clear")
        /\ miscCache' \in {miscCache, [miscCache EXCEPT ![KeyOf(q)] = Top(miscReq[q].raw)]}
    BY <1>10 DEF WriteCache
  <2> QED
    BY <1>1, <1>4, <1>5, <2>1
<1>11. ASSUME NEW q \in Shoppers, ClearInflight(q) PROVE MiscInv'
  <2>1. miscCache' = miscCache /\ (Answered(q, Top(miscReq[q].raw)) \/ Answered(q, Nothing))
        /\ miscInflight' \in {miscInflight, [miscInflight EXCEPT ![KeyOf(q)] = Nothing]}
    BY <1>11 DEF ClearInflight
  <2>2. miscInflight' \in [Queries -> {Nothing, <<>>}]
    BY <1>1, <2>1
  <2> QED
    BY <1>3, <1>5, <2>1, <2>2
<1>12. ASSUME NEW q \in Shoppers, HangUp(q) PROVE MiscInv'
  <2>1. miscCache' = miscCache /\ miscInflight' = miscInflight /\ Answered(q, Nothing)
    BY <1>12 DEF HangUp
  <2> QED
    BY <1>1, <1>3, <1>5, <2>1
<1>13. ASSUME NEW k \in Queries, ExpireMisc(k) PROVE MiscInv'
  <2>1. miscReq' = miscReq
    BY <1>13 DEF ExpireMisc
  <2>2. miscInflight' \in [Queries -> {Nothing, <<>>}]
    BY <1>1, <1>13 DEF ExpireMisc
  <2>3. DOMAIN miscCache' = Queries /\ \A d \in Queries : miscCache'[d] \in Answers(d)
    BY <1>13, EmptyOffers DEF ExpireMisc, MiscInv
  <2> QED
    BY <2>1, <2>2, <2>3 DEF MiscInv, Raws, Answers
<1>14. CASE UNCHANGED miscVars
  BY <1>14 DEF miscVars, MiscInv, Raws, Answers
<1> QED
  BY <1>2, <1>6, <1>7, <1>8, <1>9, <1>10, <1>11, <1>12, <1>13, <1>14 DEF MiscNext

LEMMA MiscInvariant == MiscSpec => []MiscInv
  BY MiscInitInv, MiscStep, PTL DEF MiscSpec

(* The rows a list of items is read as are in an order, and what is shown  *)
(* of them are the first of those that are not scraped anyway.             *)
LEMMA TopRows ==
  ASSUME NEW query \in Queries, NEW items \in Found[query], NEW rows, rows = Parsed(items),
         NEW top, top = Top(rows)
  PROVE  /\ ToSet(top) \subseteq {r \in rows : r.merchant \notin Known}
         /\ \A r \in rows \ ToSet(top) :
              \/ r.merchant \in Known
              \/ Len(top) = MaxRows /\ \A g \in ToSet(top) : g.position <= r.position
<1> DEFINE ok == {i \in DOMAIN items : items[i].ok}
           f == [i \in ok |-> [merchant |-> items[i].merchant, place |-> i,
                               position |-> IF items[i].position = 0 THEN i ELSE items[i].position]]
           kept == {r \in rows : r.merchant \notin Known}
           R == {ab \in kept \X kept : RowBefore(ab[1], ab[2])}
<1>1. /\ Len(items) \in Nat /\ DOMAIN items = 1..Len(items) /\ MaxRows \in Nat
      /\ \A i \in DOMAIN items : items[i].position \in Nat
  BY MiscAssumption
<1>2. IsFiniteSet(kept)
  <2>1. IsFiniteSet(DOMAIN items)
    <3>1. Len(items) \in Nat /\ DOMAIN items = 1..Len(items)
      BY <1>1
    <3> QED
      BY <3>1, UpToFinite
  <2>2. IsFiniteSet(ok)
    BY <2>1, FS_Subset
  <2>3. f \in Surjection(ok, rows)
    BY DEF Surjection, Parsed
  <2>4. IsFiniteSet(rows)
    BY <2>2, <2>3, FS_Surjection
  <2> QED
    BY <2>4, FS_Subset
<1>3. ASSUME NEW r \in rows
      PROVE  /\ r.place \in ok /\ r.place \in Nat /\ r.position \in Nat
             /\ r = f[r.place]
  <2>1. PICK i \in ok : r = f[i]
    BY DEF Parsed
  <2>2. r.place = i /\ r.position = IF items[i].position = 0 THEN i ELSE items[i].position
    BY <2>1
  <2>3. i \in Nat /\ items[i].position \in Nat
    BY <1>1
  <2> HIDE DEF f, ok
  <2> QED
    BY <2>1, <2>2, <2>3
<1>4. \A u, v \in kept : <<u, v>> \in R <=> RowBefore(u, v)
  OBVIOUS
<1>5. /\ \A u \in kept : u.position \in Nat /\ u.place \in Nat
      /\ \A u, v \in kept : u.place = v.place => u = v
  <2> HIDE DEF f, ok
  <2> QED
    BY <1>3
<1> HIDE DEF R, kept, f, ok
<1>6. \A u \in kept : <<u, u>> \notin R
  BY <1>4, <1>5, RowOrder
<1>7. \A u, v, w \in kept : <<u, v>> \in R /\ <<v, w>> \in R => <<u, w>> \in R
  BY <1>4, <1>5, RowOrder
<1>8. \A u, v \in kept : u = v \/ <<u, v>> \in R \/ <<v, u>> \in R
  BY <1>4, <1>5, RowOrder
<1>9. top = FirstOf(kept, MaxRows, R)
  BY DEF Top, kept, R
<1>10. /\ Len(top) \in Nat /\ DOMAIN top = 1..Len(top)
       /\ \A i \in 1..Len(top) : top[i] \in kept
       /\ \A x \in kept : (\A i \in 1..Len(top) : top[i] # x) =>
             Len(top) = MaxRows /\ \A i \in 1..Len(top) : <<top[i], x>> \in R
  BY <1>1, <1>2, <1>6, <1>7, <1>8, <1>9, FirstAreBefore
<1>11. ToSet(top) = {top[i] : i \in 1..Len(top)}
  BY <1>10 DEF ToSet
<1>12. ToSet(top) \subseteq kept
  BY <1>10, <1>11
<1>13. ASSUME NEW r \in rows, r \notin ToSet(top), r.merchant \notin Known
       PROVE  Len(top) = MaxRows /\ \A g \in ToSet(top) : g.position <= r.position
  <2>1. r \in kept
    BY <1>13 DEF kept
  <2>2. Len(top) = MaxRows /\ \A i \in 1..Len(top) : <<top[i], r>> \in R
    BY <1>10, <1>11, <1>13, <2>1
  <2>3. ASSUME NEW g \in ToSet(top) PROVE g.position <= r.position
    <3>1. RowBefore(g, r) /\ g \in kept
      BY <1>4, <1>10, <1>11, <2>1, <2>2
    <3> QED
      BY <1>5, <2>1, <3>1, RowOrder
  <2> QED
    BY <2>2, <2>3
<1> QED
  BY <1>12, <1>13 DEF kept

(* Of no items there is nothing to show.                                   *)
LEMMA TopOfNothing == Top(Parsed(<<>>)) = <<>>
<1>1. Parsed(<<>>) = {}
  BY DEF Parsed
<1> DEFINE R == {ab \in {} \X {} : RowBefore(ab[1], ab[2])}
           top == FirstOf({}, MaxRows, R)
<1>2. Top({}) = top
  <2>1. {r \in {} : r.merchant \notin Known} = {}
    OBVIOUS
  <2> QED
    BY <2>1 DEF Top
<1>3. IsFiniteSet({}) /\ MaxRows \in Nat
  BY FS_EmptySet, MiscAssumption
<1> HIDE DEF R
<1>4. top \in Seq({}) /\ Len(top) \in Nat /\ \A i \in 1..Len(top) : top[i] \in {}
  <2> HIDE DEF top
  <2> QED
    BY <1>3, FirstAreBefore DEF top
<1> HIDE DEF top
<1>5. Len(top) = 0
  BY <1>4
<1>6. top = <<>>
  BY <1>4, <1>5, EmptySeq
<1> QED
  BY <1>1, <1>2, <1>6

(* However requests overlap and whatever Redis loses, the rows a request   *)
(* is given are the top of a search for what it asked.                     *)
THEOREM MiscRowsAreTheTop == MiscSpec => []TopOfItsOwnSearch
<1>1. MiscInv => TopOfItsOwnSearch
  <2> SUFFICES ASSUME MiscInv, NEW q \in Shoppers, miscReq[q].answer \notin {Nothing, <<>>}
               PROVE  \E items \in Found[miscReq[q].query] :
                        LET rows == Parsed(items)
                            given == ToSet(miscReq[q].answer)
                        IN  /\ given \subseteq {r \in rows : r.merchant \notin Known}
                            /\ \A r \in rows \ given :
                                 \/ r.merchant \in Known
                                 \/ (Len(miscReq[q].answer) = MaxRows
                                       /\ \A g \in given : g.position <= r.position)
    BY DEF TopOfItsOwnSearch
  <2>1. miscReq[q].query \in Queries /\ miscReq[q].answer \in Answers(miscReq[q].query)
    BY AskTyped
  <2>2. PICK items \in Found[miscReq[q].query] \cup {<<>>} : miscReq[q].answer = Top(Parsed(items))
    BY <2>1 DEF Answers, Raws
  <2>3. items \in Found[miscReq[q].query]
    BY <2>2, TopOfNothing
  <2> QED
    BY <2>1, <2>2, <2>3, TopRows
<1> QED
  BY <1>1, MiscInvariant, PTL

-----------------------------------------------------------------------------
(* ListingPick: a cheaper listing never costs the buyer.                   *)

(* Some listings at indices I, their prices, and those of at most a price.  *)
Price(some, I) == [i \in I |-> some[i].price]
AtMost(some, I, p) == {i \in I : some[i].price <= p}

LEMMA AtMostCounts ==
    ASSUME NEW some, NEW I, IsFiniteSet(I), NEW p
    PROVE  IsFiniteSet(AtMost(some, I, p)) /\ Cardinality(AtMost(some, I, p)) \in Nat
  <1>1. AtMost(some, I, p) \subseteq I
    BY DEF AtMost
  <1> QED
    BY <1>1, FS_Subset, FS_CardinalityType

(* There is a k-th lowest price, and what it is.                            *)
LEMMA NthLowestIs ==
    ASSUME NEW some, NEW I, IsFiniteSet(I), \A i \in I : some[i].price \in Nat,
           NEW k \in Nat, k <= Cardinality(I), I # {}
    PROVE  LET x == NthLowest(some, I, k) IN
           /\ x \in Nat /\ \E i \in I : some[i].price = x
           /\ Cardinality(AtMost(some, I, x)) >= k
           /\ \A i \in I : Cardinality(AtMost(some, I, some[i].price)) >= k => x <= some[i].price
  <1> DEFINE All == {some[i].price : i \in I}
             Enough == {p \in All : Cardinality(AtMost(some, I, p)) >= k}
  <1>1. All \in SUBSET Nat /\ All # {}
    OBVIOUS
  <1>2. IsFiniteSet(All)
    <2>1. Price(some, I) \in [I -> All]
      BY DEF Price
    <2>2. Price(some, I) \in Surjection(I, All)
      BY <2>1 DEF Surjection, Price
    <2> QED
      BY <2>2, FS_Surjection
  <1>3. Max(All) \in All /\ \A p \in All : Max(All) >= p
    <2> HIDE DEF All
    <2> QED
      BY <1>1, <1>2, GreatestOfFinite
  <1>4. AtMost(some, I, Max(All)) = I
    <2>1. \A i \in I : some[i].price \in All /\ some[i].price \in Nat
      OBVIOUS
    <2>2. Max(All) \in Nat
      BY <1>1, <1>3
    <2> HIDE DEF All
    <2> QED
      BY <1>3, <2>1, <2>2 DEF AtMost
  <1>5. Enough \in SUBSET Nat /\ Enough # {}
    <2>1. Max(All) \in Enough
      <3> HIDE DEF All
      <3> QED
        BY <1>3, <1>4
    <2> QED
      BY <1>1, <2>1
  <1>6. Min(Enough) \in Enough /\ \A p \in Enough : Min(Enough) <= p
    <2> HIDE DEF Enough
    <2> QED
      BY <1>5, FirstInstant
  <1>7. NthLowest(some, I, k) = Min(Enough)
    BY DEF NthLowest, AtMost
  <1>8. \A i \in I : Cardinality(AtMost(some, I, some[i].price)) >= k => some[i].price \in Enough
    OBVIOUS
  <1>9. \A p \in Enough : /\ p \in Nat /\ (\E i \in I : some[i].price = p)
                          /\ Cardinality(AtMost(some, I, p)) >= k
    OBVIOUS
  <1> HIDE DEF Enough
  <1> QED
    BY <1>6, <1>7, <1>8, <1>9

(* A listing more of at most a price makes one more.                        *)
LEMMA OneMoreAtMost ==
    ASSUME NEW some, NEW I, IsFiniteSet(I), NEW x, x \notin I, NEW p \in Nat,
           \A i \in I \cup {x} : some[i].price \in Nat
    PROVE  LET before == Cardinality(AtMost(some, I, p))
               after == Cardinality(AtMost(some, I \cup {x}, p))
           IN  /\ before \in Nat /\ after \in Nat /\ after >= before
               /\ some[x].price <= p => after = before + 1
  <1>1. IsFiniteSet(AtMost(some, I, p)) /\ Cardinality(AtMost(some, I, p)) \in Nat
    BY AtMostCounts
  <1>2. CASE some[x].price <= p
    <2>1. AtMost(some, I \cup {x}, p) = AtMost(some, I, p) \cup {x} /\ x \notin AtMost(some, I, p)
      BY <1>2 DEF AtMost
    <2>2. Cardinality(AtMost(some, I \cup {x}, p)) = Cardinality(AtMost(some, I, p)) + 1
      BY <1>1, <2>1, FS_AddElement
    <2> DEFINE a == Cardinality(AtMost(some, I, p))
    <2> HIDE DEF a
    <2>3. a + 1 \in Nat /\ a + 1 >= a
      BY <1>1 DEF a
    <2> QED
      BY <1>1, <2>2, <2>3 DEF a
  <1>3. CASE ~(some[x].price <= p)
    <2>1. AtMost(some, I \cup {x}, p) = AtMost(some, I, p)
      BY <1>3 DEF AtMost
    <2> QED
      BY <1>1, <1>3, <2>1, AtMostCounts
  <1> QED
    BY <1>2, <1>3

(* What the median becomes with one listing more.                           *)
LEMMA NthOfMore ==
    ASSUME NEW some, NEW I, IsFiniteSet(I), I # {}, NEW x, x \notin I,
           \A i \in I \cup {x} : some[i].price \in Nat, NEW k \in Nat, k <= Cardinality(I)
    PROVE  LET J == I \cup {x}
               y == NthLowest(some, I, k)
               q == some[x].price
           IN  /\ y \in Nat /\ NthLowest(some, J, k) \in Nat /\ NthLowest(some, J, k + 1) \in Nat
               /\ NthLowest(some, J, k) <= y
               /\ y <= q => NthLowest(some, J, k + 1) <= q
               /\ q <= y => NthLowest(some, J, k + 1) <= y
  <1> DEFINE J == I \cup {x}
             y == NthLowest(some, I, k)
             q == some[x].price
  <1>1. y \in Nat /\ Cardinality(AtMost(some, I, y)) >= k
    BY NthLowestIs
  <1>2. PICK i \in I : some[i].price = y
    BY NthLowestIs
  <1>3. IsFiniteSet(J) /\ J # {} /\ Cardinality(J) = Cardinality(I) + 1 /\ Cardinality(I) \in Nat
    BY FS_AddElement, FS_CardinalityType
  <1>4. q \in Nat /\ x \in J /\ i \in J
    OBVIOUS
  <1> HIDE DEF y
  <1> DEFINE a == Cardinality(AtMost(some, I, y))
             b == Cardinality(AtMost(some, J, y))
             c == Cardinality(AtMost(some, I, q))
             d == Cardinality(AtMost(some, J, q))
  <1>5. a \in Nat /\ b \in Nat /\ b >= a /\ (q <= y => b = a + 1)
    BY <1>1, OneMoreAtMost
  <1>6. c \in Nat /\ d \in Nat /\ d = c + 1
    <2>1. q <= q /\ some[x].price = q /\ q \in Nat
      BY <1>4
    <2> HIDE DEF q
    <2>2. c \in Nat /\ d \in Nat
      BY <2>1, OneMoreAtMost
    <2>3. some[x].price <= q
      BY <2>1
    <2>4. d = c + 1
      BY <2>1, <2>3, OneMoreAtMost
    <2> QED
      BY <2>2, <2>4
  <1>7. y <= q => c >= a
    <2> SUFFICES ASSUME y <= q PROVE c >= a
      OBVIOUS
    <2>1. AtMost(some, I, y) \subseteq AtMost(some, I, q)
      <3> SUFFICES ASSUME NEW j \in AtMost(some, I, y) PROVE j \in AtMost(some, I, q)
        OBVIOUS
      <3>1. j \in I /\ some[j].price \in Nat /\ some[j].price <= y
        BY DEF AtMost
      <3>2. some[j].price <= q
        BY <1>1, <1>4, <3>1
      <3> QED
        BY <3>1, <3>2 DEF AtMost
    <2>2. IsFiniteSet(AtMost(some, I, q))
      BY AtMostCounts
    <2>3. a <= c
      BY <2>1, <2>2, FS_Subset
    <2> QED
      BY <1>5, <1>6, <2>3
  <1> DEFINE u == NthLowest(some, J, k)
             v == NthLowest(some, J, k + 1)
  <1>8. u \in Nat /\ (b >= k => u <= y)
    <2>1. k <= Cardinality(J)
      BY <1>3
    <2>2. u \in Nat /\ \A j \in J : Cardinality(AtMost(some, J, some[j].price)) >= k => u <= some[j].price
      BY <1>3, <2>1, NthLowestIs
    <2> QED
      BY <1>2, <1>4, <2>2
  <1>9. v \in Nat /\ (b >= k + 1 => v <= y) /\ (d >= k + 1 => v <= q)
    <2>1. k + 1 <= Cardinality(J) /\ k + 1 \in Nat
      BY <1>3
    <2>2. v \in Nat /\ \A j \in J : Cardinality(AtMost(some, J, some[j].price)) >= k + 1 => v <= some[j].price
      BY <1>3, <2>1, NthLowestIs
    <2> QED
      BY <1>2, <1>4, <2>2
  <1>10. a >= k
    BY <1>1
  <1> HIDE DEF a, b, c, d, u, v, q
  <1>11. u <= y
    BY <1>5, <1>8, <1>10
  <1>12. y <= q => v <= q
    BY <1>5, <1>6, <1>7, <1>9, <1>10
  <1>13. q <= y => v <= y
    BY <1>5, <1>9, <1>10
  <1> QED
    BY <1>1, <1>8, <1>9, <1>11, <1>12, <1>13 DEF y, u, v, q

(* The k-th lowest price grows with k.                                      *)
LEMMA NthGrows ==
    ASSUME NEW some, NEW I, IsFiniteSet(I), I # {}, \A i \in I : some[i].price \in Nat,
           NEW k \in Nat, NEW m \in Nat, k <= m, m <= Cardinality(I)
    PROVE  /\ NthLowest(some, I, k) \in Nat /\ NthLowest(some, I, m) \in Nat
           /\ NthLowest(some, I, k) <= NthLowest(some, I, m)
  <1> DEFINE y == NthLowest(some, I, k)
             z == NthLowest(some, I, m)
  <1>1. Cardinality(I) \in Nat
    BY FS_CardinalityType
  <1>2. z \in Nat /\ Cardinality(AtMost(some, I, z)) >= m
    BY NthLowestIs
  <1>3. PICK i \in I : some[i].price = z
    BY NthLowestIs
  <1>4. k <= Cardinality(I)
    BY <1>1
  <1>5. y \in Nat /\ \A j \in I : Cardinality(AtMost(some, I, some[j].price)) >= k => y <= some[j].price
    BY <1>4, NthLowestIs
  <1>6. Cardinality(AtMost(some, I, z)) \in Nat
    BY AtMostCounts
  <1> HIDE DEF y, z
  <1>7. Cardinality(AtMost(some, I, z)) >= k
    BY <1>2, <1>6
  <1> QED
    BY <1>2, <1>3, <1>5, <1>7 DEF y, z

(* A price that is not under 40 % of the median is not with a listing more *)
(* of at most that price either.                                            *)
LEMMA NoOutlierWithMore ==
    ASSUME NEW some, NEW I, IsFiniteSet(I), I # {}, NEW x, x \notin I,
           \A i \in I \cup {x} : some[i].price \in Nat,
           NEW p \in Nat, some[x].price <= p, 5 * p >= TwiceMedian(some, I)
    PROVE  5 * p >= TwiceMedian(some, I \cup {x})
  <1> DEFINE n == Cardinality(I)
             J == I \cup {x}
             q == some[x].price
             N(k) == NthLowest(some, I, k)
             M(k) == NthLowest(some, J, k)
  <1>1. n \in Nat /\ n >= 1 /\ Cardinality(J) = n + 1
    <2>1. n # 0
      BY FS_EmptySet
    <2> QED
      BY <2>1, FS_AddElement, FS_CardinalityType
  <1>2. q \in Nat /\ q <= p
    OBVIOUS
  <1>3. TwiceMedian(some, I) = N((n + 1) \div 2) + N(n \div 2 + 1)
    BY DEF TwiceMedian
  <1>4. TwiceMedian(some, J) = M((n + 2) \div 2) + M((n + 1) \div 2 + 1)
    <2>1. TwiceMedian(some, J) = M((Cardinality(J) + 1) \div 2) + M(Cardinality(J) \div 2 + 1)
      BY DEF TwiceMedian
    <2>2. (n + 1) + 1 = n + 2
      BY <1>1
    <2> HIDE DEF M, n, J
    <2> QED
      BY <1>1, <2>1, <2>2
  <1>5. CASE \E m \in Nat : n = 2 * m + 1
    <2>1. PICK m \in Nat : n = 2 * m + 1
      BY <1>5
    <2> DEFINE k == m + 1
    <2>2. /\ (n + 1) \div 2 = k /\ n \div 2 + 1 = k /\ (n + 2) \div 2 = k /\ (n + 1) \div 2 + 1 = k + 1
          /\ k \in Nat /\ k <= n
      <3> HIDE DEF n
      <3> QED
        BY <2>1
    <2>3. /\ N(k) \in Nat /\ M(k) \in Nat /\ M(k + 1) \in Nat /\ M(k) <= N(k)
          /\ (N(k) <= q => M(k + 1) <= q) /\ (q <= N(k) => M(k + 1) <= N(k))
      <3> HIDE DEF k
      <3> QED
        BY <2>2, NthOfMore
    <2>4. TwiceMedian(some, I) = N(k) + N(k) /\ TwiceMedian(some, J) = M(k) + M(k + 1)
      <3> HIDE DEF k, N, M, n, J
      <3> QED
        BY <1>3, <1>4, <2>2
    <2> HIDE DEF N, M, k, J, q
    <2> QED
      BY <1>2, <2>3, <2>4 DEF J
  <1>6. CASE \E m \in Nat : n = 2 * m
    <2>1. PICK m \in Nat : n = 2 * m
      BY <1>6
    <2>2. /\ (n + 1) \div 2 = m /\ n \div 2 + 1 = m + 1 /\ (n + 2) \div 2 = m + 1
          /\ (n + 1) \div 2 + 1 = m + 1 /\ m <= n /\ m + 1 <= n /\ m <= m + 1 /\ m + 1 \in Nat
      <3> HIDE DEF n
      <3> QED
        BY <1>1, <2>1
    <2>3. /\ N(m) \in Nat /\ M(m + 1) \in Nat
          /\ (N(m) <= q => M(m + 1) <= q) /\ (q <= N(m) => M(m + 1) <= N(m))
      BY <2>2, NthOfMore
    <2>4. N(m + 1) \in Nat /\ N(m) <= N(m + 1)
      <3> DEFINE k == m + 1
      <3>1. k \in Nat /\ m <= k /\ k <= n
        BY <2>2
      <3> HIDE DEF k
      <3>2. N(k) \in Nat /\ N(m) <= N(k)
        BY <3>1, NthGrows
      <3> QED
        BY <3>2 DEF k
    <2>5. TwiceMedian(some, I) = N(m) + N(m + 1) /\ TwiceMedian(some, J) = M(m + 1) + M(m + 1)
      <3> HIDE DEF N, M, n, J
      <3> QED
        BY <1>3, <1>4, <2>2
    <2> HIDE DEF N, M, J, q
    <2> QED
      BY <1>2, <2>3, <2>4, <2>5 DEF J
  <1>7. (\E m \in Nat : n = 2 * m) \/ (\E m \in Nat : n = 2 * m + 1)
    <2>1. n = 2 * (n \div 2) \/ n = 2 * (n \div 2) + 1
      <3> HIDE DEF n
      <3> QED
        BY <1>1
    <2>2. n \div 2 \in Nat
      <3> HIDE DEF n
      <3> QED
        BY <1>1
    <2> HIDE DEF n
    <2> QED
      BY <2>1, <2>2
  <1> QED
    BY <1>5, <1>6, <1>7

(* A score is a percentage.                                                 *)
LEMMA ScoreIsPercent ==
    ASSUME NEW t, NEW r
    PROVE  Score(t, r) \in 0..100
  <1> DEFINE n == Cardinality(Product.tokens)
             m == Cardinality(Product.tokens \cap t.tokens)
  <1>1. n \in Nat /\ m \in Nat /\ m <= n
    <2>1. Product.tokens \cap t.tokens \subseteq Product.tokens
      OBVIOUS
    <2> QED
      BY <2>1, PickAssumption, FS_Subset, FS_CardinalityType
  <1>2. n = 0 <=> Product.tokens = {}
    BY PickAssumption, FS_EmptySet
  <1>3. Score(t, r) = CASE Rejected(t, r) -> 0
                        [] Product.tokens = {} -> 50
                        [] ModelMissing(t) -> IF 100 * m < 60 * n THEN 0 ELSE 50
                        [] OTHER -> IF 100 * m < Threshold * n THEN 0 ELSE (100 * m) \div n
    BY DEF Score
  <1> HIDE DEF n, m
  <1>4. n # 0 => (100 * m) \div n \in 0..100
    <2> SUFFICES ASSUME n # 0 PROVE (100 * m) \div n \in 0..100
      OBVIOUS
    <2>1. n \in Nat \ {0} /\ 100 * m \in Nat /\ 100 * m <= 100 * n
      BY <1>1
    <2> DEFINE q == (100 * m) \div n
    <2>2. q \in Nat /\ n * q <= 100 * m
      BY <2>1
    <2> HIDE DEF q
    <2>3. q <= 100
      <3> SUFFICES ASSUME q >= 101 PROVE FALSE
        BY <2>2
      <3>1. n * q >= n * 101
        BY <2>1, <2>2
      <3> QED
        BY <2>1, <2>2, <3>1, <1>1
    <2> QED
      BY <2>2, <2>3 DEF q
  <1> QED
    BY <1>2, <1>3, <1>4

LEMMA ParseOnSale ==
    ASSUME NEW some \in Seq(OnSale), NEW r
    PROVE  /\ IsFiniteSet(DOMAIN some) /\ DOMAIN some = 1..Len(some) /\ Len(some) \in Nat
           /\ \A i \in DOMAIN some : some[i] \in OnSale /\ some[i].price \in Nat
                                                    /\ some[i].available \in BOOLEAN
           /\ Valid(some, r) \subseteq Priced(some) /\ Priced(some) \subseteq DOMAIN some
           /\ WithoutOutliers(some, Valid(some, r), r) \subseteq Valid(some, r)
           /\ Candidates(some, r) \subseteq AboveThreshold(some, r)
           /\ AboveThreshold(some, r) \subseteq WithoutOutliers(some, Valid(some, r), r)
  <1>1. DOMAIN some = 1..Len(some) /\ Len(some) \in Nat /\ \A i \in DOMAIN some : some[i] \in OnSale
    OBVIOUS
  <1>2. IsFiniteSet(DOMAIN some)
    BY <1>1, UpToFinite
  <1>3. \A i \in DOMAIN some : some[i].price \in Nat /\ some[i].available \in BOOLEAN
    BY <1>1, PickAssumption
  <1>4. Valid(some, r) \subseteq Priced(some) /\ Priced(some) \subseteq DOMAIN some
    BY DEF Valid, Priced
  <1>5. WithoutOutliers(some, Valid(some, r), r) \subseteq Valid(some, r)
    BY DEF WithoutOutliers
  <1>6. /\ Candidates(some, r) \subseteq AboveThreshold(some, r)
        /\ AboveThreshold(some, r) \subseteq WithoutOutliers(some, Valid(some, r), r)
    BY DEF Candidates, AboveThreshold
  <1> QED
    BY <1>1, <1>2, <1>3, <1>4, <1>5, <1>6

(* The pick is a cheapest candidate.                                        *)
LEMMA PickIsCheapest ==
    ASSUME NEW some \in Seq(OnSale), NEW r
    PROVE  /\ Candidates(some, r) = {} => PickBest(some, r) = NoPick
           /\ Candidates(some, r) # {} =>
                /\ PickBest(some, r) # NoPick
                /\ PickBest(some, r).score \in Threshold..100
                /\ \E i \in Candidates(some, r) :
                     /\ PickBest(some, r).listing = some[i]
                     /\ \A j \in Candidates(some, r) : some[i].price <= some[j].price
  <1> DEFINE from == Candidates(some, r)
             Best(i) == \A j \in from : some[i].price < some[j].price
                                        \/ (some[i].price = some[j].price /\ i <= j)
             best == CHOOSE i \in from : Best(i)
  <1>1. CASE from = {}
    BY <1>1 DEF PickBest
  <1>2. CASE from # {}
    <2>1. \A i \in from : i \in Nat /\ i \in DOMAIN some /\ some[i] \in OnSale /\ some[i].price \in Nat
                         /\ i \in AboveThreshold(some, r)
      BY ParseOnSale
    <2> DEFINE Lowest == Min({some[i].price : i \in from})
               Those == {i \in from : some[i].price = Lowest}
    <2>2. Lowest \in {some[i].price : i \in from} /\ \A i \in from : Lowest <= some[i].price
      <3> DEFINE All == {some[i].price : i \in from}
      <3>1. All \in SUBSET Nat /\ All # {} /\ \A i \in from : some[i].price \in All
        BY <1>2, <2>1
      <3>2. Lowest \in All /\ \A p \in All : Lowest <= p
        <4> HIDE DEF All
        <4>1. Lowest = Min(All)
          BY Zenon DEF All
        <4> QED
          BY <3>1, <4>1, FirstInstant
      <3> QED
        BY <3>1, <3>2
    <2> HIDE DEF Lowest, from
    <2>3. Those \in SUBSET Nat /\ Those # {}
      BY <2>1, <2>2
    <2>4. Min(Those) \in Those /\ \A i \in Those : Min(Those) <= i
      <3> HIDE DEF Those
      <3> QED
        BY <2>3, FirstInstant
    <2>5. Min(Those) \in from /\ Best(Min(Those))
      <3> DEFINE m == Min(Those)
      <3>1. m \in from /\ some[m].price = Lowest /\ \A i \in from : some[i].price = Lowest => m <= i
        BY <2>4
      <3> HIDE DEF m
      <3>2. ASSUME NEW j \in from
            PROVE  some[m].price < some[j].price \/ (some[m].price = some[j].price /\ m <= j)
        <4>1. Lowest <= some[j].price /\ Lowest \in Nat /\ some[j].price \in Nat
          BY <2>1, <2>2, <3>1
        <4> QED
          BY <3>1, <4>1
      <3>3. Best(m)
        BY <3>2
      <3> QED
        BY <3>1, <3>3 DEF m
    <2>6. best \in from /\ Best(best)
      <3> HIDE DEF Best, Those
      <3> QED
        BY <2>5
    <2>7. \A j \in from : some[best].price <= some[j].price
      <3> SUFFICES ASSUME NEW j \in from PROVE some[best].price <= some[j].price
        OBVIOUS
      <3> HIDE DEF best
      <3> QED
        BY <2>1, <2>6
    <2>8. PickBest(some, r) = [listing |-> some[best], score |-> Score(Titles[some[best].title], r)]
      BY <1>2 DEF PickBest, from
    <2> HIDE DEF best
    <2> DEFINE s == Score(Titles[some[best].title], r)
    <2>9. s \in 0..100 /\ s >= Threshold
      BY <2>1, <2>6, ScoreIsPercent DEF AboveThreshold
    <2> HIDE DEF s
    <2>10. [listing |-> some[best], score |-> s] \in [listing : OnSale, score : Nat]
      BY <2>1, <2>6, <2>9
    <2>11. PickBest(some, r) # NoPick /\ PickBest(some, r).listing = some[best]
           /\ PickBest(some, r).score = s
      BY <2>8, <2>10, PickAssumption DEF s
    <2>12. s \in Threshold..100
      BY <2>9 DEF Threshold
    <2> QED
      BY <1>2, <2>6, <2>7, <2>11, <2>12 DEF from
  <1> QED
    BY <1>1, <1>2

(* With the same prices the same are outliers.                              *)
LEMMA SameMedian ==
    ASSUME NEW some, NEW other, NEW I, \A i \in I : some[i].price = other[i].price
    PROVE  TwiceMedian(some, I) = TwiceMedian(other, I)
  <1>1. ASSUME NEW k PROVE NthLowest(some, I, k) = NthLowest(other, I, k)
    <2>1. {some[i].price : i \in I} = {other[i].price : i \in I}
      OBVIOUS
    <2>2. \A p : {i \in I : some[i].price <= p} = {i \in I : other[i].price <= p}
      OBVIOUS
    <2>3. {p \in {some[i].price : i \in I} : Cardinality({i \in I : some[i].price <= p}) >= k}
            = {p \in {other[i].price : i \in I} : Cardinality({i \in I : other[i].price <= p}) >= k}
      BY <2>1, <2>2
    <2> QED
      BY <2>3 DEF NthLowest
  <1> QED
    BY <1>1 DEF TwiceMedian

(* A candidate stays relevant when a listing that costs no more is found,   *)
(* unless the outlier pass sets in with it.                                 *)
LEMMA StaysRelevant ==
    ASSUME NEW some \in Seq(OnSale), NEW l \in OnSale, NEW r, NEW p \in AboveThreshold(some, r),
           l.price <= some[p].price,
           ~(r \in Marketplaces /\ l.price > 0 /\ Cardinality(Priced(Append(some, l))) = MinSample)
    PROVE  p \in AboveThreshold(Append(some, l), r)
  <1> DEFINE more == Append(some, l)
             n == Len(some) + 1
             V == Valid(some, r)
             W == Valid(more, r)
  <1>1. /\ more \in Seq(OnSale) /\ n \in Nat /\ DOMAIN more = (DOMAIN some) \cup {n} /\ n \notin DOMAIN some
        /\ more[n] = l /\ \A i \in DOMAIN some : more[i] = some[i]
    OBVIOUS
  <1>2. /\ IsFiniteSet(DOMAIN some) /\ V \subseteq DOMAIN some /\ p \in V
        /\ p \in WithoutOutliers(some, V, r)
        /\ Score(Titles[some[p].title], r) >= Threshold
        /\ \A i \in DOMAIN some : some[i].price \in Nat
    BY ParseOnSale DEF AboveThreshold
  <1>3. l.price \in Nat
    BY PickAssumption
  <1> HIDE DEF more, n
  <1>4. V \subseteq W /\ W \subseteq V \cup {n} /\ (n \in W => l.price > 0)
    BY <1>1 DEF Valid, Priced
  <1>5. IsFiniteSet(V) /\ V # {} /\ n \notin V /\ Cardinality(V) \in Nat
    BY <1>1, <1>2, FS_Subset, FS_CardinalityType
  <1>6. \A i \in V \cup {n} : more[i].price \in Nat
    BY <1>1, <1>2, <1>3
  <1>7. \A i \in V : more[i].price = some[i].price
    BY <1>1, <1>2
  <1>8. p \in WithoutOutliers(more, W, r)
    <2>1. CASE r \notin Marketplaces
      BY <1>2, <1>4, <2>1 DEF WithoutOutliers
    <2>2. CASE r \in Marketplaces
      <3>1. Cardinality(V) >= MinSample => 5 * some[p].price >= TwiceMedian(some, V)
        BY <1>2, <2>2 DEF WithoutOutliers
      <3>2. TwiceMedian(more, V) = TwiceMedian(some, V)
        BY <1>7, SameMedian
      <3>3. CASE W = V
        BY <1>2, <1>7, <2>2, <3>1, <3>2, <3>3 DEF WithoutOutliers
      <3>4. CASE W = V \cup {n}
        <4>1. Cardinality(W) = Cardinality(V) + 1
          BY <1>5, <3>4, FS_AddElement
        <4>2. W = Priced(more)
          BY <2>2 DEF Valid, Marketplaces
        <4>3. l.price > 0
          BY <1>4, <3>4
        <4>4. Cardinality(W) # MinSample
          BY <2>2, <4>2, <4>3 DEF more
        <4>5. CASE Cardinality(W) < MinSample
          BY <1>2, <1>4, <1>5, <4>1, <4>5 DEF WithoutOutliers, MinSample
        <4>6. CASE Cardinality(V) >= MinSample
          <5> DEFINE c == some[p].price
          <5>1. c \in Nat /\ more[n].price <= c /\ 5 * c >= TwiceMedian(more, V)
            BY <1>1, <1>2, <3>1, <3>2, <4>6
          <5>2. more[p].price = c
            BY <1>2, <1>7
          <5> HIDE DEF c, V, W
          <5>3. 5 * c >= TwiceMedian(more, V \cup {n})
            BY <1>5, <1>6, <5>1, NoOutlierWithMore
          <5> QED
            BY <1>2, <1>4, <3>4, <5>2, <5>3 DEF WithoutOutliers
        <4> QED
          BY <1>5, <4>1, <4>4, <4>5, <4>6 DEF MinSample
      <3> QED
        BY <1>4, <3>3, <3>4
    <2> QED
      BY <2>1, <2>2
  <1> QED
    BY <1>1, <1>2, <1>8 DEF AboveThreshold, more

PickInv ==
    /\ retailer \in Shops
    /\ listings \in Seq(OnSale)
    /\ pick = PickBest(listings, retailer)

LEMMA PickInvariant == PickSpec => []PickInv
  <1>1. PickInit => PickInv
    <2> SUFFICES ASSUME PickInit PROVE PickInv
      OBVIOUS
    <2>1. listings \in Seq(OnSale) /\ DOMAIN listings = {}
      BY DEF PickInit
    <2>2. Candidates(listings, retailer) = {}
      BY <2>1, ParseOnSale
    <2> QED
      BY <2>1, <2>2, PickIsCheapest DEF PickInit, PickInv
  <1>2. PickInv /\ [PickNext]_pickVars => PickInv'
    BY DEF PickInv, PickNext, AddListing, pickVars
  <1> QED
    BY <1>1, <1>2, PTL DEF PickSpec

(* A listing that costs no more than the pick never makes it dearer or     *)
(* loses it (service.py, _pick_best_listing), with the two exceptions of   *)
(* CheaperNeverDearer: the fourth priced listing of a marketplace, with    *)
(* which the outlier pass sets in and may well lose the pick, and an       *)
(* available listing that takes over from an unavailable pick.             *)
THEOREM CheaperListingsHurtOnlyAsFourth == PickSpec => CheaperNeverDearer
  <1>1. PickInv /\ [PickNext]_pickVars => [NoDearer]_pickVars
    <2> SUFFICES ASSUME PickInv, NEW l \in OnSale, AddListing(l) PROVE NoDearer
      BY DEF PickNext
    <2> DEFINE r == retailer
               more == Append(listings, l)
    <2>1. /\ listings \in Seq(OnSale) /\ pick = PickBest(listings, r) /\ listings' = more
          /\ pick' = PickBest(more, r) /\ more \in Seq(OnSale) /\ more[Len(more)] = l
      BY DEF PickInv, AddListing
    <2> SUFFICES ASSUME pick # NoPick, l.price <= pick.listing.price,
                        ~(r \in Marketplaces /\ l.price > 0 /\ Cardinality(Priced(more)) = MinSample)
                 PROVE  /\ pick' # NoPick
                        /\ \/ pick'.listing.price <= pick.listing.price
                           \/ pick'.listing.available /\ ~pick.listing.available
      BY <2>1 DEF NoDearer
    <2>2. Candidates(listings, r) # {}
      BY <2>1, PickIsCheapest
    <2>3. PICK p \in Candidates(listings, r) : pick.listing = listings[p]
      BY <2>1, <2>2, PickIsCheapest
    <2>4. p \in AboveThreshold(listings, r) /\ p \in DOMAIN listings
      BY <2>1, <2>3, ParseOnSale
    <2>5. p \in AboveThreshold(more, r)
      <3>1. l.price <= listings[p].price
        BY <2>3
      <3> QED
        BY <2>1, <2>4, <3>1, StaysRelevant
    <2>6. more[p] = listings[p]
      BY <2>1, <2>4
    <2> HIDE DEF more, r
    <2>7. Candidates(more, r) # {}
      BY <2>5 DEF Candidates
    <2>8. pick' # NoPick
      BY <2>1, <2>7, PickIsCheapest
    <2>9. PICK k \in Candidates(more, r) : /\ pick'.listing = more[k]
                                           /\ \A j \in Candidates(more, r) : more[k].price <= more[j].price
      BY <2>1, <2>7, PickIsCheapest
    <2>10. CASE p \in Candidates(more, r)
      BY <2>3, <2>6, <2>8, <2>9, <2>10
    <2>11. CASE p \notin Candidates(more, r)
      <3>1. more[k].available /\ ~more[p].available
        BY <2>5, <2>9, <2>11 DEF Candidates
      <3> QED
        BY <2>3, <2>6, <2>8, <2>9, <3>1
    <2> QED
      BY <2>10, <2>11
  <1> QED
    BY <1>1, PickInvariant, PTL DEF PickSpec, CheaperNeverDearer

-----------------------------------------------------------------------------
(* ProductSearch: the row shown of a product is its most trusted source's. *)

(* The rows the sources may give.                                           *)
SearchRows == [name : Nat, source : SearchSources, confidence : Nat, upc : BOOLEAN]

(* Replies the sources may give: finitely many products each.              *)
Replied(from) ==
    /\ DOMAIN from = SearchSources
    /\ \A s \in SearchSources :
          /\ DOMAIN from[s] \subseteq Names /\ IsFiniteSet(DOMAIN from[s])
          /\ \A p \in DOMAIN from[s] : from[s][p] \in Nat

(* Every source has a priority of its own.                                  *)
LEMMA PriorityIs ==
    \A s \in SearchSources : Priority(s) \in 1..4 /\ Trusted[Priority(s)] = s
  BY DEF SearchSources, Priority

(* A source names a product in one row.                                     *)
LEMMA AllRowsAre ==
    ASSUME NEW from, Replied(from)
    PROVE  /\ AllRows(from) \subseteq SearchRows /\ IsFiniteSet(AllRows(from))
           /\ \A row \in AllRows(from) : row.name \in DOMAIN from[row.source]
           /\ \A s \in SearchSources : \A p \in DOMAIN from[s] :
                 \E row \in AllRows(from) : row.name = p /\ row.source = s
           /\ \A r, q \in AllRows(from) : r.name = q.name /\ r.source = q.source => r = q
  <1> DEFINE OneRow(s, p) == [name |-> p, source |-> s, confidence |-> from[s][p], upc |-> s # "gemini"]
             Of(s) == {OneRow(s, p) : p \in DOMAIN from[s]}
  <1>1. AllRows(from) = UNION {Of(s) : s \in SearchSources}
    BY Zenon DEF AllRows
  <1>2. ASSUME NEW s \in SearchSources, NEW p \in DOMAIN from[s]
        PROVE  OneRow(s, p) \in SearchRows /\ OneRow(s, p).name = p /\ OneRow(s, p).source = s
    <2>1. p \in Nat /\ from[s][p] \in Nat
      BY SearchAssumption DEF Replied
    <2> QED
      BY <2>1 DEF SearchRows
  <1>3. ASSUME NEW s \in SearchSources
        PROVE  IsFiniteSet(Of(s))
    <2> DEFINE f == [p \in DOMAIN from[s] |-> OneRow(s, p)]
    <2>1. f \in [DOMAIN from[s] -> SearchRows]
      BY <1>2
    <2>2. {f[p] : p \in DOMAIN from[s]} = Of(s)
      OBVIOUS
    <2>3. IsFiniteSet(DOMAIN from[s])
      BY DEF Replied
    <2> HIDE DEF f, Of
    <2> QED
      BY <2>1, <2>2, <2>3, ImageIsFinite
  <1>4. IsFiniteSet(AllRows(from))
    <2>1. IsFiniteSet(SearchSources)
      <3> DEFINE g == [i \in 1..4 |-> Trusted[i]]
      <3>1. g \in Surjection(1..4, SearchSources)
        BY DEF SearchSources, Surjection
      <3>2. IsFiniteSet(1..4)
        BY UpToFinite
      <3> HIDE DEF g
      <3> QED
        BY <3>1, <3>2, FS_Surjection
    <2> DEFINE g == [s \in SearchSources |-> Of(s)]
               All == {Of(s) : s \in SearchSources}
    <2>2. g \in Surjection(SearchSources, All)
      BY DEF Surjection
    <2>3. \A T \in All : IsFiniteSet(T)
      BY <1>3
    <2>4. AllRows(from) = UNION All
      BY <1>1
    <2> HIDE DEF g, All
    <2>5. IsFiniteSet(All)
      BY <2>1, <2>2, FS_Surjection
    <2> QED
      BY <2>3, <2>4, <2>5, FS_UNION
  <1>5. ASSUME NEW row \in AllRows(from)
        PROVE  /\ row.source \in SearchSources /\ row.name \in DOMAIN from[row.source]
               /\ row = OneRow(row.source, row.name) /\ row \in SearchRows
    <2>1. PICK s \in SearchSources : \E p \in DOMAIN from[s] : row = OneRow(s, p)
      BY <1>1
    <2>2. PICK p \in DOMAIN from[s] : row = OneRow(s, p)
      BY <2>1
    <2>3. row.source = s /\ row.name = p
      BY <2>2
    <2> QED
      BY <1>2, <2>2, <2>3
  <1>6. \A s \in SearchSources : \A p \in DOMAIN from[s] :
                 \E row \in AllRows(from) : row.name = p /\ row.source = s
    <2> SUFFICES ASSUME NEW s \in SearchSources, NEW p \in DOMAIN from[s]
                 PROVE  \E row \in AllRows(from) : row.name = p /\ row.source = s
      OBVIOUS
    <2>1. OneRow(s, p) \in Of(s)
      OBVIOUS
    <2> HIDE DEF OneRow, Of
    <2>2. OneRow(s, p) \in AllRows(from)
      BY <1>1, <2>1
    <2> QED
      BY <1>2, <2>2
  <1>7. \A r, q \in AllRows(from) : r.name = q.name /\ r.source = q.source => r = q
    <2> HIDE DEF OneRow
    <2> QED
      BY <1>5
  <1> QED
    BY <1>4, <1>5, <1>6, <1>7

(* Two keys, component by component.                                        *)
Lex(k, l) ==
    k[1] < l[1] \/ (k[1] = l[1] /\ (k[2] < l[2] \/ (k[2] = l[2] /\
        (k[3] < l[3] \/ (k[3] = l[3] /\ k[4] < l[4])))))

IsKey(k) == k[1] \in Int /\ k[2] \in Int /\ k[3] \in Int /\ k[4] \in Int

(* The first component that differs decides.                                *)
LEMMA KeyBeforeIsLex ==
    ASSUME NEW k, NEW l
    PROVE  KeyBefore(k, l) <=> Lex(k, l)
  <1>1. ASSUME KeyBefore(k, l) PROVE Lex(k, l)
    <2>1. PICK n \in 1..4 : k[n] < l[n] /\ \A j \in 1..(n - 1) : k[j] = l[j]
      BY <1>1 DEF KeyBefore
    <2>2. n = 1 \/ n = 2 \/ n = 3 \/ n = 4
      OBVIOUS
    <2>3. /\ n > 1 => k[1] = l[1]
          /\ n > 2 => k[2] = l[2]
          /\ n > 3 => k[3] = l[3]
      BY <2>1
    <2> QED
      BY <2>1, <2>2, <2>3 DEF Lex
  <1>2. ASSUME Lex(k, l) PROVE KeyBefore(k, l)
    <2>1. /\ \A j \in 1..(1 - 1) : k[j] = l[j]
          /\ k[1] = l[1] => \A j \in 1..(2 - 1) : k[j] = l[j]
          /\ k[1] = l[1] /\ k[2] = l[2] => \A j \in 1..(3 - 1) : k[j] = l[j]
          /\ k[1] = l[1] /\ k[2] = l[2] /\ k[3] = l[3] => \A j \in 1..(4 - 1) : k[j] = l[j]
      <3>1. \A j \in 1..(1 - 1) : FALSE
        OBVIOUS
      <3>2. \A j \in 1..(2 - 1) : j = 1
        OBVIOUS
      <3>3. \A j \in 1..(3 - 1) : j = 1 \/ j = 2
        OBVIOUS
      <3>4. \A j \in 1..(4 - 1) : j = 1 \/ j = 2 \/ j = 3
        OBVIOUS
      <3> QED
        BY <3>1, <3>2, <3>3, <3>4, Zenon
    <2>2. \E n \in {1, 2, 3, 4} : k[n] < l[n] /\ \A j \in 1..(n - 1) : k[j] = l[j]
      BY <1>2, <2>1, Zenon DEF Lex
    <2>3. {1, 2, 3, 4} \subseteq 1..4
      OBVIOUS
    <2> QED
      BY <2>2, <2>3, Zenon DEF KeyBefore
  <1> QED
    BY <1>1, <1>2

(* Keys are in a strict order, equal ones apart.                            *)
LEMMA LexIsAnOrder ==
    ASSUME NEW k, IsKey(k), NEW l, IsKey(l), NEW m, IsKey(m)
    PROVE  /\ ~Lex(k, k)
           /\ Lex(k, l) /\ Lex(l, m) => Lex(k, m)
           /\ \/ Lex(k, l) \/ Lex(l, k)
              \/ k[1] = l[1] /\ k[2] = l[2] /\ k[3] = l[3] /\ k[4] = l[4]
  BY SMTT(30) DEF Lex, IsKey

(* Rows in the order of a sort key are in a strict order, whatever comes    *)
(* first in the key.                                                        *)
LEMMA RowsInOrder ==
    ASSUME NEW from, Replied(from), NEW first \in [AllRows(from) -> Int],
           NEW key, key = [row \in AllRows(from) |-> SortedBy(row, first[row])]
    PROVE  LET R == InOrderOf(key) IN
           /\ \A u, v \in AllRows(from) : <<u, v>> \in R <=> Lex(key[u], key[v])
           /\ \A u \in AllRows(from) : <<u, u>> \notin R
           /\ \A u, v, w \in AllRows(from) : <<u, v>> \in R /\ <<v, w>> \in R => <<u, w>> \in R
           /\ \A u, v \in AllRows(from) : u = v \/ <<u, v>> \in R \/ <<v, u>> \in R
  <1> DEFINE R == InOrderOf(key)
             rows == AllRows(from)
  <1>1. \A u, v \in rows : <<u, v>> \in R <=> Lex(key[u], key[v])
    BY KeyBeforeIsLex DEF InOrderOf
  <1>2. ASSUME NEW u \in rows
        PROVE  /\ IsKey(key[u])
               /\ key[u][2] = Priority(u.source) /\ key[u][4] = u.name
               /\ u.source \in SearchSources
    <2>1. u \in SearchRows
      BY AllRowsAre
    <2>2. u.source \in SearchSources /\ u.name \in Nat /\ -u.confidence \in Int
      BY <2>1 DEF SearchRows
    <2>3. Priority(u.source) \in Int
      BY <2>2, PriorityIs
    <2>4. first[u] \in Int
      OBVIOUS
    <2>5. key[u] = <<first[u], Priority(u.source), -u.confidence, u.name>>
      BY DEF SortedBy
    <2>6. /\ key[u][1] = first[u] /\ key[u][2] = Priority(u.source) /\ key[u][3] = -u.confidence
          /\ key[u][4] = u.name
      BY <2>5
    <2> QED
      BY <2>2, <2>3, <2>4, <2>6 DEF IsKey
  <1>3. ASSUME NEW u \in rows, NEW v \in rows, key[u][2] = key[v][2], key[u][4] = key[v][4]
        PROVE  u = v
    <2>1. u.name = v.name /\ Priority(u.source) = Priority(v.source)
      BY <1>2, <1>3
    <2>2. u.source = v.source
      BY <1>2, <2>1, PriorityIs
    <2> QED
      BY <2>1, <2>2, AllRowsAre
  <1> HIDE DEF R, rows
  <1>4. \A u \in rows : <<u, u>> \notin R
    BY <1>1, <1>2, LexIsAnOrder
  <1>5. ASSUME NEW u \in rows, NEW v \in rows, NEW w \in rows, <<u, v>> \in R, <<v, w>> \in R
        PROVE  <<u, w>> \in R
    <2>1. Lex(key[u], key[v]) /\ Lex(key[v], key[w])
      BY <1>1, <1>5
    <2>2. IsKey(key[u]) /\ IsKey(key[v]) /\ IsKey(key[w])
      BY <1>2
    <2> QED
      BY <1>1, <2>1, <2>2, LexIsAnOrder
  <1>6. ASSUME NEW u \in rows, NEW v \in rows
        PROVE  u = v \/ <<u, v>> \in R \/ <<v, u>> \in R
    <2>1. IsKey(key[u]) /\ IsKey(key[v])
      BY <1>2
    <2> QED
      BY <1>1, <1>3, <2>1, LexIsAnOrder
  <1> QED
    BY <1>1, <1>4, <1>5, <1>6 DEF R, rows

(* What dedup keeps of each product: the row of its most trusted source.    *)
Kept(from) == FirstOfEach(AllRows(from), InOrderOf([row \in AllRows(from) |-> TrustKey(row)]))

(* One row a product is kept, and no source more trusted has the product.   *)
LEMMA KeptAre ==
    ASSUME NEW from, Replied(from)
    PROVE  /\ Kept(from) \subseteq AllRows(from)
           /\ \A r \in Kept(from), s \in SearchSources :
                 r.name \in DOMAIN from[s] => Priority(r.source) <= Priority(s)
           /\ \A r, q \in Kept(from) : r.name = q.name => r = q
           /\ \A s \in SearchSources : \A p \in DOMAIN from[s] : \E r \in Kept(from) : r.name = p
  <1> DEFINE rows == AllRows(from)
             first == [row \in rows |-> 0]
             key == [row \in rows |-> SortedBy(row, first[row])]
             R == InOrderOf(key)
  <1>1. Kept(from) = {r \in rows : \A o \in rows : o.name = r.name => <<o, r>> \notin R}
    BY Zenon DEF Kept, FirstOfEach, TrustKey
  <1>2. first \in [rows -> Int]
    OBVIOUS
  <1>3. \A u, v \in rows : <<u, v>> \in R <=> Lex(key[u], key[v])
    <2> HIDE DEF first, R
    <2> QED
      BY <1>2, RowsInOrder DEF R
  <1>4. ASSUME NEW u \in rows
        PROVE  /\ key[u][1] = 0 /\ key[u][2] = Priority(u.source) /\ key[u][3] = -u.confidence
               /\ key[u][4] = u.name
    <2>1. key[u] = <<0, Priority(u.source), -u.confidence, u.name>>
      BY DEF SortedBy
    <2> QED
      BY <2>1
  <1>5. ASSUME NEW u \in rows
        PROVE  u.source \in SearchSources /\ Priority(u.source) \in 1..4 /\ u.name \in DOMAIN from[u.source]
               /\ -u.confidence \in Int /\ u.name \in Nat
    <2>1. u \in SearchRows /\ u.name \in DOMAIN from[u.source]
      BY AllRowsAre
    <2>2. u.source \in SearchSources /\ u.confidence \in Nat /\ u.name \in Nat
      BY <2>1 DEF SearchRows
    <2>3. -u.confidence \in Int
      BY <2>2
    <2> QED
      BY <2>1, <2>2, <2>3, PriorityIs
  <1> HIDE DEF key, R, first
  <1>6. ASSUME NEW o \in rows, NEW r \in rows, Priority(o.source) < Priority(r.source)
        PROVE  <<o, r>> \in R
    BY <1>3, <1>4, <1>6 DEF Lex
  <1>7. ASSUME NEW r \in Kept(from), NEW s \in SearchSources, r.name \in DOMAIN from[s]
        PROVE  Priority(r.source) <= Priority(s)
    <2>1. PICK o \in rows : o.name = r.name /\ o.source = s
      BY <1>7, AllRowsAre
    <2>2. ~(Priority(s) < Priority(r.source))
      BY <1>1, <1>6, <2>1
    <2>3. Priority(s) \in Int /\ Priority(r.source) \in Int
      BY <1>1, <1>5, PriorityIs
    <2> QED
      BY <2>2, <2>3
  <1>8. ASSUME NEW r \in Kept(from), NEW q \in Kept(from), r.name = q.name
        PROVE  r = q
    <2>1. r \in rows /\ q \in rows
      BY <1>1
    <2>2. Priority(r.source) <= Priority(q.source) /\ Priority(q.source) <= Priority(r.source)
      BY <1>5, <1>7, <1>8, <2>1
    <2>3. Priority(r.source) = Priority(q.source)
      BY <1>5, <2>1, <2>2
    <2>4. r.source = q.source
      BY <1>5, <2>1, <2>3, PriorityIs
    <2> QED
      BY <1>8, <2>1, <2>4, AllRowsAre
  <1>9. ASSUME NEW s \in SearchSources, NEW p \in DOMAIN from[s]
        PROVE  \E r \in Kept(from) : r.name = p
    <2> DEFINE Ranks == {Priority(t) : t \in {u \in SearchSources : p \in DOMAIN from[u]}}
    <2>1. Ranks \in SUBSET Nat /\ Ranks # {}
      BY PriorityIs
    <2>2. Min(Ranks) \in Ranks /\ \A k \in Ranks : Min(Ranks) <= k
      <3> HIDE DEF Ranks
      <3> QED
        BY <2>1, FirstInstant
    <2>3. PICK t \in SearchSources : p \in DOMAIN from[t] /\ Priority(t) = Min(Ranks)
      BY <2>2
    <2>4. \A u \in SearchSources : p \in DOMAIN from[u] => Priority(t) <= Priority(u)
      BY <2>2, <2>3
    <2>5. PICK r \in rows : r.name = p /\ r.source = t
      BY <2>3, AllRowsAre
    <2>6. ASSUME NEW o \in rows, o.name = p, <<o, r>> \in R
          PROVE  FALSE
      <3>1. Priority(t) <= Priority(o.source) /\ Priority(o.source) \in Int /\ Priority(t) \in Int
        BY <1>5, <2>4, <2>6, PriorityIs
      <3>2. Lex(key[o], key[r])
        BY <1>3, <2>6
      <3>3. Priority(o.source) <= Priority(t)
        BY <1>4, <2>5, <3>1, <3>2 DEF Lex
      <3>4. o.source = t
        BY <1>5, <3>1, <3>3, PriorityIs
      <3>5. o = r
        BY <2>5, <2>6, <3>4, AllRowsAre
      <3> QED
        BY <1>4, <1>5, <3>2, <3>5 DEF Lex
    <2> QED
      BY <1>1, <2>5, <2>6
  <1> QED
    BY <1>1, <1>7, <1>8, <1>9

(* What the merge shows: kept rows, none twice, all of them if there is     *)
(* room.                                                                    *)
LEMMA MergeIs ==
    ASSUME NEW from, Replied(from), NEW geminiFirst,
           NEW rows, rows = Merge(from, geminiFirst)
    PROVE  /\ Len(rows) \in Nat /\ Len(rows) <= MaxResults /\ DOMAIN rows = 1..Len(rows)
           /\ \A i \in 1..Len(rows) : rows[i] \in Kept(from)
           /\ \A i, j \in 1..Len(rows) : rows[i].name = rows[j].name => i = j
           /\ \A r \in Kept(from) : Len(rows) = MaxResults \/ \E i \in 1..Len(rows) : rows[i] = r
  <1> DEFINE first == [row \in AllRows(from) |->
                         IF geminiFirst THEN (IF row.source = "gemini" THEN 0 ELSE 1)
                         ELSE (IF row.confidence >= StrongConfidence THEN 0 ELSE 1)]
             key == [row \in AllRows(from) |-> SortedBy(row, first[row])]
             R == InOrderOf(key)
             S == Kept(from)
  <1>1. rows = FirstOf(S, MaxResults, R)
    <2>1. [row \in AllRows(from) |-> IF geminiFirst THEN DeepKey(row) ELSE RankKey(row)] = key
      BY Zenon DEF DeepKey, RankKey
    <2> HIDE DEF key
    <2> QED
      BY <2>1, Zenon DEF Merge, Kept
  <1>2. first \in [AllRows(from) -> Int]
    OBVIOUS
  <1>3. /\ \A u \in AllRows(from) : <<u, u>> \notin R
        /\ \A u, v, w \in AllRows(from) : <<u, v>> \in R /\ <<v, w>> \in R => <<u, w>> \in R
        /\ \A u, v \in AllRows(from) : u = v \/ <<u, v>> \in R \/ <<v, u>> \in R
    <2> HIDE DEF first, R
    <2> QED
      BY <1>2, RowsInOrder DEF R
  <1> HIDE DEF first, key, R
  <1>4. S \subseteq AllRows(from) /\ IsFiniteSet(S) /\ \A r, q \in S : r.name = q.name => r = q
    BY KeptAre, AllRowsAre, FS_Subset
  <1> HIDE DEF S
  <1>5. /\ \A u \in S : <<u, u>> \notin R
        /\ \A u, v, w \in S : <<u, v>> \in R /\ <<v, w>> \in R => <<u, w>> \in R
        /\ \A u, v \in S : u = v \/ <<u, v>> \in R \/ <<v, u>> \in R
    BY <1>3, <1>4
  <1>6. MaxResults \in Nat
    BY SearchAssumption
  <1>7. /\ Len(rows) \in Nat /\ Len(rows) <= MaxResults /\ DOMAIN rows = 1..Len(rows)
        /\ \A i \in 1..Len(rows) : rows[i] \in S
        /\ \A r \in S : (\A i \in 1..Len(rows) : rows[i] # r) => Len(rows) = MaxResults
    BY <1>1, <1>4, <1>5, <1>6, FirstAreBefore
  <1>8. \A i, j \in 1..Len(rows) : rows[i] = rows[j] => i = j
    BY <1>1, <1>4, <1>5, <1>6, FirstAreMany
  <1>9. \A i, j \in 1..Len(rows) : rows[i].name = rows[j].name => i = j
    BY <1>4, <1>7, <1>8
  <1> QED
    BY <1>7, <1>9 DEF S

(* Places are in a strict order.                                            *)
LEMMA PlacesInOrder ==
    ASSUME NEW S \in SUBSET (Nat \X Nat), NEW R,
           R = {ab \in S \X S : LET a == ab[1]  b == ab[2]
                                IN  a[1] < b[1] \/ (a[1] = b[1] /\ a[2] < b[2])}
    PROVE  /\ \A u \in S : <<u, u>> \notin R
           /\ \A u, v, w \in S : <<u, v>> \in R /\ <<v, w>> \in R => <<u, w>> \in R
           /\ \A u, v \in S : u = v \/ <<u, v>> \in R \/ <<v, u>> \in R
  <1>1. \A u, v \in S : <<u, v>> \in R <=> u[1] < v[1] \/ (u[1] = v[1] /\ u[2] < v[2])
    OBVIOUS
  <1>2. \A u \in S : u[1] \in Int /\ u[2] \in Int
    OBVIOUS
  <1>3. \A u, v \in S : u[1] = v[1] /\ u[2] = v[2] => u = v
    OBVIOUS
  <1>4. \A u, v, w \in S : <<u, v>> \in R /\ <<v, w>> \in R => <<u, w>> \in R
    BY <1>1, <1>2
  <1>5. ASSUME NEW u \in S, NEW v \in S
        PROVE  u = v \/ <<u, v>> \in R \/ <<v, u>> \in R
    <2>1. u[1] \in Int /\ u[2] \in Int /\ v[1] \in Int /\ v[2] \in Int
      BY <1>2
    <2>2. \/ u[1] = v[1] /\ u[2] = v[2]
          \/ u[1] < v[1] \/ (u[1] = v[1] /\ u[2] < v[2])
          \/ v[1] < u[1] \/ (v[1] = u[1] /\ v[2] < u[2])
      BY <2>1
    <2> QED
      BY <1>1, <1>3, <2>2
  <1> QED
    BY <1>1, <1>2, <1>4, <1>5

(* Every row has its place, next to which only generic rows have one.       *)
LEMMA PlacesAre ==
    ASSUME NEW rows, NEW n \in Nat, DOMAIN rows = 1..n
    PROVE  /\ Places(rows) \in SUBSET (Nat \X Nat) /\ IsFiniteSet(Places(rows))
           /\ \A i \in 1..n : <<Min(Siblings(rows, i)), i>> \in Places(rows)
           /\ \A p \in Places(rows) :
                 p[2] = 0 \/ (p[2] \in 1..n /\ p = <<Min(Siblings(rows, p[2])), p[2]>>)
           /\ Cardinality(Places(rows)) \in Nat /\ n <= Cardinality(Places(rows))
  <1>1. ASSUME NEW i \in 1..n PROVE Min(Siblings(rows, i)) \in 1..n
    <2>1. Siblings(rows, i) \subseteq 1..n /\ i \in Siblings(rows, i)
      BY DEF Siblings
    <2>2. Siblings(rows, i) \in SUBSET Nat /\ Siblings(rows, i) # {}
      BY <2>1
    <2> QED
      BY <2>1, <2>2, FirstInstant
  <1> DEFINE f == [i \in 1..n |-> Min(Siblings(rows, i))]
             Own == {<<f[i], i>> : i \in 1..n}
             Apart == {i \in 1..n : /\ i = f[i] /\ Siblings(rows, i) # {i}
                                    /\ rows[i].name # Family[rows[i].name]}
  <1>2. f \in [1..n -> 1..n]
    BY <1>1
  <1>3. Places(rows) = Own \cup {<<i, 0>> : i \in Apart}
    <2>1. Own = {<<Min(Siblings(rows, i)), i>> : i \in DOMAIN rows}
      OBVIOUS
    <2>2. Apart = {j \in DOMAIN rows : /\ j = Min(Siblings(rows, j))
                                       /\ Siblings(rows, j) # {j}
                                       /\ rows[j].name # Family[rows[j].name]}
      OBVIOUS
    <2> HIDE DEF Own, Apart
    <2> QED
      BY <2>1, <2>2 DEF Places
  <1>4. Apart \subseteq 1..n
    OBVIOUS
  <1>5. \A i \in 1..n : f[i] = Min(Siblings(rows, i))
    OBVIOUS
  <1> HIDE DEF f, Apart
  <1>6. Places(rows) \subseteq (0..n) \X (0..n)
    <2>1. \A i \in 1..n : f[i] \in 0..n /\ i \in 0..n /\ 0 \in 0..n
      BY <1>2
    <2>2. \A i \in 1..n : <<f[i], i>> \in (0..n) \X (0..n) /\ <<i, 0>> \in (0..n) \X (0..n)
      BY <2>1
    <2> QED
      BY <1>3, <1>4, <2>2
  <1>7. IsFiniteSet(Places(rows)) /\ Cardinality(Places(rows)) \in Nat
    <2>1. IsFiniteSet((0..n) \X (0..n))
      BY UpToFinite, FS_Product
    <2> QED
      BY <1>6, <2>1, FS_Subset, FS_CardinalityType
  <1>8. n <= Cardinality(Places(rows))
    <2> DEFINE g == [i \in 1..n |-> <<f[i], i>>]
    <2>1. g \in [1..n -> Places(rows)]
      BY <1>3
    <2>2. \A i, j \in 1..n : g[i] = g[j] => i = j
      OBVIOUS
    <2> HIDE DEF g
    <2>3. g \in Injection(1..n, Places(rows))
      BY <2>1, <2>2 DEF Injection, IsInjective
    <2>4. Cardinality(1..n) <= Cardinality(Places(rows))
      BY <1>7, <2>3, FS_Injection
    <2>5. Cardinality(1..n) = n
      BY FS_Interval
    <2> QED
      BY <2>4, <2>5
  <1>9. \A i \in 1..n : <<Min(Siblings(rows, i)), i>> \in Places(rows)
    <2> SUFFICES ASSUME NEW i \in 1..n PROVE <<f[i], i>> \in Places(rows)
      BY <1>5
    <2> QED
      BY <1>3
  <1>10. \A p \in Places(rows) :
            p[2] = 0 \/ (p[2] \in 1..n /\ p = <<Min(Siblings(rows, p[2])), p[2]>>)
    <2> SUFFICES ASSUME NEW p \in Places(rows)
                 PROVE  p[2] = 0 \/ (p[2] \in 1..n /\ p = <<Min(Siblings(rows, p[2])), p[2]>>)
      OBVIOUS
    <2>1. CASE p \in Own
      <3>1. PICK i \in 1..n : p = <<f[i], i>>
        BY <2>1
      <3>2. p[2] = i
        BY <3>1
      <3> QED
        BY <1>5, <3>1, <3>2
    <2>2. CASE p \in {<<i, 0>> : i \in Apart}
      BY <2>2
    <2> QED
      BY <1>3, <2>1, <2>2
  <1>11. Places(rows) \in SUBSET (Nat \X Nat)
    BY <1>6
  <1> QED
    BY <1>7, <1>8, <1>9, <1>10, <1>11

(* The rows shown are those of the list `own` names, or generic ones.       *)
Regroups(own, shown, rows, n) ==
    LET m == Len(shown)
    IN  /\ \A i \in 1..m : /\ own[i] = 0 => shown[i].source = "generic"
                           /\ own[i] # 0 => own[i] \in 1..n /\ shown[i] = rows[own[i]]
        /\ \A i, j \in 1..m : own[i] = own[j] /\ own[i] # 0 => i = j
        /\ \A k \in 1..n : m = MaxResults \/ \E i \in 1..m : own[i] = k

(* Grouping the variants loses a row only for lack of room, and shows none  *)
(* twice.                                                                   *)
LEMMA CollapseIs ==
    ASSUME NEW rows, NEW n \in Nat, n <= MaxResults, DOMAIN rows = 1..n,
           NEW shown, shown = CollapseVariants(rows)
    PROVE  /\ Len(shown) \in Nat /\ Len(shown) <= MaxResults /\ DOMAIN shown = 1..Len(shown)
           /\ \E own \in [1..Len(shown) -> Nat] : Regroups(own, shown, rows, n)
           /\ n = MaxResults => Len(shown) = MaxResults
  <1> DEFINE S == Places(rows)
             R == {ab \in S \X S : LET a == ab[1]  b == ab[2]
                                   IN  a[1] < b[1] \/ (a[1] = b[1] /\ a[2] < b[2])}
  <1> DEFINE first == FirstOf(S, MaxResults, R)
  <1>0. PICK at : at = first
    OBVIOUS
  <1>1. shown = [i \in DOMAIN at |-> IF at[i][2] = 0 THEN Generic(rows, at[i][1]) ELSE rows[at[i][2]]]
    BY <1>0, Zenon DEF CollapseVariants
  <1>2. /\ S \in SUBSET (Nat \X Nat) /\ IsFiniteSet(S)
        /\ \A i \in 1..n : <<Min(Siblings(rows, i)), i>> \in S
        /\ \A p \in S : p[2] = 0 \/ (p[2] \in 1..n /\ p = <<Min(Siblings(rows, p[2])), p[2]>>)
        /\ Cardinality(S) \in Nat /\ n <= Cardinality(S)
    BY PlacesAre
  <1> HIDE DEF S
  <1>3. /\ \A u \in S : <<u, u>> \notin R
        /\ \A u, v, w \in S : <<u, v>> \in R /\ <<v, w>> \in R => <<u, w>> \in R
        /\ \A u, v \in S : u = v \/ <<u, v>> \in R \/ <<v, u>> \in R
    <2> HIDE DEF R
    <2> QED
      BY <1>2, PlacesInOrder DEF R
  <1> HIDE DEF R
  <1>4. MaxResults \in Nat
    BY SearchAssumption
  <1>5. /\ Len(at) \in Nat /\ Len(at) <= MaxResults /\ DOMAIN at = 1..Len(at)
        /\ \A i \in 1..Len(at) : at[i] \in S
        /\ \A x \in S : (\A i \in 1..Len(at) : at[i] # x) => Len(at) = MaxResults
    <2>1. IsFiniteSet(S) /\ at = FirstOf(S, MaxResults, R)
      BY <1>0, <1>2
    <2> HIDE DEF first
    <2>2. /\ at \in Seq(S) /\ Len(at) \in Nat /\ Len(at) <= MaxResults
          /\ DOMAIN at = 1..Len(at)
          /\ \A i \in 1..Len(at) : at[i] \in S
          /\ \A x \in S : (\A i \in 1..Len(at) : at[i] # x) =>
                Len(at) = MaxResults /\ \A i \in 1..Len(at) : <<at[i], x>> \in R
      BY <1>3, <1>4, <2>1, FirstAreBefore
    <2> QED
      BY <2>2
  <1>6. /\ Len(at) = MaxResults \/ Len(at) = Cardinality(S)
        /\ \A i, j \in 1..Len(at) : at[i] = at[j] => i = j
    BY <1>0, <1>2, <1>3, <1>4, FirstAreMany
  <1> HIDE DEF first
  <1> DEFINE k == Len(at)
  <1>7. Len(shown) = k /\ DOMAIN shown = 1..k
    <2> DEFINE X == {shown[i] : i \in 1..k}
    <2>1. shown \in [1..k -> X] /\ k \in Nat
      BY <1>1, <1>5
    <2> HIDE DEF X, k
    <2>2. shown \in Seq(X) /\ Len(shown) = k
      BY <2>1
    <2> QED
      BY <2>1, <2>2
  <1> DEFINE own == [i \in 1..k |-> at[i][2]]
  <1>8. \A i \in 1..k : own[i] \in Nat /\ own[i] = at[i][2]
    BY <1>2, <1>5
  <1>9. ASSUME NEW i \in 1..k
        PROVE  /\ own[i] = 0 => shown[i].source = "generic"
               /\ own[i] # 0 => own[i] \in 1..n /\ shown[i] = rows[own[i]]
    <2>1. own[i] # 0 => own[i] \in 1..n /\ shown[i] = rows[own[i]]
      BY <1>1, <1>2, <1>5, <1>8
    <2>2. own[i] = 0 => shown[i] = Generic(rows, at[i][1])
      BY <1>1, <1>5, <1>8
    <2>3. Generic(rows, at[i][1]).source = "generic"
      BY DEF Generic
    <2> QED
      BY <2>1, <2>2, <2>3
  <1>10. ASSUME NEW i \in 1..k, NEW j \in 1..k, own[i] = own[j], own[i] # 0 PROVE i = j
    <2>1. at[i] = <<Min(Siblings(rows, own[i])), own[i]>> /\ at[j] = <<Min(Siblings(rows, own[j])), own[j]>>
      BY <1>2, <1>5, <1>8, <1>10
    <2>2. at[i] = at[j]
      BY <1>10, <2>1
    <2> QED
      BY <1>6, <2>2
  <1>11. ASSUME NEW r \in 1..n PROVE k = MaxResults \/ \E i \in 1..k : own[i] = r
    <2>1. <<Min(Siblings(rows, r)), r>> \in S
      BY <1>2
    <2>2. k = MaxResults \/ \E i \in 1..k : at[i] = <<Min(Siblings(rows, r)), r>>
      BY <1>5, <2>1
    <2> QED
      BY <1>8, <2>2
  <1>12. n = MaxResults => k = MaxResults
    <2>1. k \in Nat /\ k <= MaxResults /\ MaxResults \in Nat /\ (k = MaxResults \/ k = Cardinality(S))
      BY <1>4, <1>5, <1>6
    <2>2. Cardinality(S) \in Nat /\ n <= Cardinality(S)
      BY <1>2
    <2> HIDE DEF k
    <2> QED
      BY <2>1, <2>2
  <1>13. own \in [1..k -> Nat]
    BY <1>8
  <1>14. k \in Nat /\ k <= MaxResults
    BY <1>5
  <1> HIDE DEF own, k
  <1>15. Regroups(own, shown, rows, n)
    BY <1>7, <1>9, <1>10, <1>11 DEF Regroups
  <1>16. \E o \in [1..Len(shown) -> Nat] : Regroups(o, shown, rows, n)
    BY <1>7, <1>13, <1>15
  <1> QED
    BY <1>7, <1>12, <1>14, <1>16

(* An answer made of replies is as it should be.                            *)
Sound(answer) == Trustworthy(answer) /\ Len(answer.rows) <= MaxResults

(* Whatever the sources replied, its merge and grouping is sound.           *)
LEMMA AnswersAreSound ==
    ASSUME NEW from, Replied(from), NEW geminiFirst
    PROVE  Sound([rows |-> CollapseVariants(Merge(from, geminiFirst)), from |-> from])
  <1> DEFINE rows == Merge(from, geminiFirst)
             n == Len(rows)
             shown == CollapseVariants(rows)
             m == Len(shown)
  <1>1. /\ n \in Nat /\ n <= MaxResults /\ DOMAIN rows = 1..n
        /\ \A i \in 1..n : rows[i] \in Kept(from)
        /\ \A i, j \in 1..n : rows[i].name = rows[j].name => i = j
        /\ \A r \in Kept(from) : n = MaxResults \/ \E i \in 1..n : rows[i] = r
    BY MergeIs
  <1> HIDE DEF rows, n
  <1>2. /\ m \in Nat /\ m <= MaxResults /\ DOMAIN shown = 1..m
        /\ \E own \in [1..m -> Nat] : Regroups(own, shown, rows, n)
        /\ n = MaxResults => m = MaxResults
    <2>1. shown = CollapseVariants(rows)
      OBVIOUS
    <2> HIDE DEF shown
    <2> QED
      BY <1>1, <2>1, CollapseIs
  <1>0. PICK own \in [1..m -> Nat] : Regroups(own, shown, rows, n)
    BY <1>2
  <1> HIDE DEF shown
  <1>3. /\ \A i \in 1..m : /\ own[i] = 0 => shown[i].source = "generic"
                           /\ own[i] # 0 => own[i] \in 1..n /\ shown[i] = rows[own[i]]
        /\ \A i, j \in 1..m : own[i] = own[j] /\ own[i] # 0 => i = j
        /\ \A k \in 1..n : m = MaxResults \/ \E i \in 1..m : own[i] = k
    BY <1>0 DEF Regroups
  <1> HIDE DEF m
  <1> DEFINE ofProduct == {i \in DOMAIN shown : shown[i].source # "generic"}
  <1>4. ASSUME NEW r \in Kept(from)
        PROVE  /\ r.source \in SearchSources /\ r.source # "generic"
               /\ r.name \in DOMAIN from[r.source]
    <2>1. r \in SearchRows /\ r.name \in DOMAIN from[r.source]
      BY KeptAre, AllRowsAre
    <2>2. r.source \in SearchSources
      BY <2>1 DEF SearchRows
    <2>3. "generic" \notin SearchSources
      BY DEF SearchSources, Trusted
    <2> QED
      BY <2>1, <2>2, <2>3
  <1>5. ASSUME NEW i \in ofProduct
        PROVE  i \in 1..m /\ own[i] \in 1..n /\ own[i] # 0 /\ shown[i] = rows[own[i]] /\ shown[i] \in Kept(from)
    <2>1. i \in 1..m /\ shown[i].source # "generic"
      BY <1>2
    <2>2. own[i] # 0
      <3>1. own[i] = 0 => shown[i].source = "generic"
        BY <1>3, <2>1
      <3> QED
        BY <2>1, <3>1
    <2>3. own[i] \in 1..n /\ shown[i] = rows[own[i]]
      BY <1>3, <2>1, <2>2, Zenon
    <2> QED
      BY <1>1, <2>1, <2>2, <2>3, Zenon
  <1>6. ASSUME NEW i \in 1..m, own[i] \in 1..n PROVE i \in ofProduct /\ shown[i] = rows[own[i]]
    <2>1. own[i] # 0 /\ i \in DOMAIN shown
      BY <1>2, <1>6
    <2>2. shown[i] = rows[own[i]] /\ rows[own[i]] \in Kept(from)
      BY <1>1, <1>3, <1>6, <2>1
    <2> QED
      BY <1>4, <2>1, <2>2
  <1> HIDE DEF ofProduct
  <1>7. ASSUME NEW i \in ofProduct
        PROVE  /\ shown[i].source \in SearchSources
               /\ shown[i].name \in DOMAIN from[shown[i].source]
               /\ \A s \in SearchSources : shown[i].name \in DOMAIN from[s]
                                             => Priority(shown[i].source) <= Priority(s)
    BY <1>4, <1>5, KeptAre
  <1>8. ASSUME NEW i \in ofProduct, NEW j \in ofProduct, shown[i].name = shown[j].name
        PROVE  i = j
    <2>1. own[i] = own[j]
      BY <1>1, <1>5, <1>8
    <2> QED
      BY <1>3, <1>5, <2>1
  <1>9. ASSUME NEW s \in SearchSources, NEW p \in DOMAIN from[s]
        PROVE  m = MaxResults \/ \E i \in ofProduct : shown[i].name = p
    <2>1. PICK r \in Kept(from) : r.name = p
      BY KeptAre
    <2>2. CASE n = MaxResults
      BY <1>2, <2>2
    <2>3. CASE \E k \in 1..n : rows[k] = r
      <3>1. PICK k \in 1..n : rows[k] = r
        BY <2>3
      <3>2. m = MaxResults \/ \E i \in 1..m : own[i] = k
        BY <1>3
      <3> QED
        BY <1>6, <2>1, <3>1, <3>2
    <2> QED
      BY <1>1, <2>2, <2>3
  <1> DEFINE answer == [rows |-> shown, from |-> from]
  <1>10. answer.rows = shown /\ answer.from = from
    OBVIOUS
  <1> HIDE DEF answer
  <1>11. Trustworthy(answer)
    BY <1>7, <1>8, <1>9, <1>10 DEF Trustworthy, ofProduct, m
  <1> QED
    BY <1>2, <1>10, <1>11 DEF Sound, answer, shown, rows, m

(* The invariant: the replies are as they can be, and the last answer and   *)
(* the cached one are both sound.                                           *)
SearchInv ==
    /\ searchStep \in {"idle", "db", "tier2", "gemini", "merge"}
    /\ Replied(replies)
    /\ searchAnswer # NoAnswer => Sound(searchAnswer)
    /\ searchCache # NoAnswer => Sound(searchCache)

(* A source replies no more than it found.                                  *)
LEMMA ReplyIsReplied ==
    ASSUME NEW from, Replied(from), NEW s, NEW reply, NEW then, then = [from EXCEPT ![s] = reply],
           DOMAIN reply \subseteq Names, IsFiniteSet(DOMAIN reply), \A p \in DOMAIN reply : reply[p] \in Nat
    PROVE  Replied(then)
  <1>1. DOMAIN then = SearchSources /\ \A u \in SearchSources : then[u] = IF u = s THEN reply ELSE from[u]
    BY DEF Replied
  <1> QED
    BY <1>1 DEF Replied

(* What is left of a reply less its noise is a reply.                       *)
LEMMA RelevantIsLess ==
    ASSUME NEW reply, DOMAIN reply \subseteq Names, IsFiniteSet(DOMAIN reply),
           \A p \in DOMAIN reply : reply[p] \in Nat
    PROVE  LET r == Relevant(reply) IN
           DOMAIN r \subseteq Names /\ IsFiniteSet(DOMAIN r) /\ \A p \in DOMAIN r : r[p] \in Nat
  <1>1. DOMAIN Relevant(reply) \subseteq DOMAIN reply /\ \A p \in DOMAIN Relevant(reply) : Relevant(reply)[p] = reply[p]
    BY DEF Relevant
  <1> QED
    BY <1>1, FS_Subset

(* The invariant holds of every search.                                     *)
LEMMA SearchInvariant == SearchSpec => []SearchInv
  <1>1. Replied([s \in SearchSources |-> NoReply])
    BY FS_EmptySet DEF Replied, NoReply
  <1>2. SearchInit => SearchInv
    BY <1>1 DEF SearchInit, SearchInv
  <1>3. ASSUME SearchInv, [SearchNext]_searchVars PROVE SearchInv'
    <2> USE <1>3 DEF SearchInv
    <2>1. CASE UNCHANGED searchVars
      BY <2>1 DEF searchVars, Replied, Sound, Trustworthy
    <2>2. CASE Hit
      BY <2>2 DEF Hit
    <2>3. ASSUME NEW force \in BOOLEAN, Miss(force) PROVE SearchInv'
      BY <1>1, <2>3 DEF Miss
    <2>4. ASSUME NEW reply \in DbReplies, FuzzyMatch(reply) PROVE SearchInv'
      <3>1. Replied(replies')
        BY <2>4, ReplyIsReplied, SearchAssumption DEF FuzzyMatch, Reply
      <3>2. UNCHANGED <<searchAnswer, searchCache>> /\ searchStep' \in {"merge", "gemini", "tier2"}
        BY <2>4 DEF FuzzyMatch, Reply
      <3> QED
        BY <3>1, <3>2
    <2>5. ASSUME NEW b \in BestBuyReplies, NEW s \in SecondLegReplies, Tier2(b, s) PROVE SearchInv'
      <3> DEFINE one == [replies EXCEPT !["best_buy"] = Relevant(b)]
      <3>1. Replied(one)
        <4>1. /\ DOMAIN Relevant(b) \subseteq Names /\ IsFiniteSet(DOMAIN Relevant(b))
              /\ \A p \in DOMAIN Relevant(b) : Relevant(b)[p] \in Nat
          BY RelevantIsLess, SearchAssumption
        <4> QED
          BY <4>1, ReplyIsReplied
      <3>2. replies' = [one EXCEPT !["upcitemdb"] = Relevant(s)]
        BY <2>5 DEF Tier2
      <3> HIDE DEF one
      <3>3. Replied(replies')
        <4>1. /\ DOMAIN Relevant(s) \subseteq Names /\ IsFiniteSet(DOMAIN Relevant(s))
              /\ \A p \in DOMAIN Relevant(s) : Relevant(s)[p] \in Nat
          BY RelevantIsLess, SearchAssumption
        <4> QED
          BY <3>1, <3>2, <4>1, ReplyIsReplied
      <3>4. UNCHANGED <<searchAnswer, searchCache>> /\ searchStep' \in {"merge", "gemini"}
        BY <2>5 DEF Tier2
      <3> QED
        BY <3>3, <3>4
    <2>6. ASSUME NEW reply \in GeminiReplies, GeminiSearch(reply) PROVE SearchInv'
      <3>1. Replied(replies')
        BY <2>6, ReplyIsReplied, SearchAssumption DEF GeminiSearch, Reply
      <3>2. UNCHANGED <<searchAnswer, searchCache>> /\ searchStep' = "merge"
        BY <2>6 DEF GeminiSearch, Reply
      <3> QED
        BY <3>1, <3>2
    <2>7. CASE Respond
      <3>1. Sound(searchAnswer') /\ searchCache' = searchAnswer'
        BY <2>7, AnswersAreSound DEF Respond
      <3>2. searchStep' = "idle" /\ UNCHANGED replies
        BY <2>7 DEF Respond
      <3> QED
        BY <3>1, <3>2
    <2> QED
      BY <2>1, <2>2, <2>3, <2>4, <2>5, <2>6, <2>7 DEF SearchNext
  <1> QED
    BY <1>2, <1>3, PTL DEF SearchSpec

(* The variables of the search keep their types; no answer is longer than   *)
(* max_results.                                                             *)
THEOREM SearchTypes == SearchSpec => []SearchTypeOK
  <1>1. SearchInv => SearchTypeOK
    BY DEF SearchInv, SearchTypeOK, Replied, Sound
  <1> QED
    BY <1>1, SearchInvariant, PTL

(* Whatever the sources reply, the row shown of a product is its most       *)
(* trusted source's, once, and missing only from a full answer (_merge,     *)
(* _collapse_variants).                                                     *)
THEOREM MostTrustedIsShown == SearchSpec => []TrustedSourceWins
  <1>1. SearchInv => TrustedSourceWins
    BY DEF SearchInv, TrustedSourceWins, Sound
  <1> QED
    BY <1>1, SearchInvariant, PTL
=============================================================================
