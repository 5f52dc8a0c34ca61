------------------------------ MODULE Workers_proofs ------------------------------
(* What runs beside the requests, proved: the ingestion worker, the        *)
(* watchdog, the portal scrape and the verification of discounts.          *)
EXTENDS PriceIngestion, RetailerHealth, PortalRates, DiscountPrograms,
        FiniteOrders, SequenceTheorems

-----------------------------------------------------------------------------
(* PriceIngestion: the worker and SQS implement the retry queue; no crash, *)
(* no error and no redelivery loses a message that was not dealt with.     *)

WorkerStates ==
    [pc : {"off", "poll", "work", "ack"}, bounded : BOOLEAN, hand : Seq(Messages),
     flushed : SUBSET Products, broken : BOOLEAN]
BoxStates == [where : {"unsent", "visible", "inflight", "deleted", "dead"},
              receives : 0..MaxReceive]

Typed == QueueTypeOK /\ worker \in [Workers -> WorkerStates]

(* The bodies of a set of messages, in an order, are a sequence of them.   *)
LEMMA BodiesInOrder ==
  ASSUME NEW S, IsFiniteSet(S)
  PROVE  SetToSeq(S) \in Seq(S) /\ Len(SetToSeq(S)) = Cardinality(S)
<1> DEFINE n == Cardinality(S)
<1>1. n \in Nat /\ \E f \in [1..n -> S] : IsInjective(f)
  BY FS_CardinalityType DEF ExistsBijection, Bijection, Injection
<1>2. SetToSeq(S) \in [1..n -> S]
  BY <1>1 DEF SetToSeq
<1> QED
  BY <1>1, <1>2, IsASeq, LenProperties

(* So are the messages a receive hands out.                                *)
LEMMA OrderOfSome ==
  ASSUME NEW some \in SUBSET Messages, NEW order \in SetToSeqs(some)
  PROVE  /\ order \in Seq(Messages)
         /\ \A i \in 1..Len(order) : order[i] \in some
<1>1. IsFiniteSet(some)
  <2>1. IsFiniteSet(Messages)
    BY QueueAssumption, FS_Interval DEF Messages
  <2> QED
    BY <2>1, FS_Subset
<1>2. Cardinality(some) \in Nat
  BY <1>1, FS_CardinalityType
<1>3. order \in [1..Cardinality(some) -> some]
  BY DEF SetToSeqs
<1>4. order \in Seq(some)
  BY <1>2, <1>3, IsASeq
<1> QED
  BY <1>4, ElementOfSeq, SeqMonotonic

(* The message in hand, and what is left of the hand when it is done with. *)
LEMMA HeadInHand ==
  ASSUME Typed, QueueInv, NEW w \in Workers, worker[w].hand # <<>>
  PROVE  /\ Received(Head1(w)) /\ Head1(w) \in Messages
         /\ Tail(worker[w].hand) \in Seq(Messages)
         /\ \A i \in 1..Len(Tail(worker[w].hand)) : Received(Tail(worker[w].hand)[i])
<1>1. worker[w].hand \in Seq(Messages)
  BY DEF Typed, WorkerStates
<1>2. \A i \in 1..Len(worker[w].hand) : Received(worker[w].hand[i])
  BY DEF QueueInv, InHand
<1>3. Len(worker[w].hand) \in Nat \ {0} /\ Head1(w) = worker[w].hand[1]
  BY <1>1, HeadTailProperties, EmptySeq DEF Head1
<1>4. /\ Tail(worker[w].hand) \in Seq(Messages)
      /\ Len(Tail(worker[w].hand)) = Len(worker[w].hand) - 1
      /\ \A i \in 1..Len(Tail(worker[w].hand)) :
            Tail(worker[w].hand)[i] = worker[w].hand[i + 1]
  BY <1>1, HeadTailProperties
<1>5. Received(Head1(w)) /\ Head1(w) \in Messages
  BY <1>2, <1>3 DEF Received
<1>6. \A i \in 1..Len(Tail(worker[w].hand)) : Received(Tail(worker[w].hand)[i])
  BY <1>2, <1>3, <1>4
<1> QED
  BY <1>4, <1>5, <1>6

(* At first a message is sent or has no history.                           *)
LEMMA QueueInitInv == QueueInit => Typed /\ QueueInv
<1> SUFFICES ASSUME QueueInit PROVE Typed /\ QueueInv
  OBVIOUS
<1> USE QueueAssumption
<1>1. sent \in Seq(Stray) /\ Len(sent) = Cardinality(Stray)
  BY BodiesInOrder DEF QueueInit
<1>2. sent \in Seq(Products \cup Stray) /\ Len(sent) \in Nat /\ Len(sent) <= MaxMessages
  BY <1>1, SeqMonotonic, LenProperties
<1>3. box \in [Messages -> BoxStates]
  BY DEF QueueInit, Sent, BoxStates
<1>4. \A w \in Workers : worker[w] = Off /\ Off \in WorkerStates
  <2>1. <<>> \in Seq(Messages)
    OBVIOUS
  <2> QED
    BY <2>1 DEF QueueInit, Off, WorkerStates
<1>5. Typed
  BY <1>2, <1>3, <1>4 DEF QueueInit, Typed, QueueTypeOK, BoxStates, Off
<1>6. Unsent
  BY <1>2 DEF QueueInit, Unsent, Sent, Messages
<1>7. InHand
  BY <1>4 DEF InHand, Off
<1> QED
  BY <1>5, <1>6, <1>7 DEF QueueInv

(* What a step that deals with the message in hand, and keeps it or drops  *)
(* it, does to its worker.                                                 *)
LEMMA WorkerTyped ==
  ASSUME Typed, NEW w \in Workers, NEW new \in WorkerStates,
         worker' = [worker EXCEPT ![w] = new]
  PROVE  worker' \in [Workers -> WorkerStates]
BY DEF Typed

LEMMA Next1Typed ==
  ASSUME Typed, QueueInv, NEW w \in Workers, worker[w].hand # <<>>, Next1(w)
  PROVE  worker' \in [Workers -> WorkerStates]
<1> DEFINE pc == IF Tail(worker[w].hand) = <<>> THEN "poll" ELSE "work"
           new == [worker[w] EXCEPT !.hand = Tail(@), !.pc = pc]
<1>1. worker' = [worker EXCEPT ![w] = new]
  BY DEF Next1
<1>2. pc \in {"poll", "work"} /\ Tail(worker[w].hand) \in Seq(Messages)
  BY HeadInHand
<1>3. new \in WorkerStates
  <2> HIDE DEF pc
  <2> QED
    BY <1>2 DEF Typed, WorkerStates
<1> QED
  BY <1>1, <1>3, WorkerTyped

(* Deleting a message leaves the others, and its receipts, as they are.    *)
LEMMA DeleteTyped ==
  ASSUME Typed, NEW m \in Messages, Delete(m)
  PROVE  /\ box' \in [Messages -> BoxStates]
         /\ \A n \in Messages : box'[n].receives = box[n].receives
         /\ \A n \in Messages : box[n].where # "unsent" => box'[n].where # "unsent"
         /\ \A n \in Messages : n # m => box'[n] = box[n]
         /\ box'[m].where = IF box[m].where = "dead" THEN "dead" ELSE "deleted"
<1>1. box \in [Messages -> BoxStates]
  BY DEF Typed, QueueTypeOK, BoxStates
<1> QED
  BY <1>1 DEF Delete, BoxStates

(* Every step keeps the types.                                             *)
LEMMA QueueTypeStep == Typed /\ QueueInv /\ [QueueNext]_queueVars => Typed'
<1> SUFFICES ASSUME Typed, QueueInv, [QueueNext]_queueVars PROVE Typed'
  OBVIOUS
<1> USE QueueAssumption
<1>0. /\ fresh \subseteq Products /\ handled \subseteq Messages
      /\ sent \in Seq(Products \cup Stray) /\ Len(sent) <= MaxMessages
      /\ box \in [Messages -> BoxStates] /\ worker \in [Workers -> WorkerStates]
  BY DEF Typed, QueueTypeOK, BoxStates
<1> DEFINE Goal == /\ fresh' \subseteq Products /\ handled' \subseteq Messages
                   /\ sent' \in Seq(Products \cup Stray) /\ Len(sent') <= MaxMessages
                   /\ box' \in [Messages -> BoxStates]
                   /\ worker' \in [Workers -> WorkerStates]
<1>1. ASSUME EnqueueStale PROVE Goal
  <2>1. PICK some \in SUBSET (Products \ fresh) :
          /\ Len(sent) + Cardinality(some) <= MaxMessages
          /\ sent' = sent \o SetToSeq(some)
          /\ box' = [m \in Messages |-> IF m \in Len(sent) + 1..Len(sent')
                                        THEN Sent(sent', m) ELSE box[m]]
          /\ UNCHANGED <<fresh, worker, handled>>
    BY <1>1 DEF EnqueueStale
  <2>2. IsFiniteSet(some)
    <3>1. some \in SUBSET Products
      OBVIOUS
    <3> QED
      BY <3>1, FS_Subset
  <2>3. SetToSeq(some) \in Seq(Products \cup Stray) /\ Len(SetToSeq(some)) = Cardinality(some)
    BY <2>2, BodiesInOrder, SeqMonotonic
  <2>4. /\ sent' \in Seq(Products \cup Stray)
        /\ Len(sent') = Len(sent) + Cardinality(some)
    BY <1>0, <2>1, <2>3, ConcatProperties
  <2>5. box' \in [Messages -> BoxStates]
    BY <1>0, <2>1 DEF Sent, BoxStates
  <2> QED
    BY <1>0, <2>1, <2>4, <2>5
<1>2. ASSUME NEW p \in Products, Stale(p) PROVE Goal
  BY <1>0, <1>2 DEF Stale
<1>3. ASSUME NEW w \in Workers, Start(w) PROVE Goal
  <2>1. PICK b \in Bounded :
          worker' = [worker EXCEPT ![w] = [Off EXCEPT !.pc = "poll", !.bounded = b]]
    BY <1>3 DEF Start
  <2>2. <<>> \in Seq(Messages)
    OBVIOUS
  <2>3. [Off EXCEPT !.pc = "poll", !.bounded = b] \in WorkerStates
    BY <2>2 DEF Off, WorkerStates
  <2> QED
    BY <1>0, <1>3, <2>1, <2>3 DEF Start
<1>4. ASSUME NEW w \in Workers, Receive(w) PROVE Goal
  <2>1. PICK some \in SUBSET Visible :
          /\ \E order \in SetToSeqs(some) :
               worker' = [worker EXCEPT ![w].pc = "work", ![w].hand = order]
          /\ box' = [m \in Messages |-> IF m \in some
                       THEN [where |-> "inflight", receives |-> box[m].receives + 1]
                       ELSE box[m]]
    BY <1>4 DEF Receive
  <2>2. PICK order \in SetToSeqs(some) :
          worker' = [worker EXCEPT ![w].pc = "work", ![w].hand = order]
    BY <2>1
  <2>3. some \subseteq Messages /\ \A m \in some : box[m].receives < MaxReceive
    BY DEF Visible
  <2>4. order \in Seq(Messages)
    BY <2>3, OrderOfSome
  <2>5. worker' \in [Workers -> WorkerStates]
    <3> DEFINE new == [worker[w] EXCEPT !.pc = "work", !.hand = order]
    <3>1. new \in WorkerStates
      BY <1>0, <2>4 DEF WorkerStates
    <3>2. worker' = [worker EXCEPT ![w] = new]
      BY <2>2
    <3> QED
      BY <3>1, <3>2, WorkerTyped
  <2>6. box' \in [Messages -> BoxStates]
    BY <1>0, <2>1, <2>3 DEF BoxStates
  <2> QED
    BY <1>0, <1>4, <2>5, <2>6 DEF Receive
<1>5. ASSUME Off \in WorkerStates, NEW w \in Workers, Return(w) \/ Crash(w) PROVE Goal
  <2>1. worker' \in [Workers -> WorkerStates]
    BY <1>5, WorkerTyped DEF Return, Crash
  <2>2. fresh' \subseteq Products
    <3>1. worker[w].flushed \subseteq Products
      BY <1>0 DEF WorkerStates
    <3> QED
      BY <1>0, <1>5, <3>1 DEF Return, Crash
  <2> QED
    BY <1>0, <1>5, <2>1, <2>2 DEF Return, Crash
<1>6. ASSUME NEW w \in Workers, Skip(w) \/ Refresh(w) PROVE Goal
  <2>1. Head1(w) \in Messages
    BY <1>6, HeadInHand DEF Skip, Refresh, Working
  <2>2. CASE Skip(w)
    BY <1>0, <2>1, <2>2 DEF Skip, WorkerStates
  <2>3. CASE Refresh(w)
    <3> DEFINE p == sent[Head1(w)]
               new == [worker[w] EXCEPT !.flushed = @ \cup {p}, !.pc = "ack"]
    <3>1. p \in Products
      BY <2>3 DEF Refresh
    <3>2. new \in WorkerStates
      BY <1>0, <3>1 DEF WorkerStates
    <3>3. worker' = [worker EXCEPT ![w] = new]
      BY <2>3 DEF Refresh
    <3>4. worker' \in [Workers -> WorkerStates]
      BY <3>2, <3>3, WorkerTyped
    <3> QED
      BY <1>0, <2>1, <2>3, <3>4 DEF Refresh
  <2> QED
    BY <1>6, <2>2, <2>3
<1>7. ASSUME NEW w \in Workers, RefreshFails(w) PROVE Goal
  <2>1. Tail(worker[w].hand) \in Seq(Messages) /\ sent[Head1(w)] \in Products
    BY <1>7, HeadInHand DEF RefreshFails, Working
  <2>2. PICK sql \in BOOLEAN, some \in SUBSET {sent[Head1(w)]} :
          worker' = [worker EXCEPT ![w].hand = Tail(@), ![w].broken = sql,
                       ![w].flushed = IF sql THEN {} ELSE @ \cup some,
                       ![w].pc = IF Tail(worker[w].hand) = <<>> THEN "poll" ELSE "work"]
    BY <1>7 DEF RefreshFails
  <2> DEFINE flushed == IF sql THEN {} ELSE worker[w].flushed \cup some
             pc == IF Tail(worker[w].hand) = <<>> THEN "poll" ELSE "work"
             new == [worker[w] EXCEPT !.hand = Tail(@), !.broken = sql,
                                      !.flushed = flushed, !.pc = pc]
  <2>3. worker' = [worker EXCEPT ![w] = new]
    BY <2>2
  <2>4. flushed \in SUBSET Products /\ pc \in {"poll", "work"}
    BY <1>0, <2>1 DEF WorkerStates
  <2>5. new \in WorkerStates
    <3> HIDE DEF flushed, pc
    <3> QED
      BY <1>0, <2>1, <2>4 DEF WorkerStates
  <2>6. worker' \in [Workers -> WorkerStates]
    BY <2>3, <2>5, WorkerTyped
  <2> QED
    BY <1>0, <1>7, <2>6 DEF RefreshFails
<1>8. ASSUME NEW w \in Workers, Ack(w) PROVE Goal
  <2>1. Tail(worker[w].hand) \in Seq(Messages) /\ Head1(w) \in Messages
    BY <1>8, HeadInHand DEF Ack, Working
  <2>2. box' \in [Messages -> BoxStates]
    BY <1>0, <1>8, <2>1, DeleteTyped DEF Ack
  <2>3. worker' \in [Workers -> WorkerStates]
    BY <1>8, Next1Typed DEF Ack, Working
  <2> QED
    BY <1>0, <1>8, <2>1, <2>2, <2>3 DEF Ack
<1>9. ASSUME NEW m \in Messages, Reappear(m) \/ Redrive(m) PROVE Goal
  BY <1>0, <1>9 DEF Reappear, Redrive, BoxStates
<1>10. ASSUME UNCHANGED queueVars PROVE Goal
  BY <1>0, <1>10 DEF queueVars
<1>11. Off \in WorkerStates
  <2>1. <<>> \in Seq(Messages)
    OBVIOUS
  <2> QED
    BY <2>1 DEF Off, WorkerStates
<1>12. Goal
  BY <1>1, <1>2, <1>3, <1>4, <1>5, <1>6, <1>7, <1>8, <1>9, <1>10, <1>11 DEF QueueNext
<1> QED
  BY <1>12 DEF Typed, QueueTypeOK, BoxStates, WorkerStates

(* What a worker holds stays received whatever the others do; what remains *)
(* to show of a step is what it does to the worker that takes it.          *)
LEMMA InHandFrame ==
  ASSUME Typed, QueueInv, NEW w \in Workers, handled \subseteq handled',
         \A m \in Messages : Received(m) => Received(m)',
         \A v \in Workers \ {w} : worker'[v] = worker[v],
         \A i \in 1..Len(worker'[w].hand) :
            \E m \in Messages : worker'[w].hand[i] = m /\ Received(m)',
         worker'[w].pc = "ack" => /\ worker'[w].hand # <<>>
                                  /\ Head(worker'[w].hand) \in handled'
  PROVE  InHand'
<1>1. ASSUME NEW v \in Workers, NEW i \in 1..Len(worker'[v].hand)
      PROVE  Received(worker[v].hand[i])'
  <2>1. PICK m \in Messages : worker'[v].hand[i] = m /\ Received(m)'
    BY <1>1 DEF QueueInv, InHand, Received
  <2> QED
    BY <2>1 DEF Received
<1>2. ASSUME NEW v \in Workers, worker'[v].pc = "ack"
      PROVE  worker'[v].hand # <<>> /\ Head(worker'[v].hand) \in handled'
  <2>1. CASE v = w
    BY <1>2, <2>1
  <2>2. CASE v # w
    BY <1>2, <2>2 DEF QueueInv, InHand, Head1
  <2> QED
    BY <2>1, <2>2
<1> QED
  BY <1>1, <1>2 DEF InHand, Head1

(* A step that leaves the workers alone.                                   *)
LEMMA InHandKept ==
  ASSUME QueueInv, handled \subseteq handled', worker' = worker,
         \A m \in Messages : Received(m) => Received(m)'
  PROVE  InHand'
BY DEF QueueInv, InHand, Received, Head1
(* What sending does: the messages sent had no history.                    *)
LEMMA SendsUnsent ==
  ASSUME Typed, QueueInv, EnqueueStale
  PROVE  /\ Len(sent) \in Nat /\ Len(sent') \in Nat /\ Len(sent) <= Len(sent')
         /\ \A m \in Messages :
               box'[m] = IF m \in Len(sent) + 1..Len(sent')
                         THEN [where |-> "visible", receives |-> 0] ELSE box[m]
         /\ UNCHANGED <<worker, handled>>
<1>1. PICK some \in SUBSET (Products \ fresh) :
          /\ sent' = sent \o SetToSeq(some)
          /\ box' = [m \in Messages |-> IF m \in Len(sent) + 1..Len(sent')
                                        THEN Sent(sent', m) ELSE box[m]]
          /\ UNCHANGED <<worker, handled>>
  BY DEF EnqueueStale
<1>2. IsFiniteSet(some)
  <2>1. some \in SUBSET Products
    OBVIOUS
  <2> QED
    BY <2>1, QueueAssumption, FS_Subset
<1>3. SetToSeq(some) \in Seq(Products \cup Stray)
  BY <1>2, BodiesInOrder, SeqMonotonic
<1>4. sent \in Seq(Products \cup Stray)
  BY DEF Typed, QueueTypeOK
<1>5. /\ Len(sent) \in Nat /\ Len(SetToSeq(some)) \in Nat
      /\ Len(sent') = Len(sent) + Len(SetToSeq(some))
  BY <1>1, <1>3, <1>4, ConcatProperties, LenProperties
<1> QED
  BY <1>1, <1>5 DEF Sent, Messages

(* Every step keeps what is known of messages and hands.                   *)
LEMMA QueueInvStep == Typed /\ QueueInv /\ [QueueNext]_queueVars => QueueInv'
<1> SUFFICES ASSUME Typed, QueueInv, [QueueNext]_queueVars PROVE QueueInv'
  OBVIOUS
<1>0. /\ box \in [Messages -> BoxStates] /\ worker \in [Workers -> WorkerStates]
      /\ handled \subseteq Messages /\ Unsent
  BY DEF Typed, QueueTypeOK, BoxStates, QueueInv
<1>1. ASSUME EnqueueStale PROVE QueueInv'
  <2>1. Unsent'
    BY <1>0, <1>1, SendsUnsent DEF Unsent, Messages
  <2>2. InHand'
    <3>1. \A m \in Messages : Received(m) => Received(m)'
      BY <1>0, <1>1, SendsUnsent DEF Unsent, Received, Messages
    <3> QED
      BY <1>1, <3>1, SendsUnsent, InHandKept
  <2> QED
    BY <2>1, <2>2 DEF QueueInv
<1>2. ASSUME NEW p \in Products, Stale(p) PROVE QueueInv'
  BY <1>2 DEF Stale, QueueInv, Unsent, InHand, Received, Head1
<1>3. ASSUME NEW w \in Workers, Start(w) \/ Return(w) \/ Crash(w) PROVE QueueInv'
  <2>1. Unsent'
    BY <1>3 DEF Start, Return, Crash, QueueInv, Unsent
  <2>2. /\ worker'[w].hand = <<>> /\ worker'[w].pc # "ack"
        /\ \A v \in Workers \ {w} : worker'[v] = worker[v]
    <3>1. CASE Start(w)
      <4>1. PICK b \in Bounded :
              worker' = [worker EXCEPT ![w] = [Off EXCEPT !.pc = "poll", !.bounded = b]]
        BY <3>1 DEF Start
      <4> QED
        BY <1>0, <4>1 DEF Off
    <3>2. CASE Return(w) \/ Crash(w)
      BY <1>0, <3>2 DEF Return, Crash, Off
    <3> QED
      BY <1>3, <3>1, <3>2
  <2>3. \A m \in Messages : Received(m) => Received(m)'
    BY <1>3 DEF Start, Return, Crash, Received
  <2>4. handled \subseteq handled'
    BY <1>3 DEF Start, Return, Crash
  <2> QED
    BY <2>1, <2>2, <2>3, <2>4, InHandFrame DEF QueueInv
<1>4. ASSUME NEW w \in Workers, Receive(w) PROVE QueueInv'
  <2>1. PICK some \in SUBSET Visible :
          /\ \E order \in SetToSeqs(some) :
               worker' = [worker EXCEPT ![w].pc = "work", ![w].hand = order]
          /\ box' = [m \in Messages |-> IF m \in some
                       THEN [where |-> "inflight", receives |-> box[m].receives + 1]
                       ELSE box[m]]
          /\ UNCHANGED <<sent, handled>>
    BY <1>4 DEF Receive
  <2>2. PICK order \in SetToSeqs(some) :
          worker' = [worker EXCEPT ![w].pc = "work", ![w].hand = order]
    BY <2>1
  <2>3. some \subseteq Messages /\ \A m \in some : box[m].where = "visible"
    BY DEF Visible
  <2>4. order \in Seq(Messages) /\ \A i \in 1..Len(order) : order[i] \in some
    BY <2>3, OrderOfSome
  <2>5. Unsent'
    BY <1>0, <2>1, <2>3 DEF Unsent
  <2>6. \A m \in Messages : (Received(m) \/ m \in some) => Received(m)'
    BY <1>0, <2>1, <2>3 DEF Received, BoxStates
  <2>7. /\ worker'[w].hand = order /\ worker'[w].pc = "work"
        /\ \A v \in Workers \ {w} : worker'[v] = worker[v]
    BY <1>0, <2>2 DEF WorkerStates
  <2>8. \A i \in 1..Len(worker'[w].hand) :
           \E m \in Messages : worker'[w].hand[i] = m /\ Received(m)'
    BY <2>3, <2>4, <2>6, <2>7
  <2>9. handled \subseteq handled'
    BY <2>1
  <2> QED
    BY <2>5, <2>6, <2>7, <2>8, <2>9, InHandFrame DEF QueueInv
<1>5. ASSUME NEW w \in Workers, Skip(w) \/ Refresh(w) PROVE QueueInv'
  <2>1. /\ Head1(w) \in Messages /\ Received(Head1(w)) /\ worker[w].hand # <<>>
        /\ handled' = handled \cup {Head1(w)} /\ UNCHANGED <<sent, box>>
    BY <1>5, HeadInHand DEF Skip, Refresh, Working
  <2>2. /\ worker'[w].hand = worker[w].hand
        /\ \A v \in Workers \ {w} : worker'[v] = worker[v]
    BY <1>0, <1>5 DEF Skip, Refresh, WorkerStates
  <2>3. Unsent'
    BY <1>0, <2>1 DEF Unsent, Received
  <2>4. \A m \in Messages : Received(m) => Received(m)'
    BY <2>1 DEF Received
  <2>5. \A i \in 1..Len(worker'[w].hand) :
           \E m \in Messages : worker'[w].hand[i] = m /\ Received(m)'
    BY <2>2, <2>4 DEF QueueInv, InHand, Received
  <2>6. Head(worker'[w].hand) \in handled' /\ handled \subseteq handled'
    BY <2>1, <2>2 DEF Head1
  <2> QED
    BY <2>1, <2>2, <2>3, <2>4, <2>5, <2>6, InHandFrame DEF QueueInv
<1>6. ASSUME NEW w \in Workers, RefreshFails(w) \/ Ack(w) PROVE QueueInv'
  <2>1. worker[w].hand # <<>>
    BY <1>6 DEF RefreshFails, Ack, Working
  <2>2. /\ worker'[w].hand = Tail(worker[w].hand) /\ worker'[w].pc # "ack"
        /\ \A v \in Workers \ {w} : worker'[v] = worker[v]
    <3> DEFINE pc == IF Tail(worker[w].hand) = <<>> THEN "poll" ELSE "work"
    <3>1. CASE Ack(w)
      <4>1. worker' = [worker EXCEPT ![w] =
                         [worker[w] EXCEPT !.hand = Tail(@), !.pc = pc]]
        BY <3>1 DEF Ack, Next1
      <4> QED
        BY <1>0, <4>1 DEF WorkerStates
    <3>2. CASE RefreshFails(w)
      <4>1. PICK sql \in BOOLEAN, some \in SUBSET {sent[Head1(w)]} :
              worker' = [worker EXCEPT ![w].hand = Tail(@), ![w].broken = sql,
                           ![w].flushed = IF sql THEN {} ELSE @ \cup some,
                           ![w].pc = IF Tail(worker[w].hand) = <<>> THEN "poll" ELSE "work"]
        BY <3>2 DEF RefreshFails
      <4> DEFINE flushed == IF sql THEN {} ELSE worker[w].flushed \cup some
      <4>2. worker' = [worker EXCEPT ![w] =
                         [worker[w] EXCEPT !.hand = Tail(@), !.broken = sql,
                                           !.flushed = flushed, !.pc = pc]]
        BY <4>1
      <4> HIDE DEF flushed
      <4> QED
        BY <1>0, <4>2 DEF WorkerStates
    <3> QED
      BY <1>6, <3>1, <3>2
  <2>3. /\ UNCHANGED <<sent, handled>>
        /\ UNCHANGED box \/ Delete(Head1(w))
    BY <1>6 DEF RefreshFails, Ack
  <2>4. /\ Head1(w) \in Messages /\ Received(Head1(w))
        /\ \A i \in 1..Len(Tail(worker[w].hand)) : Received(Tail(worker[w].hand)[i])
    BY <2>1, HeadInHand
  <2>5. \A m \in Messages :
          /\ box'[m].receives = box[m].receives
          /\ box[m].where = "unsent" <=> box'[m].where = "unsent"
    BY <2>3, <2>4, DeleteTyped DEF Received
  <2>6. Unsent'
    BY <1>0, <2>3, <2>5 DEF Unsent
  <2>7. \A m \in Messages : Received(m) => Received(m)'
    BY <2>5 DEF Received
  <2>8. \A i \in 1..Len(worker'[w].hand) :
           \E m \in Messages : worker'[w].hand[i] = m /\ Received(m)'
    BY <2>2, <2>4, <2>7 DEF Received
  <2> QED
    BY <2>2, <2>3, <2>6, <2>7, <2>8, InHandFrame DEF QueueInv
<1>7. ASSUME NEW m \in Messages, Reappear(m) \/ Redrive(m) PROVE QueueInv'
  <2>1. /\ UNCHANGED <<sent, worker, handled>>
        /\ \A n \in Messages : /\ box'[n].receives = box[n].receives
                               /\ box[n].where = "unsent" <=> box'[n].where = "unsent"
    BY <1>0, <1>7 DEF Reappear, Redrive, BoxStates
  <2>2. Unsent'
    BY <1>0, <2>1 DEF Unsent
  <2>3. \A n \in Messages : Received(n) => Received(n)'
    BY <2>1 DEF Received
  <2> QED
    BY <2>1, <2>2, <2>3, InHandKept DEF QueueInv
<1>8. CASE UNCHANGED queueVars
  BY <1>8 DEF queueVars, QueueInv, Unsent, InHand, Received, Head1
<1> QED
  BY <1>1, <1>2, <1>3, <1>4, <1>5, <1>6, <1>7, <1>8 DEF QueueNext

-----------------------------------------------------------------------------
(* What the mapping says of a message.                                     *)
DutyBar == [m \in Messages |-> Duty(m)]

LEMMA DutyBecomes ==
  ASSUME NEW m \in Messages, NEW to,
         \A n \in Messages \ {m} : Duty(n)' = Duty(n),
         Duty(m)' = [Duty(m) EXCEPT !.state = to]
  PROVE  DutyBar' = [DutyBar EXCEPT ![m].state = to]
BY DEF DutyBar

LEMMA DutyUnchanged ==
  ASSUME \A n \in Messages : Duty(n)' = Duty(n)
  PROVE  DutyBar' = DutyBar
BY DEF DutyBar

DutyOK == DutyBar \in [Messages -> [state : Abstract!Kinds, tries : 0..MaxReceive]]

(* It is typed as the retry queue's is.                                    *)
LEMMA DutyTyped == Typed => DutyOK
<1> SUFFICES ASSUME Typed PROVE DutyOK
  OBVIOUS
<1>1. ASSUME NEW m \in Messages
      PROVE  Duty(m) \in [state : Abstract!Kinds, tries : 0..MaxReceive]
  <2>1. box[m].receives \in 0..MaxReceive
        /\ box[m].where \in {"unsent", "visible", "inflight", "deleted", "dead"}
    BY DEF Typed, QueueTypeOK
  <2> QED
    BY <2>1 DEF Duty, Abstract!Kinds
<1> QED
  BY <1>1 DEF DutyBar, DutyOK

(* Every step of the worker, of SQS or of the enqueuer is a step of the    *)
(* retry queue, or does not concern it.                                    *)
LEMMA QueueRefines ==
  Typed /\ Typed' /\ QueueInv /\ [QueueNext]_queueVars
    => [Abstract!DutyNext]_DutyBar
<1> SUFFICES ASSUME Typed, Typed', QueueInv, [QueueNext]_queueVars
             PROVE  Abstract!DutyNext \/ DutyBar' = DutyBar
  OBVIOUS
<1> DEFINE Refined == Abstract!DutyNext \/ DutyBar' = DutyBar
<1>0. box \in [Messages -> BoxStates] /\ Unsent
  BY DEF Typed, QueueTypeOK, BoxStates, QueueInv
<1>1. DutyOK'
  BY DutyTyped, PTL
<1>2. ASSUME EnqueueStale PROVE Refined
  <2>1. ASSUME NEW m \in Messages
        PROVE  DutyBar'[m] = DutyBar[m]
               \/ /\ DutyBar[m].state = "unsent"
                  /\ DutyBar'[m] = [DutyBar[m] EXCEPT !.state = "owed"]
    <3>1. /\ handled' = handled
          /\ box'[m] = IF m \in Len(sent) + 1..Len(sent')
                       THEN [where |-> "visible", receives |-> 0] ELSE box[m]
          /\ Len(sent) \in Nat /\ Len(sent') \in Nat /\ m \in Nat
      BY <1>2, SendsUnsent DEF Messages
    <3>2. CASE m \in Len(sent) + 1..Len(sent')
      <4>1. box[m].where = "unsent" /\ box[m].receives = 0 /\ m \notin handled
        BY <1>0, <3>1, <3>2 DEF Unsent
      <4> QED
        BY <3>1, <3>2, <4>1 DEF DutyBar, Duty
    <3>3. CASE m \notin Len(sent) + 1..Len(sent')
      BY <3>1, <3>3 DEF DutyBar, Duty
    <3> QED
      BY <3>2, <3>3
  <2> QED
    BY <1>1, <2>1 DEF DutyOK, DutyBar, Abstract!DutyNext, Abstract!Together,
                        Abstract!Sends
<1>3. ASSUME NEW w \in Workers, Receive(w) PROVE Refined
  <2>1. PICK some \in SUBSET Visible :
          /\ box' = [m \in Messages |-> IF m \in some
                       THEN [where |-> "inflight", receives |-> box[m].receives + 1]
                       ELSE box[m]]
          /\ handled' = handled
    BY <1>3 DEF Receive
  <2>2. ASSUME NEW m \in Messages
        PROVE  DutyBar'[m] = DutyBar[m]
               \/ /\ DutyBar[m].state \in {"owed", "handled"}
                  /\ DutyBar[m].tries < MaxReceive
                  /\ DutyBar'[m] = [DutyBar[m] EXCEPT !.tries = @ + 1]
    <3>1. CASE m \in some
      <4>1. box[m].where = "visible" /\ box[m].receives < MaxReceive
        BY <3>1 DEF Visible
      <4> QED
        BY <2>1, <3>1, <4>1 DEF DutyBar, Duty
    <3>2. CASE m \notin some
      BY <2>1, <3>2 DEF DutyBar, Duty
    <3> QED
      BY <3>1, <3>2
  <2> QED
    BY <1>1, <2>2 DEF DutyOK, DutyBar, Abstract!DutyNext, Abstract!Together,
                        Abstract!Delivers
<1>4. ASSUME NEW w \in Workers, Skip(w) \/ Refresh(w) PROVE Refined
  <2>1. PICK m \in Messages :
          /\ Received(m)
          /\ handled' = handled \cup {m} /\ box' = box
    BY <1>4, HeadInHand DEF Skip, Refresh, Working
  <2>2. \A n \in Messages \ {m} : Duty(n)' = Duty(n)
    BY <2>1 DEF Duty
  <2>3. CASE Duty(m).state = "owed"
    <3>1. Duty(m)' = [Duty(m) EXCEPT !.state = "handled"]
      BY <2>1, <2>3 DEF Duty
    <3>2. DutyBar' = [DutyBar EXCEPT ![m].state = "handled"]
      BY <2>1, <2>2, <3>1, DutyBecomes
    <3>3. DutyBar[m].tries > 0 /\ DutyBar[m].state = "owed"
      BY <2>1, <2>3 DEF DutyBar, Duty, Received
    <3> QED
      BY <2>1, <3>2, <3>3 DEF Abstract!DutyNext, Abstract!Handle, Abstract!Become, DutyBar
  <2>4. CASE Duty(m).state # "owed"
    <3>1. Duty(m)' = Duty(m)
      BY <2>1, <2>4 DEF Duty
    <3> QED
      BY <2>2, <3>1, DutyUnchanged
  <2> QED
    BY <2>3, <2>4
<1>5. ASSUME NEW w \in Workers, Ack(w) PROVE Refined
  <2>1. PICK m \in Messages :
          /\ Received(m) /\ m \in handled /\ handled' = handled
          /\ box' = box \/ Delete(m)
    BY <1>5, HeadInHand DEF Ack, Working, QueueInv, InHand
  <2>2. CASE box' = box
    BY <2>1, <2>2, DutyUnchanged DEF Duty
  <2>3. CASE Delete(m)
    <3>1. \A n \in Messages \ {m} : Duty(n)' = Duty(n)
      BY <2>1, <2>3, DeleteTyped DEF Duty
    <3>2. /\ box'[m].where = IF box[m].where = "dead" THEN "dead" ELSE "deleted"
          /\ box'[m].receives = box[m].receives
      BY <2>1, <2>3, DeleteTyped
    <3>3. CASE box[m].where \in {"dead", "deleted"}
      <4>1. Duty(m)' = Duty(m)
        BY <2>1, <3>2, <3>3 DEF Duty
      <4> QED
        BY <3>1, <4>1, DutyUnchanged
    <3>4. CASE box[m].where \notin {"dead", "deleted"}
      <4>1. Duty(m).state = "handled" /\ Duty(m)' = [Duty(m) EXCEPT !.state = "settled"]
        BY <2>1, <3>2, <3>4 DEF Duty, Received
      <4>2. DutyBar' = [DutyBar EXCEPT ![m].state = "settled"]
        BY <2>1, <3>1, <4>1, DutyBecomes
      <4> QED
        BY <2>1, <4>1, <4>2 DEF Abstract!DutyNext, Abstract!Settle, Abstract!Become, DutyBar
    <3> QED
      BY <3>3, <3>4
  <2> QED
    BY <2>1, <2>2, <2>3
<1>6. ASSUME NEW m \in Messages, Reappear(m) PROVE Refined
  <2>1. \A n \in Messages : Duty(n)' = Duty(n)
    BY <1>0, <1>6 DEF Reappear, Duty, BoxStates
  <2> QED
    BY <2>1, DutyUnchanged
<1>7. ASSUME NEW m \in Messages, Redrive(m) PROVE Refined
  <2>1. /\ \A n \in Messages \ {m} : Duty(n)' = Duty(n)
        /\ Duty(m).state \in {"owed", "handled"} /\ Duty(m).tries = MaxReceive
        /\ Duty(m)' = [Duty(m) EXCEPT !.state = "dead"]
    BY <1>0, <1>7 DEF Redrive, Duty, BoxStates
  <2>2. DutyBar' = [DutyBar EXCEPT ![m].state = "dead"]
    BY <2>1, DutyBecomes
  <2> QED
    BY <2>1, <2>2 DEF Abstract!DutyNext, Abstract!Bury, Abstract!Become, DutyBar
<1>8. ASSUME UNCHANGED <<box, handled>> PROVE Refined
  <2>1. \A n \in Messages : Duty(n)' = Duty(n)
    BY <1>8 DEF Duty
  <2> QED
    BY <2>1, DutyUnchanged
<1>9. \/ UNCHANGED <<box, handled>> \/ EnqueueStale
      \/ \E w \in Workers : Receive(w) \/ Skip(w) \/ Refresh(w) \/ Ack(w)
      \/ \E m \in Messages : Reappear(m) \/ Redrive(m)
  BY DEF QueueNext, queueVars, Stale, Start, Return, RefreshFails, Crash
<1> QED
  BY <1>2, <1>3, <1>4, <1>5, <1>6, <1>7, <1>8, <1>9

(* What is sent at first is owed, and the rest is not sent.                *)
LEMMA QueueRefinesInit == QueueInit => Abstract!DutyInit
<1> SUFFICES ASSUME QueueInit PROVE Abstract!DutyInit
  OBVIOUS
<1>1. ASSUME NEW m \in Messages
      PROVE  Duty(m) \in {[state |-> s, tries |-> 0] : s \in {"unsent", "owed"}}
  BY DEF QueueInit, Sent, Duty
<1> QED
  BY <1>1 DEF Abstract!DutyInit

LEMMA QueueInvariant == QueueSpec => [](Typed /\ QueueInv)
<1>1. Typed /\ QueueInv /\ [QueueNext]_queueVars => (Typed /\ QueueInv)'
  BY QueueTypeStep, QueueInvStep
<1> QED
  BY QueueInitInv, <1>1, PTL DEF QueueSpec

(* Every reachable state of the queue and its workers is typed.            *)
THEOREM QueueTypes == QueueSpec => []QueueTypeOK
<1>1. Typed => QueueTypeOK
  BY DEF Typed
<1> QED
  BY QueueInvariant, <1>1, PTL

(* However workers crash, fail or overlap and messages are redelivered,    *)
(* one is dropped only when dealt with, and given up only after MaxReceive *)
(* deliveries.                                                             *)
THEOREM NoMessageLost == QueueSpec => ImplementsRetryQueue
<1>1. Typed /\ Typed' /\ QueueInv /\ [QueueNext]_queueVars => [Abstract!DutyNext]_DutyBar
  BY QueueRefines
<1> QED
  BY QueueInvariant, QueueRefinesInit, <1>1, PTL
     DEF QueueSpec, ImplementsRetryQueue, Abstract!DutySpec, DutyBar

-----------------------------------------------------------------------------
(* RetailerHealth: healing a retailer stays within its budget.             *)

LEMMA HealthInitInv == HealthInit => HealthInv
<1> SUFFICES ASSUME HealthInit PROVE HealthInv
  OBVIOUS
<1>1. NoRows \in [{} -> Rows] /\ DOMAIN NoRows = {}
  BY DEF NoRows
<1>2. Asleep \in DogStates
  <2>1. NoRows \in UNION {[S -> Rows] : S \in SUBSET Retailers}
    BY <1>1
  <2> QED
    BY <2>1 DEF Asleep, DogStates
<1>3. HealthTyped
  BY <1>2, HealthAssumption DEF HealthInit, HealthTyped, Rows
<1>4. \A d \in Watchdogs : dog[d] = Asleep
  BY DEF HealthInit
<1>5. OneVisit(Asleep) /\ OneAhead(Asleep) /\ HasRow(Asleep)
  BY <1>1 DEF OneVisit, OneAhead, HasRow, Asleep
<1>6. LocksExclude
  BY <1>1, <1>4 DEF LocksExclude, LockedBy, Asleep
<1>7. \A r \in Retailers : Owing(r) = {} /\ Claiming(r) = {}
  BY <1>1, <1>4 DEF Owing, Claiming, Owes, Claims, Asleep
<1>8. \A r \in Retailers : Spent(health[r]) = 0 /\ calls[r] = 0
  <2> TAKE r \in Retailers
  <2>1. health[r] = NoHealth \/ health[r] = [status |-> "healthy", failures |-> 0, heals |-> 0]
    BY DEF HealthInit
  <2> QED
    BY <2>1 DEF HealthInit, Spent
<1>9. Cardinality(Watchdogs) \in Nat \ {0} /\ MaxHeals \in Nat
  BY HealthAssumption, FS_CardinalityType, FS_EmptySet
<1>10. CallsAccounted
  <2> USE DEF CallsAccounted
  <2> TAKE r \in Retailers
  <2>1. Cardinality(Owing(r)) = 0 /\ Cardinality(Claiming(r)) = 0
    BY <1>7, FS_EmptySet
  <2> QED
    BY <1>8, <1>9, <2>1
<1> QED
  BY <1>3, <1>4, <1>5, <1>6, <1>10 DEF HealthInv

(* Two sets of watchdogs that differ in one at most.                       *)
One(x, S) == IF x \in S THEN 1 ELSE 0

LEMMA OneDiffers ==
  ASSUME NEW S \in SUBSET Watchdogs, NEW T \in SUBSET Watchdogs, NEW d, S \ {d} = T \ {d}
  PROVE  /\ Cardinality(S) \in Nat /\ Cardinality(T) \in Nat
         /\ Cardinality(T) + One(d, S) = Cardinality(S) + One(d, T)
<1>1. IsFiniteSet(S) /\ IsFiniteSet(T)
  BY HealthAssumption, FS_Subset
<1>2. Cardinality(S) \in Nat /\ Cardinality(T) \in Nat
  BY <1>1, FS_CardinalityType
<1>3. Cardinality(S \ {d}) = IF d \in S THEN Cardinality(S) - 1 ELSE Cardinality(S)
  BY <1>1, FS_RemoveElement
<1>4. Cardinality(S \ {d}) = IF d \in T THEN Cardinality(T) - 1 ELSE Cardinality(T)
  BY <1>1, FS_RemoveElement
<1> QED
  BY <1>2, <1>3, <1>4 DEF One

(* The books balance when those of the watchdog that takes a step do.  h   *)
(* and k are the row's heals before and after.                             *)
Balances(r, d) ==
    /\ calls'[r] \in 0..MaxCalls
    /\ Spent(health'[r]) \in Nat
    /\ Spent(health'[r]) + One(d, Owing(r)') + calls[r] <=
         Spent(health[r]) + One(d, Owing(r)) + calls'[r]
    /\ ended' = {} => Spent(health[r]) + One(d, Owing(r)) + calls'[r] <=
                        Spent(health'[r]) + One(d, Owing(r)') + calls[r]
    /\ \/ Spent(health'[r]) + One(d, Claiming(r)') <= Spent(health[r]) + One(d, Claiming(r))
       \/ Spent(health'[r]) < MaxHeals

LEMMA BooksBalance ==
  ASSUME HealthInv, NEW d \in Watchdogs, NEW r \in Retailers, Balances(r, d),
         \A e \in Watchdogs \ {d} : dog'[e] = dog[e] /\ (health'[r] = health[r] \/ ~LockedBy(e, r)),
         ended \subseteq ended'
  PROVE  /\ Spent(health'[r]) + Cardinality(Owing(r)') <= calls'[r]
         /\ ended' = {} => calls'[r] <= Spent(health'[r]) + Cardinality(Owing(r)')
         /\ Spent(health'[r]) + Cardinality(Claiming(r)') <= MaxHeals + Cardinality(Watchdogs) - 1
<1> DEFINE O == Owing(r)   OO == Owing(r)'
           C == Claiming(r)   CC == Claiming(r)'
<1>1. OO \ {d} = O \ {d} /\ CC \ {d} = C \ {d}
  BY DEF Owing, Claiming, Owes, Claims, LockedBy
<1>2. O \in SUBSET Watchdogs /\ OO \in SUBSET Watchdogs
      /\ C \in SUBSET Watchdogs /\ CC \in SUBSET Watchdogs
  BY DEF Owing, Claiming
<1>3. /\ Spent(health[r]) \in Nat /\ calls[r] \in Nat /\ MaxHeals \in Nat
      /\ Cardinality(Watchdogs) \in Nat
  BY HealthAssumption, FS_CardinalityType DEF HealthInv, HealthTyped, Spent, Rows
<1>4. /\ Spent(health[r]) + Cardinality(O) <= calls[r]
      /\ ended = {} => calls[r] <= Spent(health[r]) + Cardinality(O)
      /\ Spent(health[r]) + Cardinality(C) <= MaxHeals + Cardinality(Watchdogs) - 1
  BY DEF HealthInv, CallsAccounted
<1>5. /\ calls'[r] \in 0..MaxCalls /\ Spent(health'[r]) \in Nat
      /\ Spent(health'[r]) + One(d, OO) + calls[r] <= Spent(health[r]) + One(d, O) + calls'[r]
      /\ ended' = {} => Spent(health[r]) + One(d, O) + calls'[r] <=
                          Spent(health'[r]) + One(d, OO) + calls[r]
      /\ \/ Spent(health'[r]) + One(d, CC) <= Spent(health[r]) + One(d, C)
         \/ Spent(health'[r]) < MaxHeals
  BY DEF Balances
<1> HIDE DEF O, OO, C, CC
<1>6. /\ Cardinality(O) \in Nat /\ Cardinality(OO) \in Nat
      /\ Cardinality(OO) + One(d, O) = Cardinality(O) + One(d, OO)
  BY <1>1, <1>2, OneDiffers
<1>7. /\ Cardinality(C) \in Nat /\ Cardinality(CC) \in Nat
      /\ Cardinality(CC) + One(d, C) = Cardinality(C) + One(d, CC)
  BY <1>1, <1>2, OneDiffers
<1>8. Cardinality(CC) <= Cardinality(Watchdogs)
  BY <1>2, HealthAssumption, FS_Subset
<1>9. /\ One(d, O) \in {0, 1} /\ One(d, OO) \in {0, 1}
      /\ One(d, C) \in {0, 1} /\ One(d, CC) \in {0, 1}
  BY DEF One
<1>10. calls'[r] \in Nat
  BY <1>5, HealthAssumption
<1>11. Spent(health'[r]) + Cardinality(OO) <= calls'[r]
  BY <1>3, <1>4, <1>5, <1>6, <1>9, <1>10
<1>12. ended' = {} => calls'[r] <= Spent(health'[r]) + Cardinality(OO)
  BY <1>3, <1>4, <1>5, <1>6, <1>9, <1>10
<1>13. Spent(health'[r]) + Cardinality(CC) <= MaxHeals + Cardinality(Watchdogs) - 1
  BY <1>3, <1>4, <1>5, <1>7, <1>8, <1>9
<1> QED
  BY <1>11, <1>12, <1>13 DEF OO, CC

(* A watchdog becomes t and the committed rows stay.                       *)
Owed(t, r) == IF Owes(t, r) THEN 1 ELSE 0
Books(d, t, r) ==
    /\ Owed(t, r) + calls[r] <= Owed(dog[d], r) + calls'[r]
    /\ ended' = {} => Owed(dog[d], r) + calls'[r] <= Owed(t, r) + calls[r]
    /\ Claims(t, r) => Claims(dog[d], r) \/ Spent(health[r]) < MaxHeals

LEMMA SpentTyped ==
  ASSUME HealthInv, NEW r \in Retailers
  PROVE  Spent(health[r]) \in Nat /\ calls[r] \in Nat /\ MaxHeals \in Nat
BY HealthAssumption DEF HealthInv, HealthTyped, Spent, Rows

LEMMA DogBecomes ==
  ASSUME HealthInv, NEW d \in Watchdogs, NEW t \in DogStates,
         DogIs(d, t), health' = health,
         calls' \in [Retailers -> 0..MaxCalls], ended \subseteq ended',
         ended' \subseteq {"died", "rowless"}, OneVisit(t), OneAhead(t),
         ended' = {} => HasRow(t),
         \A r \in DOMAIN t.tx : LockedBy(d, r) \/ MayWrite(d, r),
         \A r \in Retailers : Books(d, t, r)
  PROVE  HealthInv'
<1>1. dog \in [Watchdogs -> DogStates] /\ health \in [Retailers -> Rows \cup {NoHealth}]
  BY DEF HealthInv, HealthTyped
<1>2. /\ dog' \in [Watchdogs -> DogStates] /\ dog'[d] = t
      /\ \A e \in Watchdogs \ {d} : dog'[e] = dog[e]
  BY <1>1 DEF DogIs
<1>3. HealthTyped'
  BY <1>1, <1>2 DEF HealthTyped
<1>4. LocksExclude'
  <2> SUFFICES ASSUME NEW e \in Watchdogs, NEW f \in Watchdogs, e # f, NEW r \in Retailers
               PROVE  ~(LockedBy(e, r)' /\ LockedBy(f, r)')
    BY DEF LocksExclude
  <2>1. ~(LockedBy(e, r) /\ LockedBy(f, r))
    BY DEF HealthInv, LocksExclude
  <2>2. CASE e # d /\ f # d
    BY <1>2, <2>1, <2>2 DEF LockedBy
  <2>3. CASE e = d
    BY <1>2, <2>1, <2>3 DEF LockedBy, MayWrite
  <2>4. CASE f = d
    BY <1>2, <2>1, <2>4 DEF LockedBy, MayWrite
  <2> QED
    BY <2>2, <2>3, <2>4
<1>5. CallsAccounted'
  <2> SUFFICES ASSUME NEW r \in Retailers
               PROVE  Balances(r, d)
    BY <1>2, BooksBalance DEF CallsAccounted
  <2>1. /\ d \in Owing(r) <=> Owes(dog[d], r)
        /\ d \in Claiming(r) <=> Claims(dog[d], r)
        /\ d \in Owing(r)' <=> Owes(t, r)
        /\ d \in Claiming(r)' <=> Claims(t, r)
    BY <1>2 DEF Owing, Claiming, Owes, Claims
  <2>2. /\ One(d, Owing(r)) = Owed(dog[d], r) /\ One(d, Owing(r)') = Owed(t, r)
        /\ Owed(dog[d], r) \in {0, 1} /\ Owed(t, r) \in {0, 1}
    BY <2>1 DEF One, Owed
  <2>3. /\ One(d, Claiming(r)) = IF Claims(dog[d], r) THEN 1 ELSE 0
        /\ One(d, Claiming(r)') = IF Claims(t, r) THEN 1 ELSE 0
    BY <2>1 DEF One
  <2>4. /\ Spent(health[r]) \in Nat /\ calls[r] \in Nat /\ MaxHeals \in Nat
        /\ calls'[r] \in 0..MaxCalls /\ calls'[r] \in Nat
    BY SpentTyped, HealthAssumption
  <2>5. Books(d, t, r)
    OBVIOUS
  <2> QED
    BY <2>2, <2>3, <2>4, <2>5 DEF Balances, Books
<1>6. \A e \in Watchdogs : OneVisit(dog[e])' /\ OneAhead(dog[e])'
  <2> SUFFICES ASSUME NEW e \in Watchdogs PROVE OneVisit(dog[e])' /\ OneAhead(dog[e])'
    OBVIOUS
  <2>1. OneVisit(dog[e]) /\ OneAhead(dog[e])
    BY DEF HealthInv
  <2>2. CASE e = d
    BY <1>2, <2>2 DEF OneVisit, OneAhead
  <2>3. CASE e # d
    BY <1>2, <2>1, <2>3 DEF OneVisit, OneAhead
  <2> QED
    BY <2>2, <2>3
<1>7. (ended = {} => \A e \in Watchdogs : HasRow(dog[e]))'
  BY <1>2 DEF HealthInv, HasRow
<1> QED
  BY <1>3, <1>4, <1>5, <1>6, <1>7 DEF HealthInv

LEMMA DogTyped ==
  ASSUME HealthInv, NEW d \in Watchdogs
  PROVE  /\ dog[d] \in DogStates /\ DOMAIN dog[d].tx \subseteq Retailers
         /\ dog[d].tx \in UNION {[S -> Rows] : S \in SUBSET Retailers}
         /\ dog[d].tx \in [DOMAIN dog[d].tx -> Rows]
         /\ OneVisit(dog[d]) /\ OneAhead(dog[d]) /\ calls \in [Retailers -> 0..MaxCalls]
         /\ ended \subseteq {"died", "rowless"} /\ (ended = {} => HasRow(dog[d]))
         /\ health \in [Retailers -> Rows \cup {NoHealth}]
<1>1. dog[d] \in DogStates
  BY DEF HealthInv, HealthTyped
<1>2. dog[d].tx \in UNION {[S -> Rows] : S \in SUBSET Retailers}
  BY <1>1 DEF DogStates
<1>3. PICK S \in SUBSET Retailers : dog[d].tx \in [S -> Rows]
  BY <1>2
<1> QED
  BY <1>1, <1>2, <1>3 DEF HealthInv, HealthTyped

(* A watchdog that moves on, or learns something, with no row written.     *)
LEMMA DogThinks ==
  ASSUME HealthInv, NEW d \in Watchdogs, NEW t \in DogStates,
         DogIs(d, t), UNCHANGED <<health, calls, ended>>,
         OneVisit(t), t.tx = dog[d].tx, ~DogAt(d, "count"), t.pc \notin {"heal", "count"},
         t.pc = "mark" => Spent(health[t.at]) < MaxHeals
  PROVE  HealthInv'
<1>1. \A r \in DOMAIN t.tx : LockedBy(d, r)
  BY DEF LockedBy
<1>2. OneAhead(t) /\ HasRow(t)
  BY DogTyped DEF OneAhead, HasRow
<1>3. \A r \in Retailers : Books(d, t, r)
  <2> TAKE r \in Retailers
  <2>1. Owes(t, r) <=> Owes(dog[d], r)
    BY DEF Owes, DogAt
  <2>2. Claims(t, r) => Claims(dog[d], r) \/ Spent(health[r]) < MaxHeals
    BY <2>1 DEF Claims
  <2>3. Owed(t, r) = Owed(dog[d], r) /\ Owed(t, r) \in Nat /\ calls[r] \in Nat
    BY <2>1, SpentTyped DEF Owed
  <2> QED
    BY <2>2, <2>3 DEF Books
<1>4. ended \subseteq {"died", "rowless"} /\ calls \in [Retailers -> 0..MaxCalls]
  BY DogTyped
<1> QED
  BY <1>1, <1>2, <1>3, <1>4, DogBecomes

LEMMA WakeStep == ASSUME HealthInv, NEW d \in Watchdogs, Wake(d) PROVE HealthInv'
<1>1. PICK todo \in {Retailers} \cup { {r} : r \in Retailers }, dry \in BOOLEAN :
         DogIs(d, [Asleep EXCEPT !.pc = "check", !.todo = todo, !.dry = dry])
  BY DEF Wake
<1> DEFINE t == [Asleep EXCEPT !.pc = "check", !.todo = todo, !.dry = dry]
<1>2. DOMAIN NoRows = {} /\ NoRows \in [{} -> Rows]
  BY DEF NoRows
<1>3. NoRows \in UNION {[S -> Rows] : S \in SUBSET Retailers}
  BY <1>2
<1>4. /\ t \in DogStates /\ t.pc = "check" /\ t.todo = todo /\ t.at = NoHealth /\ t.tx = NoRows
      /\ todo \in SUBSET Retailers
  BY <1>3 DEF Asleep, DogStates
<1>5. dog[d] = Asleep /\ Asleep.tx = NoRows
  BY DogTyped DEF Wake, DogAt, OneVisit, Asleep
<1>6. OneVisit(t)
  BY <1>2, <1>4, HealthAssumption DEF OneVisit
<1> HIDE DEF t
<1> QED
  BY <1>1, <1>4, <1>5, <1>6, DogThinks DEF t, Wake, DogAt

LEMMA MovesOn ==
  ASSUME HealthInv, NEW d \in Watchdogs, NEW pc \in {"check", "record", "mark", "retry"},
         dog[d].pc \in {"retry", "budget"}, DogGoes(d, pc), UNCHANGED <<health, calls, ended>>,
         pc = "mark" => Spent(View(d, Rid(d))) < MaxHeals
  PROVE  HealthInv'
<1> DEFINE t == [dog[d] EXCEPT !.pc = pc]
<1>1. dog[d] \in DogStates /\ OneVisit(dog[d])
  BY DogTyped
<1>2. /\ t \in DogStates /\ t.pc = pc /\ t.tx = dog[d].tx /\ t.at = dog[d].at
      /\ t.todo = dog[d].todo
  BY <1>1 DEF DogStates
<1>3. DogIs(d, t)
  BY DEF DogGoes
<1>4. OneVisit(t) /\ ~LockedBy(d, Rid(d))
  BY <1>1, <1>2 DEF OneVisit, LockedBy, Rid
<1>5. ~DogAt(d, "count")
  BY DEF DogAt
<1>6. pc = "mark" => Spent(health[t.at]) < MaxHeals
  BY <1>2, <1>4 DEF View, Rid
<1> HIDE DEF t
<1> QED
  BY <1>2, <1>3, <1>4, <1>5, <1>6, DogThinks

LEMMA DiagnoseStep == ASSUME HealthInv, NEW d \in Watchdogs, Diagnose(d) PROVE HealthInv'
<1>1. PICK r \in dog[d].todo, diagnosis \in Diagnoses :
         DogIs(d, [dog[d] EXCEPT !.pc = ActOn(diagnosis, dog[d].dry), !.todo = @ \ {r},
                                 !.at = r, !.tries = Retries])
  BY DEF Diagnose
<1> DEFINE pc == ActOn(diagnosis, dog[d].dry)
           t == [dog[d] EXCEPT !.pc = pc, !.todo = @ \ {r}, !.at = r, !.tries = Retries]
<1>2. pc \in {"check", "record", "retry", "block", "budget"}
  BY DEF ActOn
<1>3. dog[d] \in DogStates /\ OneVisit(dog[d]) /\ dog[d].todo \subseteq Retailers
  BY DogTyped DEF DogStates
<1> HIDE DEF pc
<1>4. Retries \in Nat
  BY HealthAssumption
<1>5. /\ t \in DogStates /\ t.pc = pc /\ t.tx = dog[d].tx /\ t.at = r
      /\ t.todo = dog[d].todo \ {r}
  BY <1>2, <1>3, <1>4 DEF DogStates
<1>6. DogIs(d, t)
  BY <1>1 DEF pc
<1> HIDE DEF t
<1>7. OneVisit(t)
  BY <1>2, <1>3, <1>5 DEF OneVisit
<1> QED
  BY <1>2, <1>5, <1>6, <1>7, DogThinks DEF Diagnose, DogAt

LEMMA RetryStep == ASSUME HealthInv, NEW d \in Watchdogs, RetryOnce(d) PROVE HealthInv'
<1>1. dog[d].pc = "retry" /\ UNCHANGED <<health, calls, ended>>
  BY DEF RetryOnce, DogAt
<1>2. CASE DogGoes(d, "check") \/ DogGoes(d, "record")
  BY <1>1, <1>2, MovesOn
<1>3. CASE dog[d].tries > 1 /\ DogIs(d, [dog[d] EXCEPT !.tries = @ - 1])
  <2> DEFINE t == [dog[d] EXCEPT !.tries = @ - 1]
  <2>1. dog[d] \in DogStates /\ OneVisit(dog[d]) /\ dog[d].tries \in Nat
    BY DogTyped DEF DogStates
  <2>2. dog[d].tries - 1 \in Nat
    BY <1>3, <2>1
  <2>3. /\ t \in DogStates /\ t.pc = "retry" /\ t.tx = dog[d].tx /\ t.at = dog[d].at
        /\ t.todo = dog[d].todo
    BY <1>1, <2>1, <2>2 DEF DogStates
  <2>4. DogIs(d, t)
    BY <1>3
  <2> HIDE DEF t
  <2>5. OneVisit(t)
    BY <1>1, <2>1, <2>3 DEF OneVisit
  <2> QED
    BY <1>1, <2>3, <2>4, <2>5, DogThinks DEF DogAt
<1> QED
  BY <1>2, <1>3 DEF RetryOnce, DogMoves

LEMMA BudgetStep == ASSUME HealthInv, NEW d \in Watchdogs, Budget(d) PROVE HealthInv'
<1>1. dog[d].pc = "budget" /\ UNCHANGED <<health, calls, ended>>
  BY DEF Budget, DogAt
<1>2. Spent(View(d, Rid(d))) \in Nat /\ MaxHeals \in Nat
  <2>1. dog[d].at \in Retailers /\ ~LockedBy(d, Rid(d))
    BY <1>1, DogTyped DEF OneVisit, LockedBy, Rid
  <2> QED
    BY <2>1, SpentTyped DEF View, Rid
<1>3. DogGoes(d, "check") \/ (DogGoes(d, "mark") /\ Spent(View(d, Rid(d))) < MaxHeals)
  BY <1>2 DEF Budget, DogMoves
<1> QED
  BY <1>1, <1>3, MovesOn

(* What an UPDATE makes of the transaction's rows.                         *)
LEMMA WrittenRows ==
  ASSUME HealthInv, NEW d \in Watchdogs, NEW r \in Retailers, NEW row \in Rows \cup {NoHealth}
  PROVE  /\ Written(d, r, row) \in UNION {[S -> Rows] : S \in SUBSET Retailers}
         /\ row = NoHealth => Written(d, r, row) = dog[d].tx
         /\ row # NoHealth => /\ DOMAIN Written(d, r, row) = DOMAIN dog[d].tx \cup {r}
                              /\ Written(d, r, row)[r] = row
         /\ \A s \in Retailers \ {r} :
              /\ s \in DOMAIN Written(d, r, row) <=> s \in DOMAIN dog[d].tx
              /\ s \in DOMAIN dog[d].tx => Written(d, r, row)[s] = dog[d].tx[s]
<1>1. /\ DOMAIN dog[d].tx \subseteq Retailers /\ dog[d].tx \in [DOMAIN dog[d].tx -> Rows]
      /\ dog[d].tx \in UNION {[S -> Rows] : S \in SUBSET Retailers}
  BY DogTyped
<1>2. CASE row = NoHealth
  BY <1>1, <1>2 DEF Written
<1>3. CASE row # NoHealth
  <2> DEFINE S == DOMAIN dog[d].tx \cup {r}
             f == [s \in S |-> IF s = r THEN row ELSE dog[d].tx[s]]
  <2>1. f \in [S -> Rows] /\ S \in SUBSET Retailers
    BY <1>1, <1>3
  <2>2. Written(d, r, row) = f
    BY <1>3 DEF Written
  <2> QED
    BY <1>3, <2>1, <2>2
<1> QED
  BY <1>2, <1>3

LEMMA ViewTyped ==
  ASSUME HealthInv, NEW d \in Watchdogs, NEW r \in Retailers
  PROVE  View(d, r) \in Rows \cup {NoHealth}
BY DogTyped DEF View, LockedBy

(* A row written whose heals are those committed, plus one when counting.  *)
LEMMA DogWrites ==
  ASSUME HealthInv, NEW d \in Watchdogs, NEW row \in Rows \cup {NoHealth},
         NEW pc \in {"check", "heal"}, UNCHANGED <<health, calls, ended>>,
         DogIs(d, [dog[d] EXCEPT !.pc = pc, !.tx = Written(d, Rid(d), row)]), MayWrite(d, Rid(d)),
         dog[d].pc \in {"record", "block", "mark", "count"},
         pc = "heal" => dog[d].pc = "mark",
         row = NoHealth => View(d, Rid(d)) = NoHealth,
         dog[d].pc # "count" => Spent(row) = Spent(health[Rid(d)]),
         dog[d].pc = "count" /\ row # NoHealth => Spent(row) = Spent(health[Rid(d)]) + 1
  PROVE  HealthInv'
<1> DEFINE r == Rid(d)
           tx == Written(d, r, row)
           t == [dog[d] EXCEPT !.pc = pc, !.tx = tx]
<1>1. /\ dog[d] \in DogStates /\ OneVisit(dog[d]) /\ OneAhead(dog[d])
      /\ ended \subseteq {"died", "rowless"} /\ (ended = {} => HasRow(dog[d]))
      /\ calls \in [Retailers -> 0..MaxCalls] /\ DOMAIN dog[d].tx \subseteq Retailers
      /\ dog[d].tx \in [DOMAIN dog[d].tx -> Rows]
  BY DogTyped
<1>2. r \in Retailers /\ r \notin dog[d].todo /\ dog[d].at = r
  BY <1>1 DEF OneVisit, Rid
<1>3. /\ tx \in UNION {[S -> Rows] : S \in SUBSET Retailers}
      /\ row = NoHealth => tx = dog[d].tx
      /\ row # NoHealth => DOMAIN tx = DOMAIN dog[d].tx \cup {r} /\ tx[r] = row
      /\ \A s \in Retailers \ {r} : /\ s \in DOMAIN tx <=> s \in DOMAIN dog[d].tx
                                    /\ s \in DOMAIN dog[d].tx => tx[s] = dog[d].tx[s]
  BY <1>2, WrittenRows
<1>4. /\ row # NoHealth => Spent(row) = row.heals
      /\ r \in DOMAIN dog[d].tx => row # NoHealth
  BY <1>1, HealthAssumption DEF Spent, View, LockedBy, Rows
<1>5. DogIs(d, t)
  OBVIOUS
<1> HIDE DEF tx
<1>6. t \in DogStates /\ t.pc = pc /\ t.tx = tx /\ t.at = r /\ t.todo = dog[d].todo
  BY <1>1, <1>2, <1>3 DEF DogStates
<1> HIDE DEF t, r
<1>7. DOMAIN tx \subseteq Retailers
  BY <1>1, <1>2, <1>3
<1>8. OneVisit(t)
  BY <1>1, <1>2, <1>3, <1>6, <1>7 DEF OneVisit
<1>9. /\ Spent(health[r]) \in Nat
      /\ r \in DOMAIN tx => /\ dog[d].pc = "count" => tx[r].heals = Spent(health[r]) + 1
                            /\ dog[d].pc # "count" => tx[r].heals = Spent(health[r])
  BY <1>2, <1>3, <1>4, SpentTyped DEF r
<1>10. OneAhead(t)
  <2> SUFFICES ASSUME NEW s \in DOMAIN tx
               PROVE  /\ tx[s].heals \in {Spent(health[s]), Spent(health[s]) + 1}
                      /\ pc \in {"heal", "count"} /\ s = r => tx[s].heals = Spent(health[s])
    BY <1>6 DEF OneAhead
  <2>1. CASE s = r
    BY <1>9, <2>1
  <2>2. CASE s # r
    BY <1>1, <1>3, <1>7, <2>2 DEF OneAhead
  <2> QED
    BY <2>1, <2>2
<1>11. HasRow(t)
  BY <1>6 DEF HasRow
<1>12. \A s \in DOMAIN t.tx : LockedBy(d, s) \/ MayWrite(d, s)
  BY <1>3, <1>6, <1>7 DEF LockedBy, r
<1>13. \A s \in Retailers : Books(d, t, s)
  <2> TAKE s \in Retailers
  <2>1. /\ Spent(health[s]) \in Nat /\ calls[s] \in Nat
        /\ Owed(t, s) \in {0, 1} /\ Owed(dog[d], s) \in {0, 1}
    BY SpentTyped DEF Owed
  <2>2. CASE s # r
    <3>1. Owes(t, s) <=> Owes(dog[d], s)
      BY <1>2, <1>3, <1>6, <2>2 DEF Owes
    <3>2. Claims(t, s) => Claims(dog[d], s)
      BY <1>6, <2>2, <3>1 DEF Claims
    <3> QED
      BY <2>1, <3>1, <3>2 DEF Books, Owed
  <2>3. CASE s = r /\ dog[d].pc # "count"
    <3>1. ~Owes(t, s)
      BY <1>6, <1>9, <2>1, <2>3 DEF Owes
    <3>2. ~Owes(dog[d], s)
      BY <1>1, <1>2, <2>1, <2>3 DEF Owes, OneVisit
    <3>3. Claims(t, s) => Claims(dog[d], s)
      BY <1>2, <1>6, <2>3, <3>1 DEF Claims
    <3> QED
      BY <2>1, <3>1, <3>2, <3>3 DEF Books, Owed
  <2>4. CASE s = r /\ dog[d].pc = "count"
    <3>1. Owes(dog[d], s) /\ Claims(dog[d], s)
      BY <1>2, <2>4 DEF Owes, Claims
    <3>2. ended = {} => Owes(t, s)
      <4> SUFFICES ASSUME ended = {} PROVE Owes(t, s)
        OBVIOUS
      <4>1. View(d, r) # NoHealth
        <5>1. dog[d].at \in DOMAIN dog[d].tx \/ health[dog[d].at] # NoHealth
          BY <1>1, <2>4 DEF HasRow
        <5> QED
          BY <1>1, <1>2, <5>1, HealthAssumption DEF View, LockedBy, Rows
      <4>2. r \in DOMAIN tx
        BY <1>3, <4>1 DEF r
      <4> QED
        BY <1>6, <1>9, <2>4, <4>2 DEF Owes
    <3> QED
      BY <2>1, <3>1, <3>2 DEF Books, Owed
  <2> QED
    BY <2>2, <2>3, <2>4
<1> QED
  BY <1>1, <1>5, <1>6, <1>8, <1>10, <1>11, <1>12, <1>13, DogBecomes

LEMMA PolledRow ==
  ASSUME NEW row \in Rows \cup {NoHealth}, NEW next \in Polled(row)
  PROVE  next \in Rows /\ next # NoHealth /\ Spent(next) = Spent(row)
<1>1. MaxFailures \in Nat \ {0} /\ MaxCalls \in Nat /\ NoHealth \notin Rows
  BY HealthAssumption DEF Rows
<1>2. CASE row = NoHealth
  <2>1. next \in Rows /\ next.heals = 0
    BY <1>1, <1>2 DEF Polled, Recovered, Failed, Rows
  <2> QED
    BY <1>1, <1>2, <2>1 DEF Spent
<1>3. CASE row \in Rows
  <2>1. row # NoHealth
    BY <1>1, <1>3
  <2> DEFINE counted == [row EXCEPT !.failures = IF @ < MaxFailures THEN @ + 1 ELSE @]
  <2>2. counted \in Rows /\ counted.heals = row.heals
    BY <1>1, <1>3 DEF Rows
  <2>3. next = Recovered(row) \/ next = counted \/ next = [counted EXCEPT !.status = "degraded"]
    BY <2>1 DEF Polled, Failed
  <2> HIDE DEF counted
  <2> DEFINE cleared == [row EXCEPT !.status = "healthy"]
  <2>4. cleared \in Rows /\ cleared.heals = row.heals
    BY <1>3 DEF Rows
  <2>5. Recovered(row) = [cleared EXCEPT !.failures = 0]
    BY <1>3, <2>1 DEF Recovered, Rows
  <2> HIDE DEF cleared
  <2>6. Recovered(row) \in Rows /\ Recovered(row).heals = row.heals
    BY <1>1, <2>4, <2>5 DEF Rows
  <2>7. /\ [counted EXCEPT !.status = "degraded"] \in Rows
        /\ [counted EXCEPT !.status = "degraded"].heals = row.heals
    BY <2>2 DEF Rows
  <2> QED
    BY <1>1, <2>1, <2>2, <2>3, <2>6, <2>7 DEF Spent
<1> QED
  BY <1>2, <1>3

LEMMA StatusRow ==
  ASSUME NEW row \in Rows \cup {NoHealth}, NEW status \in {"degraded", "healing"}
  PROVE  /\ SetStatus(row, status) \in Rows \cup {NoHealth}
         /\ SetStatus(row, status) = NoHealth <=> row = NoHealth
         /\ Spent(SetStatus(row, status)) = Spent(row)
<1>1. NoHealth \notin Rows
  BY HealthAssumption DEF Rows
<1>2. CASE row = NoHealth
  BY <1>2 DEF SetStatus
<1>3. CASE row \in Rows
  <2>1. SetStatus(row, status) = [row EXCEPT !.status = status]
    BY <1>1, <1>3 DEF SetStatus
  <2>2. SetStatus(row, status) \in Rows /\ SetStatus(row, status).heals = row.heals
    BY <1>3, <2>1 DEF Rows
  <2> QED
    BY <1>1, <1>3, <2>2 DEF Spent
<1> QED
  BY <1>2, <1>3

(* A retailer in hand that is not written yet is read as committed.        *)
LEMMA UnwrittenYet ==
  ASSUME HealthInv, NEW d \in Watchdogs, dog[d].pc \in {"record", "block", "mark"}
  PROVE  /\ Rid(d) \in Retailers /\ View(d, Rid(d)) = health[Rid(d)]
         /\ View(d, Rid(d)) \in Rows \cup {NoHealth}
<1>1. Rid(d) \in Retailers /\ ~LockedBy(d, Rid(d))
  BY DogTyped DEF OneVisit, LockedBy, Rid
<1> QED
  BY <1>1, ViewTyped DEF View

LEMMA RecordStep == ASSUME HealthInv, NEW d \in Watchdogs, Record(d) PROVE HealthInv'
<1>1. dog[d].pc = "record" /\ UNCHANGED <<health, calls, ended>> /\ MayWrite(d, Rid(d))
  BY DEF Record, DogAt
<1>2. PICK row \in Polled(View(d, Rid(d))) :
        DogIs(d, [dog[d] EXCEPT !.pc = "check", !.tx = Written(d, Rid(d), row)])
  BY DEF Record
<1>3. View(d, Rid(d)) = health[Rid(d)] /\ View(d, Rid(d)) \in Rows \cup {NoHealth}
  BY <1>1, UnwrittenYet
<1>4. row \in Rows /\ row # NoHealth /\ Spent(row) = Spent(health[Rid(d)])
  BY <1>3, PolledRow
<1> QED
  BY <1>1, <1>2, <1>4, DogWrites

LEMMA BlockStep == ASSUME HealthInv, NEW d \in Watchdogs, Block(d) PROVE HealthInv'
<1> DEFINE row == SetStatus(View(d, Rid(d)), "degraded")
<1>1. /\ dog[d].pc = "block" /\ UNCHANGED <<health, calls, ended>> /\ MayWrite(d, Rid(d))
      /\ DogIs(d, [dog[d] EXCEPT !.pc = "check", !.tx = Written(d, Rid(d), row)])
  BY DEF Block, DogAt
<1>2. View(d, Rid(d)) = health[Rid(d)] /\ View(d, Rid(d)) \in Rows \cup {NoHealth}
  BY <1>1, UnwrittenYet
<1>3. /\ row \in Rows \cup {NoHealth} /\ (row = NoHealth => View(d, Rid(d)) = NoHealth)
      /\ Spent(row) = Spent(health[Rid(d)])
  BY <1>2, StatusRow
<1> HIDE DEF row
<1> QED
  BY <1>1, <1>3, DogWrites

LEMMA MarkStep == ASSUME HealthInv, NEW d \in Watchdogs, MarkHealing(d) PROVE HealthInv'
<1> DEFINE row == SetStatus(View(d, Rid(d)), "healing")
<1>1. dog[d].pc = "mark" /\ UNCHANGED <<health, calls, ended>> /\ MayWrite(d, Rid(d))
  BY DEF MarkHealing, DogAt
<1>2. PICK pc \in {"heal", "check"} :
        DogIs(d, [dog[d] EXCEPT !.pc = pc, !.tx = Written(d, Rid(d), row)])
  BY DEF MarkHealing
<1>3. View(d, Rid(d)) = health[Rid(d)] /\ View(d, Rid(d)) \in Rows \cup {NoHealth}
  BY <1>1, UnwrittenYet
<1>4. /\ row \in Rows \cup {NoHealth} /\ (row = NoHealth => View(d, Rid(d)) = NoHealth)
      /\ Spent(row) = Spent(health[Rid(d)])
  BY <1>3, StatusRow
<1> HIDE DEF row
<1> QED
  BY <1>1, <1>2, <1>4, DogWrites

LEMMA HealStep == ASSUME HealthInv, NEW d \in Watchdogs, Heal(d) PROVE HealthInv'
<1> DEFINE t == [dog[d] EXCEPT !.pc = "count"]
           r == Rid(d)
<1>1. /\ dog[d].pc = "heal" /\ UNCHANGED health /\ calls' = [calls EXCEPT ![r] = @ + 1]
      /\ calls[r] < MaxCalls /\ DogIs(d, t)
      /\ ended' = ended \cup IF View(d, r) = NoHealth THEN {"rowless"} ELSE {}
  BY DEF Heal, DogAt, DogGoes
<1>2. /\ dog[d] \in DogStates /\ OneVisit(dog[d]) /\ OneAhead(dog[d])
      /\ ended \subseteq {"died", "rowless"} /\ calls \in [Retailers -> 0..MaxCalls]
      /\ DOMAIN dog[d].tx \subseteq Retailers
  BY DogTyped
<1>3. r \in Retailers /\ dog[d].at = r /\ MaxCalls \in Nat
  BY <1>1, <1>2, HealthAssumption DEF OneVisit, Rid
<1>4. /\ t \in DogStates /\ t.pc = "count" /\ t.tx = dog[d].tx /\ t.at = r
      /\ t.todo = dog[d].todo
  BY <1>2, <1>3 DEF DogStates
<1> HIDE DEF t, r
<1>5. OneVisit(t)
  BY <1>1, <1>2, <1>3, <1>4 DEF OneVisit
<1>6. OneAhead(t)
  BY <1>1, <1>2, <1>3, <1>4 DEF OneAhead
<1>7. ended' = {} => HasRow(t)
  BY <1>1, <1>4 DEF HasRow, View, LockedBy
<1>8. calls' \in [Retailers -> 0..MaxCalls]
  BY <1>1, <1>2, <1>3
<1>9. \A s \in DOMAIN t.tx : LockedBy(d, s)
  BY <1>4 DEF LockedBy
<1>10. \A s \in Retailers : Books(d, t, s)
  <2> TAKE s \in Retailers
  <2>1. Spent(health[s]) \in Nat /\ calls[s] \in Nat
    BY SpentTyped
  <2>2. CASE s # r
    <3>1. Owes(t, s) <=> Owes(dog[d], s)
      BY <1>1, <1>3, <1>4, <2>2 DEF Owes
    <3>2. Claims(t, s) => Claims(dog[d], s)
      BY <1>4, <2>2, <3>1 DEF Claims
    <3>3. calls'[s] = calls[s]
      BY <1>1, <1>2, <2>2
    <3> QED
      BY <2>1, <3>1, <3>2, <3>3 DEF Books, Owed
  <2>3. CASE s = r
    <3>1. Owes(t, s) /\ Claims(dog[d], s)
      BY <1>1, <1>3, <1>4, <2>3 DEF Owes, Claims
    <3>2. ~Owes(dog[d], s)
      BY <1>1, <1>2, <1>3, <2>1, <2>3 DEF Owes, OneAhead
    <3>3. calls'[s] = calls[s] + 1
      BY <1>1, <1>2, <2>3
    <3> QED
      BY <2>1, <3>1, <3>2, <3>3 DEF Books, Owed
  <2> QED
    BY <2>2, <2>3
<1> QED
  BY <1>1, <1>2, <1>4, <1>5, <1>6, <1>7, <1>8, <1>9, <1>10, DogBecomes

LEMMA CountStep == ASSUME HealthInv, NEW d \in Watchdogs, CountHeal(d) PROVE HealthInv'
<1> DEFINE row == View(d, Rid(d))
           next == IF row = NoHealth THEN NoHealth ELSE [row EXCEPT !.heals = @ + 1]
<1>1. /\ dog[d].pc = "count" /\ UNCHANGED <<health, calls, ended>> /\ MayWrite(d, Rid(d))
      /\ DogIs(d, [dog[d] EXCEPT !.pc = "check", !.tx = Written(d, Rid(d), next)])
  BY DEF CountHeal, DogAt
<1>2. OneVisit(dog[d]) /\ OneAhead(dog[d]) /\ calls \in [Retailers -> 0..MaxCalls]
  BY DogTyped
<1>3. Rid(d) \in Retailers /\ Rid(d) = dog[d].at /\ MaxCalls \in Nat /\ NoHealth \notin Rows
  BY <1>1, <1>2, HealthAssumption DEF OneVisit, Rid, Rows
<1>4. row \in Rows \cup {NoHealth}
  BY <1>3, ViewTyped
<1>5. row # NoHealth => row.heals = Spent(health[Rid(d)])
  BY <1>1, <1>2, <1>3 DEF View, LockedBy, OneAhead, Spent
<1>6. Spent(health[Rid(d)]) + 1 <= MaxCalls /\ Spent(health[Rid(d)]) \in Nat
  <2>1. /\ Spent(health[Rid(d)]) + Cardinality(Owing(Rid(d))) <= calls[Rid(d)]
        /\ calls[Rid(d)] \in 0..MaxCalls /\ Spent(health[Rid(d)]) \in Nat
    BY <1>2, <1>3, SpentTyped DEF HealthInv, CallsAccounted
  <2>2. d \in Owing(Rid(d)) /\ Owing(Rid(d)) \in SUBSET Watchdogs
    BY <1>1, <1>3 DEF Owing, Owes
  <2>3. IsFiniteSet(Owing(Rid(d))) /\ Cardinality(Owing(Rid(d))) # 0
    BY <2>2, HealthAssumption, FS_Subset, FS_EmptySet
  <2>4. Cardinality(Owing(Rid(d))) \in Nat \ {0}
    BY <2>3, FS_CardinalityType
  <2> QED
    BY <1>3, <2>1, <2>4
<1>7. /\ next \in Rows \cup {NoHealth} /\ (next = NoHealth => row = NoHealth)
      /\ next # NoHealth => Spent(next) = Spent(health[Rid(d)]) + 1
  <2>1. CASE row = NoHealth
    BY <2>1
  <2>2. CASE row # NoHealth
    <3>1. row \in Rows /\ next = [row EXCEPT !.heals = @ + 1] /\ row.heals + 1 \in 0..MaxCalls
      BY <1>3, <1>4, <1>5, <1>6, <2>2
    <3>2. next \in Rows /\ next.heals = row.heals + 1
      BY <3>1 DEF Rows
    <3> QED
      BY <1>3, <1>5, <2>2, <3>2 DEF Spent
  <2> QED
    BY <2>1, <2>2
<1> HIDE DEF next
<1> QED
  BY <1>1, <1>7, DogWrites

LEMMA DieStep == ASSUME HealthInv, NEW d \in Watchdogs, Die(d) PROVE HealthInv'
<1>1. /\ UNCHANGED <<health, calls>> /\ DogIs(d, Asleep)
      /\ ended' = ended \cup IF DOMAIN dog[d].tx # {} \/ DogAt(d, "count") THEN {"died"} ELSE {}
  BY DEF Die
<1>2. DOMAIN NoRows = {} /\ NoRows \in UNION {[S -> Rows] : S \in SUBSET Retailers}
  <2>1. DOMAIN NoRows = {} /\ NoRows \in [{} -> Rows]
    BY DEF NoRows
  <2> QED
    BY <2>1
<1>3. Asleep \in DogStates /\ Asleep.pc = "off" /\ Asleep.tx = NoRows
      /\ Asleep.at = NoHealth /\ Asleep.todo = {}
  BY <1>2 DEF Asleep, DogStates
<1>4. OneVisit(Asleep) /\ OneAhead(Asleep) /\ HasRow(Asleep)
  BY <1>2, <1>3 DEF OneVisit, OneAhead, HasRow
<1>5. \A r \in Retailers : Books(d, Asleep, r)
  <2> TAKE r \in Retailers
  <2>1. calls[r] \in Nat /\ Owed(dog[d], r) \in {0, 1}
    BY SpentTyped DEF Owed
  <2>2. ~Owes(Asleep, r) /\ ~Claims(Asleep, r)
    BY <1>2, <1>3 DEF Owes, Claims
  <2>3. ended' = {} => ~Owes(dog[d], r)
    BY <1>1 DEF Owes, DogAt
  <2> QED
    BY <1>1, <2>1, <2>2, <2>3 DEF Books, Owed
<1>6. ended \subseteq {"died", "rowless"} /\ calls \in [Retailers -> 0..MaxCalls]
  BY DogTyped
<1> QED
  BY <1>1, <1>2, <1>3, <1>4, <1>5, <1>6, DogBecomes

LEMMA CheckOneStep == ASSUME HealthInv, NEW r \in Retailers, CheckOne(r) PROVE HealthInv'
<1>1. /\ \A d \in Watchdogs : ~LockedBy(d, r)
      /\ UNCHANGED <<dog, calls, ended>>
  BY DEF CheckOne
<1>2. PICK row \in Polled(health[r]) : health' = [health EXCEPT ![r] = row]
  BY DEF CheckOne
<1>3. HealthTyped
  BY DEF HealthInv
<1>4. health \in [Retailers -> Rows \cup {NoHealth}]
  BY <1>3 DEF HealthTyped
<1>5. row \in Rows /\ row # NoHealth /\ Spent(row) = Spent(health[r])
  BY <1>4, PolledRow
<1>6. /\ health' \in [Retailers -> Rows \cup {NoHealth}]
      /\ \A s \in Retailers : /\ Spent(health'[s]) = Spent(health[s])
                              /\ health[s] # NoHealth => health'[s] # NoHealth
  BY <1>2, <1>4, <1>5
<1>7. HealthTyped'
  BY <1>1, <1>3, <1>6 DEF HealthTyped
<1>8. LocksExclude'
  BY <1>1 DEF HealthInv, LocksExclude, LockedBy
<1>9. \A d \in Watchdogs : (OneVisit(dog[d]) /\ OneAhead(dog[d]))'
  <2> SUFFICES ASSUME NEW d \in Watchdogs PROVE (OneVisit(dog[d]) /\ OneAhead(dog[d]))'
    OBVIOUS
  <2>1. OneVisit(dog[d]) /\ OneAhead(dog[d]) /\ DOMAIN dog[d].tx \subseteq Retailers
    BY DogTyped
  <2> QED
    BY <1>1, <1>6, <2>1 DEF OneVisit, OneAhead
<1>10. (ended = {} => \A d \in Watchdogs : HasRow(dog[d]))'
  <2> SUFFICES ASSUME ended = {}, NEW d \in Watchdogs, dog[d].pc = "count"
               PROVE  dog[d].at \in DOMAIN dog[d].tx \/ health'[dog[d].at] # NoHealth
    BY <1>1 DEF HasRow
  <2>1. HasRow(dog[d]) /\ dog[d].at \in Retailers
    BY DogTyped DEF OneVisit
  <2> QED
    BY <1>6, <2>1 DEF HasRow
<1>11. CallsAccounted'
  <2> SUFFICES ASSUME NEW s \in Retailers
               PROVE  Owing(s)' = Owing(s) /\ Claiming(s)' = Claiming(s)
    BY <1>1, <1>6 DEF HealthInv, CallsAccounted
  <2> QED
    BY <1>1, <1>6 DEF Owing, Claiming, Owes, Claims
<1> QED
  BY <1>7, <1>8, <1>9, <1>10, <1>11 DEF HealthInv

LEMMA CommitDogStep == ASSUME HealthInv, NEW d \in Watchdogs, CommitDog(d) PROVE HealthInv'
<1>1. /\ dog[d].pc = "check" /\ UNCHANGED <<calls, ended>> /\ DogIs(d, Asleep)
      /\ health' = [r \in Retailers |-> View(d, r)]
  BY DEF CommitDog, DogAt
<1>2. DOMAIN NoRows = {} /\ NoRows \in UNION {[S -> Rows] : S \in SUBSET Retailers}
  <2>1. DOMAIN NoRows = {} /\ NoRows \in [{} -> Rows]
    BY DEF NoRows
  <2> QED
    BY <2>1
<1>3. Asleep \in DogStates /\ Asleep.pc = "off" /\ Asleep.tx = NoRows
      /\ Asleep.at = NoHealth /\ Asleep.todo = {}
  BY <1>2 DEF Asleep, DogStates
<1>4. dog \in [Watchdogs -> DogStates] /\ calls \in [Retailers -> 0..MaxCalls]
      /\ ended \subseteq {"died", "rowless"}
  BY DEF HealthInv, HealthTyped
<1>5. /\ dog' \in [Watchdogs -> DogStates] /\ dog'[d] = Asleep
      /\ \A e \in Watchdogs \ {d} : dog'[e] = dog[e]
  BY <1>1, <1>3, <1>4 DEF DogIs
<1>6. /\ \A r \in Retailers : health'[r] = View(d, r) /\ View(d, r) \in Rows \cup {NoHealth}
      /\ health' \in [Retailers -> Rows \cup {NoHealth}]
  BY <1>1, ViewTyped
<1>7. HealthTyped'
  BY <1>1, <1>4, <1>5, <1>6 DEF HealthTyped
<1>8. LocksExclude
  BY DEF HealthInv
<1>9. LocksExclude'
  BY <1>2, <1>3, <1>5, <1>8 DEF LocksExclude, LockedBy
<1>10. \A e \in Watchdogs \ {d} : \A r \in DOMAIN dog[e].tx : health'[r] = health[r]
  <2> TAKE e \in Watchdogs \ {d}
  <2> TAKE r \in DOMAIN dog[e].tx
  <2>1. r \in Retailers /\ LockedBy(e, r)
    BY DogTyped DEF LockedBy
  <2>2. ~LockedBy(d, r)
    BY <1>8, <2>1 DEF LocksExclude
  <2> QED
    BY <1>6, <2>1, <2>2 DEF View
<1>11. \A e \in Watchdogs : (OneVisit(dog[e]) /\ OneAhead(dog[e]))'
  <2> SUFFICES ASSUME NEW e \in Watchdogs PROVE (OneVisit(dog[e]) /\ OneAhead(dog[e]))'
    OBVIOUS
  <2>1. OneVisit(dog[e]) /\ OneAhead(dog[e])
    BY DogTyped
  <2>2. CASE e = d
    BY <1>2, <1>3, <1>5, <2>2 DEF OneVisit, OneAhead
  <2>3. CASE e # d
    BY <1>5, <1>10, <2>1, <2>3 DEF OneVisit, OneAhead
  <2> QED
    BY <2>2, <2>3
<1>12. \A r \in Retailers : health[r] # NoHealth => health'[r] # NoHealth
  <2> TAKE r \in Retailers
  <2>1. LockedBy(d, r) => View(d, r) \in Rows
    BY DogTyped DEF View, LockedBy
  <2> QED
    BY <1>6, <2>1, HealthAssumption DEF View, Rows
<1>13. (ended = {} => \A e \in Watchdogs : HasRow(dog[e]))'
  <2> SUFFICES ASSUME ended = {}, NEW e \in Watchdogs, dog'[e].pc = "count"
               PROVE  dog'[e].at \in DOMAIN dog'[e].tx \/ health'[dog'[e].at] # NoHealth
    BY <1>1 DEF HasRow
  <2>1. e # d /\ dog'[e] = dog[e]
    BY <1>3, <1>5
  <2>2. HasRow(dog[e]) /\ dog[e].at \in Retailers
    BY <2>1, DogTyped DEF OneVisit
  <2> QED
    BY <1>12, <2>1, <2>2 DEF HasRow
<1>14. CallsAccounted'
  <2> SUFFICES ASSUME NEW r \in Retailers
               PROVE  Balances(r, d) /\ \A e \in Watchdogs \ {d} :
                        dog'[e] = dog[e] /\ (health'[r] = health[r] \/ ~LockedBy(e, r))
    BY <1>1, BooksBalance DEF CallsAccounted
  <2>1. \A e \in Watchdogs \ {d} : dog'[e] = dog[e] /\ (health'[r] = health[r] \/ ~LockedBy(e, r))
    BY <1>5, <1>10 DEF LockedBy
  <2>2. Spent(health[r]) \in Nat /\ calls[r] \in 0..MaxCalls /\ calls[r] \in Nat
    BY <1>4, SpentTyped
  <2>3. /\ d \in Owing(r) <=> Owes(dog[d], r)
        /\ d \in Claiming(r) <=> Owes(dog[d], r)
        /\ d \notin Owing(r)' /\ d \notin Claiming(r)'
    BY <1>1, <1>2, <1>3, <1>5 DEF Owing, Claiming, Owes, Claims
  <2>4. Spent(health'[r]) = Spent(health[r]) + IF Owes(dog[d], r) THEN 1 ELSE 0
    <3>1. CASE ~LockedBy(d, r)
      <4>1. health'[r] = health[r] /\ ~Owes(dog[d], r)
        BY <1>1, <1>6, <3>1 DEF View, Owes, LockedBy
      <4> QED
        BY <2>2, <4>1
    <3>2. CASE LockedBy(d, r)
      <4>1. /\ health'[r] = dog[d].tx[r] /\ dog[d].tx[r] \in Rows
            /\ dog[d].tx[r].heals \in {Spent(health[r]), Spent(health[r]) + 1}
            /\ Owes(dog[d], r) <=> dog[d].tx[r].heals = Spent(health[r]) + 1
        BY <1>1, <1>6, <3>2, DogTyped DEF View, Owes, LockedBy, OneAhead
      <4>2. Spent(health'[r]) = dog[d].tx[r].heals
        BY <4>1, HealthAssumption DEF Spent, Rows
      <4> QED
        BY <2>2, <4>1, <4>2
    <3> QED
      BY <3>1, <3>2
  <2>5. /\ One(d, Owing(r)) = IF Owes(dog[d], r) THEN 1 ELSE 0
        /\ One(d, Claiming(r)) = IF Owes(dog[d], r) THEN 1 ELSE 0
        /\ One(d, Owing(r)') = 0 /\ One(d, Claiming(r)') = 0
    BY <2>3 DEF One
  <2>6. Balances(r, d)
    BY <1>1, <2>2, <2>4, <2>5 DEF Balances
  <2> QED
    BY <2>1, <2>6
<1> QED
  BY <1>7, <1>9, <1>11, <1>13, <1>14 DEF HealthInv

LEMMA HealthInvStep == HealthInv /\ [HealthNext]_healthVars => HealthInv'
<1> SUFFICES ASSUME HealthInv, [HealthNext]_healthVars PROVE HealthInv'
  OBVIOUS
<1>1. CASE UNCHANGED healthVars
  BY <1>1 DEF healthVars, HealthInv, HealthTyped, LocksExclude, LockedBy, CallsAccounted, OneVisit,
              OneAhead, HasRow, Owing, Claiming, Owes, Claims
<1>2. ASSUME NEW r \in Retailers, CheckOne(r) PROVE HealthInv'
  BY <1>2, CheckOneStep
<1>3. ASSUME NEW d \in Watchdogs,
             Wake(d) \/ Diagnose(d) \/ RetryOnce(d) \/ Record(d) \/ Block(d) \/ Budget(d)
               \/ MarkHealing(d) \/ Heal(d) \/ CountHeal(d) \/ CommitDog(d) \/ Die(d)
      PROVE  HealthInv'
  BY <1>3, WakeStep, DiagnoseStep, RetryStep, RecordStep, BlockStep, BudgetStep, MarkStep,
     HealStep, CountStep, CommitDogStep, DieStep
<1> QED
  BY <1>1, <1>2, <1>3 DEF HealthNext

LEMMA HealthInvariant == HealthSpec => []HealthInv
<1> QED
  BY HealthInitInv, HealthInvStep, PTL DEF HealthSpec

(* Rows, transactions and counters of calls stay what they are typed to    *)
(* be: no heal is counted that was not asked of the model, so a row's      *)
(* counter never passes the calls.                                         *)
THEOREM HealthTypes == HealthSpec => []HealthTypeOK
<1>1. HealthInv => HealthTypeOK
  <2> SUFFICES ASSUME HealthInv PROVE HealthTypeOK
    OBVIOUS
  <2>1. \A d \in Watchdogs : /\ dog[d] \in DogStates /\ DOMAIN dog[d].tx \subseteq Retailers
                             /\ \A r \in DOMAIN dog[d].tx : dog[d].tx[r] \in Rows
    BY DogTyped
  <2>2. HealthTyped
    BY DEF HealthInv
  <2> QED
    BY <2>1, <2>2 DEF HealthTyped, HealthTypeOK, DogStates
<1> QED
  BY <1>1, HealthInvariant, PTL

(* However many watchdogs run and however often the monitor polls, what is *)
(* spent on the model for a retailer exceeds max_heal_attempts by less     *)
(* than the number of watchdogs, as long as none died with work done and   *)
(* each had a row to count in.                                             *)
THEOREM HealsWithinBudget == HealthSpec => []HealBudget
<1>1. HealthInv => HealBudget
  <2> SUFFICES ASSUME HealthInv, ended = {}, NEW r \in Retailers
               PROVE  calls[r] <= MaxHeals + Cardinality(Watchdogs) - 1
    BY DEF HealBudget
  <2>1. /\ calls[r] <= Spent(health[r]) + Cardinality(Owing(r))
        /\ Spent(health[r]) + Cardinality(Claiming(r)) <= MaxHeals + Cardinality(Watchdogs) - 1
    BY DEF HealthInv, CallsAccounted
  <2>2. Spent(health[r]) \in Nat /\ calls[r] \in Nat /\ MaxHeals \in Nat
    BY SpentTyped
  <2>3. Owing(r) \in SUBSET Claiming(r) /\ Claiming(r) \in SUBSET Watchdogs
    BY DEF Owing, Claiming, Claims
  <2>4. IsFiniteSet(Claiming(r)) /\ IsFiniteSet(Owing(r)) /\ IsFiniteSet(Watchdogs)
        /\ Cardinality(Owing(r)) <= Cardinality(Claiming(r))
    BY <2>3, HealthAssumption, FS_Subset
  <2>5. Cardinality(Owing(r)) \in Nat /\ Cardinality(Claiming(r)) \in Nat
        /\ Cardinality(Watchdogs) \in Nat
    BY <2>4, FS_CardinalityType
  <2> QED
    BY <2>1, <2>2, <2>4, <2>5
<1> QED
  BY <1>1, HealthInvariant, PTL

-----------------------------------------------------------------------------
(* PortalRates: two alerts about a portal are a throttle apart.            *)

LEMMA PortalInitInv == PortalInit => PortalInv
<1> SUFFICES ASSUME PortalInit PROVE PortalInv
  OBVIOUS
<1>1. LastTick \in Nat /\ 0 \in 0..LastTick
  BY PortalAssumption
<1>2. Len(mails) = 0 /\ mails \in Seq(Portals \X (0..LastTick))
  BY DEF PortalInit
<1>3. /\ watch \in [Portals -> Watches] /\ scrape.pc = "idle" /\ scrape = NoRun
      /\ \A p \in Portals : watch[p].alerted = NeverSent /\ watch[p].failures = 0
      /\ tick = 0
  BY <1>1 DEF PortalInit, Watches, NoRun
<1>4. PortalTypeOK
  BY <1>1, <1>2, <1>3 DEF PortalInit, PortalTypeOK
<1>5. StoreInv /\ RunInv /\ AlertsThrottled
  BY <1>2, <1>3 DEF StoreInv, RunInv, AlertsThrottled, UpTo, KnowsAlerts
<1> QED
  BY <1>4, <1>5 DEF PortalInv

LEMMA MailsTyped ==
  ASSUME PortalInv
  PROVE  /\ Len(mails) \in Nat /\ mails \in Seq(Portals \X (0..LastTick))
         /\ \A i \in 1..Len(mails) : /\ mails[i] \in Portals \X (0..LastTick)
                                     /\ mails[i][1] \in Portals /\ mails[i][2] \in 0..LastTick
                                     /\ mails[i][2] \in Nat
         /\ tick \in 0..LastTick /\ tick \in Nat /\ LastTick \in Nat
<1>1. mails \in Seq(Portals \X (0..LastTick)) /\ tick \in 0..LastTick /\ LastTick \in Nat
  BY PortalAssumption DEF PortalInv, PortalTypeOK
<1>2. \A i \in 1..Len(mails) : mails[i] \in Portals \X (0..LastTick)
  BY <1>1, ElementOfSeq
<1> QED
  BY <1>1, <1>2, LenProperties

LEMMA NoRunShape == NoRun.pc = "idle" /\ \A s \in Runs : s # NoRun
BY DEF NoRun, Runs

LEMMA BeginScrapeStep == ASSUME PortalInv, BeginScrape PROVE PortalInv'
<1> DEFINE s == [pc |-> "scrape", bonus |-> bonus, watch |-> watch,
                 counts |-> [p \in Portals |-> 0], todo |-> Portals]
<1>1. /\ tick < LastTick /\ scrape.pc = "idle" /\ tick' = tick + 1 /\ scrape' = s
      /\ UNCHANGED <<bonus, watch, mails, lost>>
  BY DEF BeginScrape
<1>2. PortalTypeOK /\ StoreInv /\ RunInv /\ AlertsThrottled
  BY DEF PortalInv
<1>3. scrape = NoRun
  BY <1>1, <1>2 DEF RunInv, Runs
<1>4. bonus \in [Portals \X Stores -> Bonuses \cup {NoBonus}] /\ watch \in [Portals -> Watches]
  BY <1>2 DEF PortalTypeOK
<1>5. s \in Runs /\ s.pc = "scrape" /\ s.watch = watch /\ s.todo = Portals
  BY <1>4 DEF Runs
<1> HIDE DEF s
<1>6. tick \in Nat /\ tick + 1 \in 0..LastTick /\ (tick + 1) - 1 = tick
  BY <1>1, MailsTyped
<1>7. PortalTypeOK'
  BY <1>1, <1>2, <1>5, <1>6 DEF PortalTypeOK
<1>8. ~lost => KnowsAlerts(watch, tick) /\ \A i \in 1..Len(mails) : mails[i][2] <= tick
  BY <1>2, <1>3 DEF StoreInv
<1>9. \A i \in 1..Len(mails) : mails[i][2] <= tick /\ mails[i][2] \in Nat
  BY <1>2, MailsTyped DEF StoreInv
<1>10. \A p \in Portals : /\ UpTo(watch[p], tick, tick) /\ watch[p] \in Watches
                          /\ UpTo(watch[p], tick + 1, tick) /\ UpTo(watch[p], tick + 1, tick + 1)
  BY <1>2, <1>6 DEF StoreInv, UpTo, PortalTypeOK, Watches
<1>11. StoreInv'
  <2>1. \A p \in Portals : UpTo(watch[p], tick + 1, tick + 1)
    BY <1>10
  <2>2. \A i \in 1..Len(mails) : mails[i][2] <= tick + 1
    BY <1>6, <1>9
  <2>3. s # NoRun
    BY <1>5, NoRunShape
  <2> QED
    BY <1>1, <2>1, <2>2, <2>3 DEF StoreInv
<1>12. RunInv'
  <2>1. \A p \in Portals : watch[p].failures <= tick /\ UpTo(watch[p], tick + 1, tick)
    BY <1>10 DEF UpTo
  <2>2. ~lost => KnowsAlerts(watch, tick) /\ KnowsAlerts(watch, tick + 1)
    BY <1>8, <1>9 DEF KnowsAlerts
  <2>3. KnowsAlerts(watch, tick)' = KnowsAlerts(watch, tick + 1)
        /\ (tick > 0)' = (tick + 1 > 0)
    BY <1>1 DEF KnowsAlerts
  <2>4. tick' - 1 = tick /\ tick' = tick + 1 /\ tick' > 0
    BY <1>1, <1>6
  <2>5. /\ \A p \in Portals : /\ (watch[p].failures)' <= tick' - 1
                              /\ UpTo(scrape'.watch[p], tick', tick' - 1)
        /\ scrape'.todo = Portals /\ scrape' \in Runs
    BY <1>1, <1>5, <2>1, <2>4
  <2>6. ~lost' => KnowsAlerts(watch, tick - 1)' /\ KnowsAlerts(scrape.watch, tick)'
    BY <1>1, <1>5, <2>2, <2>4 DEF KnowsAlerts
  <2> QED
    BY <2>4, <2>5, <2>6 DEF RunInv
<1>13. AlertsThrottled'
  BY <1>1, <1>2 DEF AlertsThrottled
<1> QED
  BY <1>7, <1>11, <1>12, <1>13 DEF PortalInv

(* A step of the run that leaves the store, and what it watches, alone.    *)
LEMMA RunGoes ==
  ASSUME PortalInv, scrape # NoRun, scrape' \in Runs, UNCHANGED <<tick, bonus, watch, mails, lost>>,
         scrape'.watch = scrape.watch,
         \A p \in Portals : p \in scrape'.todo \/ scrape'.pc = "scrape" =>
                              p \in scrape.todo \/ scrape.pc = "scrape"
  PROVE  PortalInv'
<1>1. PortalTypeOK /\ StoreInv /\ RunInv /\ AlertsThrottled
  BY DEF PortalInv
<1>2. PortalTypeOK'
  BY <1>1 DEF PortalTypeOK, Runs
<1>3. StoreInv'
  BY <1>1, NoRunShape DEF StoreInv, KnowsAlerts
<1>4. RunInv'
  <2>1. tick \in Nat /\ tick - 1 <= tick
    BY MailsTyped
  <2>2. \A p \in Portals : scrape.watch[p].failures \in Nat
    BY <1>1 DEF RunInv, Runs, Watches
  <2>3. \A p \in Portals :
          UpTo(scrape'.watch[p], tick,
               IF p \in scrape'.todo \/ scrape'.pc = "scrape" THEN tick - 1 ELSE tick)
    BY <1>1, <2>1, <2>2 DEF RunInv, UpTo
  <2> QED
    BY <1>1, <2>3 DEF RunInv, KnowsAlerts
<1>5. AlertsThrottled'
  BY <1>1 DEF AlertsThrottled
<1> QED
  BY <1>2, <1>3, <1>4, <1>5 DEF PortalInv

LEMMA ScrapePortalStep == ASSUME PortalInv, ScrapePortal PROVE PortalInv'
<1> DEFINE p == Min(scrape.todo)
<1>1. /\ scrape.pc = "scrape" /\ scrape.todo # {} /\ UNCHANGED <<tick, bonus, watch, mails, lost>>
  BY DEF ScrapePortal
<1>2. scrape # NoRun /\ scrape \in Runs
  BY <1>1, NoRunShape DEF PortalInv, RunInv
<1>3. p \in scrape.todo /\ p \in Portals
  <2>1. scrape.todo \in SUBSET Nat /\ scrape.todo \subseteq Portals
    BY <1>2, PortalAssumption DEF Runs
  <2> QED
    BY <1>1, <2>1, FirstInstant
<1>4. PICK page \in Pages :
        scrape' = [scrape EXCEPT
           !.bonus = [k \in DOMAIN @ |-> IF k[1] = p /\ k[2] \in page.stores
                         THEN Upserted(@[k], page) ELSE @[k]],
           !.counts[p] = Cardinality(page.stores), !.todo = @ \ {p}]
  BY DEF ScrapePortal
<1> HIDE DEF p
<1> DEFINE B == [k \in DOMAIN scrape.bonus |-> IF k[1] = p /\ k[2] \in page.stores
                                                THEN Upserted(scrape.bonus[k], page)
                                                ELSE scrape.bonus[k]]
           C == [scrape.counts EXCEPT ![p] = Cardinality(page.stores)]
<1>5. scrape' = [[[scrape EXCEPT !.bonus = B] EXCEPT !.counts = C] EXCEPT !.todo = scrape.todo \ {p}]
  BY <1>2, <1>4 DEF Runs
<1>6. page.stores \in SUBSET Stores /\ page.rate \in Rates /\ page.was \in Was
  BY DEF Pages
<1>7. \A old \in Bonuses \cup {NoBonus} : Upserted(old, page) \in Bonuses
  <2> SUFFICES ASSUME NEW old \in Bonuses \cup {NoBonus} PROVE Upserted(old, page) \in Bonuses
    OBVIOUS
  <2>1. tick \in 0..LastTick
    BY MailsTyped
  <2> QED
    BY <1>6, <2>1 DEF Upserted, Bonuses
<1>8. B \in [Portals \X Stores -> Bonuses \cup {NoBonus}]
  <2>1. scrape.bonus \in [Portals \X Stores -> Bonuses \cup {NoBonus}]
    BY <1>2 DEF Runs
  <2> QED
    BY <1>7, <2>1
<1>9. C \in [Portals -> Nat]
  <2>1. Cardinality(page.stores) \in Nat
    BY <1>6, PortalAssumption, FS_Subset, FS_CardinalityType
  <2> QED
    BY <1>2, <2>1 DEF Runs
<1> HIDE DEF B, C
<1>10. /\ scrape' \in Runs /\ scrape'.pc = "scrape" /\ scrape'.watch = scrape.watch
  BY <1>1, <1>2, <1>5, <1>8, <1>9 DEF Runs
<1> QED
  BY <1>1, <1>2, <1>10, RunGoes

LEMMA ScrapeDoneStep == ASSUME PortalInv, ScrapeDone PROVE PortalInv'
<1>1. /\ scrape.pc = "scrape" /\ scrape' = [scrape EXCEPT !.pc = "alert", !.todo = Portals]
      /\ UNCHANGED <<tick, bonus, watch, mails, lost>>
  BY DEF ScrapeDone
<1>2. scrape # NoRun /\ scrape \in Runs
  BY <1>1, NoRunShape DEF PortalInv, RunInv
<1>3. scrape' \in Runs /\ scrape'.watch = scrape.watch
  BY <1>1, <1>2 DEF Runs
<1> QED
  BY <1>1, <1>2, <1>3, RunGoes

(* An alert due, or not, about the first portal left: what is watched of   *)
(* it becomes v.                                                           *)
LEMMA AlertGoes ==
  ASSUME PortalInv, scrape.pc = "alert", NEW p \in Portals, p \in scrape.todo, NEW v \in Watches,
         v.alerted \in {scrape.watch[p].alerted, tick}, v.failures <= scrape.watch[p].failures + 1,
         scrape' = [scrape EXCEPT !.watch[p] = v, !.todo = @ \ {p}],
         UNCHANGED <<tick, bonus, watch, lost>>,
         \/ v.alerted = scrape.watch[p].alerted /\ mails' = mails
         \/ /\ v.alerted = tick /\ mails' = Append(mails, <<p, tick>>)
            /\ ~WithinThrottle(scrape.watch[p].alerted)
  PROVE  PortalInv'
<1>1. PortalTypeOK /\ StoreInv /\ RunInv /\ AlertsThrottled
  BY DEF PortalInv
<1>2. scrape # NoRun /\ scrape \in Runs
  BY <1>1, NoRunShape DEF RunInv
<1> DEFINE W == [scrape.watch EXCEPT ![p] = v]
<1>3. scrape' = [[scrape EXCEPT !.watch = W] EXCEPT !.todo = scrape.todo \ {p}]
  BY <1>2 DEF Runs
<1>4. /\ scrape.watch \in [Portals -> Watches] /\ W \in [Portals -> Watches]
      /\ W[p] = v /\ \A q \in Portals \ {p} : W[q] = scrape.watch[q]
      /\ scrape.watch[p] \in Watches
  BY <1>2 DEF Runs
<1> HIDE DEF W
<1>5. /\ scrape' \in Runs /\ scrape'.watch = W /\ scrape'.todo = scrape.todo \ {p}
      /\ scrape'.pc = "alert"
  BY <1>2, <1>3, <1>4 DEF Runs
<1>6. /\ Len(mails) \in Nat /\ tick \in Nat /\ tick \in 0..LastTick /\ tick > 0
      /\ mails \in Seq(Portals \X (0..LastTick))
      /\ \A i \in 1..Len(mails) : mails[i][1] \in Portals /\ mails[i][2] \in Nat
      /\ \A i \in 1..Len(mails) : mails[i][2] <= tick
  BY <1>1, <1>2, MailsTyped DEF StoreInv, RunInv
<1>7. /\ UpTo(scrape.watch[p], tick, tick - 1)
      /\ \A q \in Portals : q \in scrape'.todo => UpTo(scrape.watch[q], tick, tick - 1)
      /\ \A q \in Portals : watch[q].failures <= tick - 1
      /\ ~lost => KnowsAlerts(watch, tick - 1) /\ KnowsAlerts(scrape.watch, tick)
  BY <1>1, <1>2, <1>5 DEF RunInv
<1>8. \A q \in Portals : UpTo(scrape.watch[q], tick, tick)
  <2> TAKE q \in Portals
  <2>1. UpTo(scrape.watch[q], tick,
             IF q \in scrape.todo \/ scrape.pc = "scrape" THEN tick - 1 ELSE tick)
    BY <1>1, <1>2 DEF RunInv
  <2>2. scrape.watch[q].failures \in Nat
    BY <1>4, PortalAssumption DEF Watches
  <2> QED
    BY <1>6, <2>1, <2>2 DEF UpTo
<1>9. UpTo(v, tick, tick)
  BY <1>4, <1>6, <1>7 DEF UpTo, Watches
<1>10. \A q \in Portals : UpTo(W[q], tick, IF q \in scrape'.todo THEN tick - 1 ELSE tick)
  BY <1>4, <1>5, <1>7, <1>8, <1>9
<1>11. CASE v.alerted = scrape.watch[p].alerted /\ mails' = mails
  <2>1. PortalTypeOK' /\ AlertsThrottled'
    BY <1>1, <1>5, <1>11 DEF PortalTypeOK, AlertsThrottled
  <2>2. StoreInv'
    BY <1>1, <1>5, <1>11, NoRunShape DEF StoreInv
  <2>3. \A q \in Portals : W[q].alerted = scrape.watch[q].alerted
    BY <1>4, <1>11
  <2>4. ~lost => KnowsAlerts(watch, tick - 1) /\ KnowsAlerts(W, tick)
    BY <1>6, <1>7, <2>3 DEF KnowsAlerts
  <2>5. RunInv'
    BY <1>5, <1>6, <1>7, <1>10, <1>11, <2>4 DEF RunInv, KnowsAlerts
  <2> QED
    BY <2>1, <2>2, <2>5 DEF PortalInv
<1>12. CASE /\ v.alerted = tick /\ mails' = Append(mails, <<p, tick>>)
            /\ ~WithinThrottle(scrape.watch[p].alerted)
  <2>1. /\ mails' \in Seq(Portals \X (0..LastTick)) /\ Len(mails') = Len(mails) + 1
        /\ \A i \in 1..Len(mails) : mails'[i] = mails[i]
        /\ mails'[Len(mails) + 1] = <<p, tick>>
    BY <1>6, <1>12, AppendProperties
  <2>2. \A i \in 1..Len(mails') : i \in 1..Len(mails) \/ i = Len(mails) + 1
    BY <1>6, <2>1
  <2>3. mails'[Len(mails) + 1][1] = p /\ mails'[Len(mails) + 1][2] = tick
    BY <2>1
  <2>4. PortalTypeOK'
    BY <1>1, <1>5, <2>1 DEF PortalTypeOK
  <2>5. \A i \in 1..Len(mails') : mails'[i][2] <= tick
    <3> SUFFICES ASSUME NEW i \in 1..Len(mails') PROVE mails'[i][2] <= tick
      OBVIOUS
    <3>1. i \in 1..Len(mails) => mails'[i][2] = mails[i][2]
      BY <2>1
    <3> QED
      BY <1>6, <2>2, <2>3, <3>1
  <2>6. StoreInv'
    BY <1>1, <1>5, <2>5, NoRunShape DEF StoreInv
  <2>7. ASSUME ~lost, NEW i \in 1..Len(mails), mails[i][1] = p
        PROVE  mails[i][2] + Throttle <= tick
    <3>1. scrape.watch[p].alerted # NeverSent /\ mails[i][2] <= scrape.watch[p].alerted
      BY <1>6, <1>7, <2>7 DEF KnowsAlerts
    <3>2. scrape.watch[p].alerted \in Nat /\ Throttle \in Nat
      <4>1. LastTick \in Nat /\ Throttle \in Nat
        BY PortalAssumption
      <4>2. scrape.watch[p].alerted \in 0..LastTick \cup {NeverSent}
        BY <1>4 DEF Watches
      <4> QED
        BY <3>1, <4>1, <4>2
    <3>3. tick - scrape.watch[p].alerted >= Throttle
      BY <1>6, <1>12, <3>1, <3>2 DEF WithinThrottle
    <3>4. mails[i][2] \in Nat /\ tick \in Nat /\ mails[i][2] <= scrape.watch[p].alerted
      BY <1>6, <3>1
    <3> QED
      BY <3>2, <3>3, <3>4
  <2>8. AlertsThrottled'
    <3> SUFFICES ASSUME ~lost, NEW i \in 1..Len(mails'), NEW j \in 1..Len(mails'), i < j,
                        mails'[i][1] = mails'[j][1]
                 PROVE  mails'[j][2] >= mails'[i][2] + Throttle
      BY DEF AlertsThrottled
    <3>1. i \in 1..Len(mails)
      BY <1>6, <2>1
    <3>2. CASE j \in 1..Len(mails)
      BY <1>1, <2>1, <3>1, <3>2 DEF AlertsThrottled
    <3>3. CASE j = Len(mails) + 1
      <4>1. mails'[j][2] = tick /\ mails[i][1] = p /\ mails'[i][2] = mails[i][2]
        BY <2>1, <2>3, <3>1, <3>3
      <4> QED
        BY <1>6, <2>7, <3>1, <4>1, PortalAssumption
    <3> QED
      BY <2>2, <3>2, <3>3
  <2>9. ~lost => \A i \in 1..Len(mails') : mails'[i][2] <= tick - 1 =>
                   /\ watch[mails'[i][1]].alerted # NeverSent
                   /\ mails'[i][2] <= watch[mails'[i][1]].alerted
    <3>1. ~(tick <= tick - 1)
      BY <1>6
    <3> QED
      BY <1>7, <2>1, <2>2, <2>3, <3>1 DEF KnowsAlerts
  <2>10. ~lost => \A i \in 1..Len(mails') : mails'[i][2] <= tick =>
                   /\ W[mails'[i][1]].alerted # NeverSent
                   /\ mails'[i][2] <= W[mails'[i][1]].alerted
    <3>1. tick # NeverSent /\ W[p].alerted = tick
      BY <1>4, <1>6, <1>12, PortalAssumption
    <3> SUFFICES ASSUME ~lost, NEW i \in 1..Len(mails')
                 PROVE  /\ W[mails'[i][1]].alerted # NeverSent
                        /\ mails'[i][2] <= W[mails'[i][1]].alerted
      OBVIOUS
    <3>2. mails'[i][1] = p => mails'[i][2] <= tick
      BY <2>5
    <3>3. ASSUME mails'[i][1] # p
          PROVE  /\ W[mails'[i][1]].alerted # NeverSent
                 /\ mails'[i][2] <= W[mails'[i][1]].alerted
      <4>1. i \in 1..Len(mails)
        BY <2>2, <2>3, <3>3
      <4>2. mails'[i] = mails[i] /\ mails[i][1] \in Portals \ {p} /\ mails[i][2] <= tick
        BY <1>6, <2>1, <3>3, <4>1
      <4> QED
        BY <1>4, <1>7, <4>1, <4>2 DEF KnowsAlerts
    <3> QED
      BY <3>1, <3>2, <3>3
  <2>11. RunInv'
    BY <1>5, <1>6, <1>7, <1>10, <2>9, <2>10 DEF RunInv, KnowsAlerts
  <2> QED
    BY <2>4, <2>6, <2>8, <2>11 DEF PortalInv
<1> QED
  BY <1>11, <1>12

LEMMA AlertStep == ASSUME PortalInv, Alert PROVE PortalInv'
<1> DEFINE p == Min(scrape.todo)
           w == scrape.watch[p]
           failed == [w EXCEPT !.failures = @ + 1]
           Goes(v) == scrape' = [scrape EXCEPT !.watch[p] = v, !.todo = @ \ {p}]
<1>1. /\ scrape.pc = "alert" /\ scrape.todo # {} /\ UNCHANGED <<tick, bonus, watch, lost>>
      /\ \/ Goes([failures |-> 0, alerted |-> w.alerted]) /\ UNCHANGED mails
         \/ Goes(failed) /\ UNCHANGED mails
         \/ /\ ~WithinThrottle(w.alerted)
            /\ Goes([failed EXCEPT !.alerted = tick]) /\ mails' = Append(mails, <<p, tick>>)
  BY DEF Alert, AlertKeeping
<1>2. scrape # NoRun /\ scrape \in Runs /\ RunInv
  BY <1>1, NoRunShape DEF PortalInv, RunInv
<1>3. p \in scrape.todo /\ p \in Portals
  <2>1. scrape.todo \in SUBSET Nat /\ scrape.todo \subseteq Portals
    BY <1>2, PortalAssumption DEF Runs
  <2> QED
    BY <1>1, <2>1, FirstInstant
<1> HIDE DEF p
<1>4. w \in Watches /\ UpTo(w, tick, tick - 1) /\ tick \in 0..LastTick /\ LastTick \in Nat
      /\ tick > 0
  BY <1>2, <1>3, MailsTyped DEF RunInv, Runs
<1> HIDE DEF w
<1>5. w.failures \in Nat /\ w.failures + 1 \in 0..LastTick /\ w.alerted \in 0..LastTick \cup {NeverSent}
  BY <1>4 DEF UpTo, Watches
<1>6. failed \in Watches /\ failed.failures = w.failures + 1 /\ failed.alerted = w.alerted
  BY <1>4, <1>5 DEF Watches
<1>7. CASE Goes([failures |-> 0, alerted |-> w.alerted]) /\ UNCHANGED mails
  <2> DEFINE v == [failures |-> 0, alerted |-> w.alerted]
  <2>1. v \in Watches /\ v.failures = 0 /\ v.alerted = w.alerted
    BY <1>4, <1>5 DEF Watches
  <2> HIDE DEF v
  <2>2. Goes(v) /\ mails' = mails
    BY <1>7 DEF v
  <2>3. v.failures <= w.failures + 1
    BY <1>5, <2>1
  <2> QED
    BY <1>1, <1>3, <2>1, <2>2, <2>3, AlertGoes DEF w
<1> HIDE DEF failed
<1>8. CASE Goes(failed) /\ UNCHANGED mails
  <2>1. failed.failures <= w.failures + 1
    BY <1>5, <1>6
  <2> QED
    BY <1>1, <1>3, <1>6, <1>8, <2>1, AlertGoes DEF w
<1>9. CASE /\ ~WithinThrottle(w.alerted) /\ Goes([failed EXCEPT !.alerted = tick])
           /\ mails' = Append(mails, <<p, tick>>)
  <2> DEFINE v == [failed EXCEPT !.alerted = tick]
  <2>1. v \in Watches /\ v.failures = w.failures + 1 /\ v.alerted = tick
    BY <1>4, <1>6 DEF Watches
  <2> HIDE DEF v
  <2>2. Goes(v)
    BY <1>9 DEF v
  <2>3. v.failures <= w.failures + 1
    BY <1>5, <2>1
  <2> QED
    BY <1>1, <1>3, <1>9, <2>1, <2>2, <2>3, AlertGoes DEF w
<1> QED
  BY <1>1, <1>7, <1>8, <1>9

LEMMA CommitScrapeStep == ASSUME PortalInv, CommitScrape PROVE PortalInv'
<1>1. /\ scrape.pc = "alert" /\ bonus' = scrape.bonus /\ watch' = scrape.watch
      /\ scrape' = NoRun /\ UNCHANGED <<tick, mails, lost>> /\ scrape.todo = {}
  BY DEF CommitScrape
<1>2. scrape # NoRun /\ scrape \in Runs /\ RunInv /\ StoreInv /\ PortalTypeOK /\ AlertsThrottled
  BY <1>1, NoRunShape DEF PortalInv, RunInv
<1>3. PortalTypeOK' /\ RunInv' /\ AlertsThrottled'
  BY <1>1, <1>2, NoRunShape DEF PortalTypeOK, RunInv, AlertsThrottled, Runs
<1>4. \A p \in Portals : UpTo(scrape.watch[p], tick, tick)
  BY <1>1, <1>2 DEF RunInv
<1>5. StoreInv'
  BY <1>1, <1>2, <1>4 DEF StoreInv, RunInv, KnowsAlerts
<1> QED
  BY <1>3, <1>5 DEF PortalInv

LEMMA AbortScrapeStep == ASSUME PortalInv, AbortScrape PROVE PortalInv'
<1>1. /\ scrape' = NoRun /\ UNCHANGED <<tick, bonus, watch, mails>> /\ scrape.pc # "idle"
      /\ lost' = (lost \/ \E i \in 1..Len(mails) : mails[i][2] = tick)
  BY DEF AbortScrape
<1>2. scrape # NoRun /\ RunInv /\ StoreInv /\ PortalTypeOK /\ AlertsThrottled
  BY <1>1, NoRunShape DEF PortalInv, RunInv
<1>3. PortalTypeOK' /\ RunInv' /\ AlertsThrottled'
  BY <1>1, <1>2, NoRunShape DEF PortalTypeOK, RunInv, AlertsThrottled
<1>4. ~lost' => KnowsAlerts(watch, tick)
  <2> SUFFICES ASSUME ~lost' PROVE KnowsAlerts(watch, tick)
    OBVIOUS
  <2>1. \A i \in 1..Len(mails) : mails[i][2] <= tick - 1
    <3> TAKE i \in 1..Len(mails)
    <3>1. mails[i][2] # tick /\ mails[i][2] <= tick /\ mails[i][2] \in Nat /\ tick \in Nat
      BY <1>1, <1>2, MailsTyped DEF StoreInv
    <3> QED
      BY <3>1
  <2> QED
    BY <1>1, <1>2, <2>1 DEF RunInv, KnowsAlerts
<1>5. StoreInv'
  BY <1>1, <1>2, <1>4 DEF StoreInv, KnowsAlerts
<1> QED
  BY <1>3, <1>5 DEF PortalInv

LEMMA PortalInvStep == PortalInv /\ [PortalNext]_portalVars => PortalInv'
<1> SUFFICES ASSUME PortalInv, [PortalNext]_portalVars PROVE PortalInv'
  OBVIOUS
<1>1. CASE UNCHANGED portalVars
  BY <1>1 DEF portalVars, PortalInv, PortalTypeOK, StoreInv, RunInv, AlertsThrottled, KnowsAlerts
<1> QED
  BY <1>1, BeginScrapeStep, ScrapePortalStep, ScrapeDoneStep, AlertStep, CommitScrapeStep,
     AbortScrapeStep DEF PortalNext

LEMMA PortalInvariant == PortalSpec => []PortalInv
<1> QED
  BY PortalInitInv, PortalInvStep, PTL DEF PortalSpec

(* What the store, the run and the history of alerts are typed to be; a    *)
(* portal never counts more failures than there were ticks.                *)
THEOREM PortalTypes == PortalSpec => []PortalTypeOK
<1>1. PortalInv => PortalTypeOK
  BY DEF PortalInv
<1> QED
  BY <1>1, PortalInvariant, PTL

(* However portals fail and recover and whichever runs are rolled back     *)
(* before they mailed, two alerts about a portal are a throttle apart.     *)
THEOREM AlertsAreThrottled == PortalSpec => []AlertsThrottled
<1>1. PortalInv => AlertsThrottled
  BY DEF PortalInv
<1> QED
  BY <1>1, PortalInvariant, PTL

(* The offers there are to a store in an order: of a portal one each, by   *)
(* rate and then by name, so that no two are alike.                        *)
Offers(s, members, enabled) ==
    {Cta(p, s, p \in members, enabled) : p \in {q \in Portals : IsFresh(bonus[<<q, s>>])}}
Better(ctas) == {cd \in ctas \X ctas : CtaBefore(cd[1], cd[2])}

(* Offers are ordered by rate, those of a rate by the portal's name.       *)
LEMMA CtaOrder ==
  ASSUME NEW u, NEW v, NEW w,
         u.rate \in Nat, v.rate \in Nat, w.rate \in Nat,
         u.portal \in Nat, v.portal \in Nat, w.portal \in Nat
  PROVE  /\ ~CtaBefore(u, u)
         /\ CtaBefore(u, v) /\ CtaBefore(v, w) => CtaBefore(u, w)
         /\ CtaBefore(u, v) => u.rate >= v.rate
         /\ u.portal # v.portal => CtaBefore(u, v) \/ CtaBefore(v, u)
BY DEF CtaBefore

LEMMA BonusTyped ==
  ASSUME PortalTypeOK, NEW s \in Stores, NEW p \in Portals, bonus[<<p, s>>] # NoBonus
  PROVE  bonus[<<p, s>>].rate \in Nat /\ bonus[<<p, s>>].verified \in Nat
<1> DEFINE b == bonus[<<p, s>>]
<1>1. b \in Bonuses
  BY DEF PortalTypeOK
<1> HIDE DEF b
<1>2. b.rate \in Rates /\ b.verified \in 0..LastTick
  BY <1>1 DEF Bonuses
<1>3. Rates \subseteq Nat /\ 0..LastTick \subseteq Nat
  BY PortalAssumption
<1> QED
  BY <1>2, <1>3 DEF b

LEMMA OfferTyped ==
  ASSUME PortalTypeOK, NEW s \in Stores, NEW members \in SUBSET Portals, NEW enabled,
         NEW p \in Portals, IsFresh(bonus[<<p, s>>])
  PROVE  /\ bonus[<<p, s>>] # NoBonus /\ bonus[<<p, s>>].rate \in Nat
         /\ bonus[<<p, s>>].verified \in Nat /\ tick - bonus[<<p, s>>].verified <= Staleness
         /\ Cta(p, s, p \in members, enabled) \in Offers(s, members, enabled)
         /\ Cta(p, s, p \in members, enabled).portal = p
         /\ Cta(p, s, p \in members, enabled).rate = bonus[<<p, s>>].rate
<1>1. bonus[<<p, s>>] # NoBonus /\ tick - bonus[<<p, s>>].verified <= Staleness
  BY DEF IsFresh
<1>2. bonus[<<p, s>>].rate \in Nat /\ bonus[<<p, s>>].verified \in Nat
  BY <1>1, BonusTyped
<1>3. Cta(p, s, p \in members, enabled) \in Offers(s, members, enabled)
  BY DEF Offers
<1> QED
  BY <1>1, <1>2, <1>3 DEF Cta

LEMMA OffersInOrder ==
  ASSUME PortalTypeOK, NEW s \in Stores, NEW members \in SUBSET Portals, NEW enabled,
         NEW ctas, ctas = Offers(s, members, enabled)
  PROVE  /\ IsFiniteSet(ctas)
         /\ \A u \in ctas : u.rate \in Nat /\ u.portal \in Portals /\ IsFresh(bonus[<<u.portal, s>>])
               /\ u.rate = bonus[<<u.portal, s>>].rate
               /\ u = Cta(u.portal, s, u.portal \in members, enabled)
         /\ \A u, v \in ctas : <<u, v>> \in Better(ctas) <=> CtaBefore(u, v)
         /\ \A u \in ctas : <<u, u>> \notin Better(ctas)
         /\ \A u, v, w \in ctas :
               <<u, v>> \in Better(ctas) /\ <<v, w>> \in Better(ctas) => <<u, w>> \in Better(ctas)
         /\ \A u, v \in ctas : u = v \/ <<u, v>> \in Better(ctas) \/ <<v, u>> \in Better(ctas)
<1> DEFINE Fresh == {q \in Portals : IsFresh(bonus[<<q, s>>])}
           f == [p \in Fresh |-> Cta(p, s, p \in members, enabled)]
<1>1. IsFiniteSet(ctas)
  <2>1. IsFiniteSet(Fresh)
    BY PortalAssumption, FS_Subset
  <2>2. f \in Surjection(Fresh, ctas)
    BY DEF Surjection, Offers
  <2> QED
    BY <2>1, <2>2, FS_Surjection
<1>2. ASSUME NEW u \in ctas
      PROVE  /\ u.rate \in Nat /\ u.portal \in Portals /\ IsFresh(bonus[<<u.portal, s>>])
             /\ u.rate = bonus[<<u.portal, s>>].rate
             /\ u = Cta(u.portal, s, u.portal \in members, enabled)
  <2>1. PICK p \in Portals : IsFresh(bonus[<<p, s>>]) /\ u = Cta(p, s, p \in members, enabled)
    BY DEF Offers
  <2>2. u.portal = p /\ u.rate = bonus[<<p, s>>].rate /\ bonus[<<p, s>>].rate \in Nat
    BY <2>1, OfferTyped
  <2> QED
    BY <2>1, <2>2
<1>3. \A u, v \in ctas : <<u, v>> \in Better(ctas) <=> CtaBefore(u, v)
  BY DEF Better
<1>4. \A u \in ctas : u.portal \in Nat
  BY <1>2, PortalAssumption
<1>5. \A u \in ctas : ~CtaBefore(u, u)
  BY <1>2, <1>4, CtaOrder
<1>6. ASSUME NEW u \in ctas, NEW v \in ctas, NEW w \in ctas, CtaBefore(u, v), CtaBefore(v, w)
      PROVE  CtaBefore(u, w)
  <2>1. /\ u.rate \in Nat /\ v.rate \in Nat /\ w.rate \in Nat
        /\ u.portal \in Nat /\ v.portal \in Nat /\ w.portal \in Nat
    BY <1>2, <1>4
  <2> QED
    BY <1>6, <2>1, CtaOrder
<1>7. ASSUME NEW u \in ctas, NEW v \in ctas PROVE u = v \/ CtaBefore(u, v) \/ CtaBefore(v, u)
  <2>1. CASE u.portal = v.portal
    BY <1>2, <2>1
  <2>2. CASE u.portal # v.portal
    BY <1>2, <1>4, <2>2, CtaOrder
  <2> QED
    BY <2>1, <2>2
<1> QED
  BY <1>1, <1>2, <1>3, <1>5, <1>6, <1>7

(* Of a store, whatever has been scraped: an offer names a fresh rate, and *)
(* one that is left out is left out for MaxCtas offers at least as good.   *)
LEMMA OffersOfAStore ==
  ASSUME PortalTypeOK, NEW s \in Stores, NEW members \in SUBSET Portals, NEW enabled,
         NEW list, list = CtaList(s, members, enabled), NEW p \in Portals,
         NEW on, on <=> \E i \in 1..Len(list) : list[i].portal = p
  PROVE  /\ on => bonus[<<p, s>>] # NoBonus /\ tick <= bonus[<<p, s>>].verified + Staleness
         /\ ~on /\ bonus[<<p, s>>] # NoBonus /\ bonus[<<p, s>>].verified + Staleness >= tick =>
               Len(list) = MaxCtas /\ \A i \in 1..MaxCtas : list[i].rate >= bonus[<<p, s>>].rate
<1> DEFINE ctas == Offers(s, members, enabled)
<1>1. /\ IsFiniteSet(ctas)
      /\ \A u \in ctas : u.rate \in Nat /\ u.portal \in Portals /\ IsFresh(bonus[<<u.portal, s>>])
      /\ \A u, v \in ctas : <<u, v>> \in Better(ctas) <=> CtaBefore(u, v)
      /\ \A u \in ctas : <<u, u>> \notin Better(ctas)
      /\ \A u, v, w \in ctas :
            <<u, v>> \in Better(ctas) /\ <<v, w>> \in Better(ctas) => <<u, w>> \in Better(ctas)
      /\ \A u, v \in ctas : u = v \/ <<u, v>> \in Better(ctas) \/ <<v, u>> \in Better(ctas)
  <2> HIDE DEF ctas
  <2> QED
    BY OffersInOrder DEF ctas
<1>2. list = FirstOf(ctas, MaxCtas, Better(ctas)) /\ MaxCtas \in Nat /\ Staleness \in Nat
  BY PortalAssumption DEF CtaList, Listed, Better, Offers
<1> HIDE DEF ctas
<1>3. /\ Len(list) \in Nat
      /\ \A i \in 1..Len(list) : list[i] \in ctas
      /\ \A x \in ctas : (\A i \in 1..Len(list) : list[i] # x) =>
            Len(list) = MaxCtas /\ \A i \in 1..Len(list) : <<list[i], x>> \in Better(ctas)
  BY <1>1, <1>2, FirstAreBefore
<1>4. tick \in Nat
  BY PortalAssumption DEF PortalTypeOK
<1>5. ASSUME on PROVE bonus[<<p, s>>] # NoBonus /\ tick <= bonus[<<p, s>>].verified + Staleness
  <2>1. PICK i \in 1..Len(list) : list[i].portal = p
    BY <1>5
  <2>2. IsFresh(bonus[<<p, s>>])
    BY <1>1, <1>3, <2>1
  <2>3. bonus[<<p, s>>] # NoBonus /\ bonus[<<p, s>>].verified \in Nat
        /\ tick - bonus[<<p, s>>].verified <= Staleness
    BY <2>2, OfferTyped
  <2> QED
    BY <1>2, <1>4, <2>3
<1>6. ASSUME ~on, bonus[<<p, s>>] # NoBonus, bonus[<<p, s>>].verified + Staleness >= tick
      PROVE  Len(list) = MaxCtas /\ \A i \in 1..MaxCtas : list[i].rate >= bonus[<<p, s>>].rate
  <2> DEFINE c == Cta(p, s, p \in members, enabled)
  <2>1. bonus[<<p, s>>].verified \in Nat /\ bonus[<<p, s>>].rate \in Nat
    BY <1>6, BonusTyped
  <2>2. IsFresh(bonus[<<p, s>>])
    BY <1>2, <1>4, <1>6, <2>1 DEF IsFresh
  <2>3. c \in ctas /\ c.portal = p /\ c.rate = bonus[<<p, s>>].rate
    BY <2>2, OfferTyped DEF ctas
  <2> HIDE DEF c
  <2>4. \A i \in 1..Len(list) : list[i] # c
    BY <1>6, <2>3
  <2>5. Len(list) = MaxCtas /\ \A i \in 1..Len(list) : <<list[i], c>> \in Better(ctas)
    BY <1>3, <2>3, <2>4
  <2>6. ASSUME NEW i \in 1..MaxCtas PROVE list[i].rate >= bonus[<<p, s>>].rate
    <3>1. list[i] \in ctas /\ CtaBefore(list[i], c)
      BY <1>1, <1>3, <2>3, <2>5
    <3>2. \A u \in ctas : u.rate \in Nat /\ u.portal \in Nat
      BY <1>1, PortalAssumption
    <3>3. list[i].rate >= c.rate
      BY <2>3, <3>1, <3>2, CtaOrder
    <3> QED
      BY <2>3, <3>3
  <2> QED
    BY <2>5, <2>6
<1> QED
  BY <1>5, <1>6

(* Whatever is scraped, lost or rolled back, no stale rate is offered and  *)
(* no better fresh one is held back.                                       *)
THEOREM NoStaleOffer == PortalSpec => []OffersAreCurrent
<1>1. PortalTypeOK => OffersAreCurrent
  <2> SUFFICES ASSUME PortalTypeOK, NEW s \in Stores, NEW members \in SUBSET Portals,
                      NEW enabled \in Enabled, NEW p \in Portals
               PROVE  LET list == CtaList(s, members, enabled)
                          on == \E i \in 1..Len(list) : list[i].portal = p
                          b == bonus[<<p, s>>]
                      IN  /\ on => b # NoBonus /\ tick <= b.verified + Staleness
                          /\ ~on /\ b # NoBonus /\ b.verified + Staleness >= tick =>
                                Len(list) = MaxCtas /\ \A i \in 1..MaxCtas : list[i].rate >= b.rate
    BY DEF OffersAreCurrent
  <2> QED
    BY OffersOfAStore
<1>2. PortalInv => PortalTypeOK
  BY DEF PortalInv
<1> QED
  BY <1>1, <1>2, PortalInvariant, PTL

-----------------------------------------------------------------------------
(* DiscountPrograms: the best offer of a scope is on offer, and only       *)
(* failures deactivate a program.                                          *)

-----------------------------------------------------------------------------
LEMMA SavingsTyped ==
  ASSUME NEW p \in Programs, NEW prices \in Prices
  PROVE  Savings(p, prices) \in Nat
<1> DEFINE price == IF p.retailer \in DOMAIN prices THEN prices[p.retailer]
                    ELSE IF DOMAIN prices = {} THEN 0
                         ELSE Max({prices[r] : r \in DOMAIN prices})
           S == {prices[r] : r \in DOMAIN prices}
<1>1. IsFiniteSet(DOMAIN prices) /\ \A r \in DOMAIN prices : prices[r] \in Nat
  BY ProgramAssumption
<1>2. S \in SUBSET Nat /\ IsFiniteSet(S) /\ (DOMAIN prices # {} => S # {})
  <2>1. S \in SUBSET Nat /\ (DOMAIN prices # {} => S # {})
    BY <1>1
  <2>2. IsFiniteSet({prices[r] : r \in DOMAIN prices})
    <3> DEFINE f == [r \in DOMAIN prices |-> prices[r]]
    <3>1. f \in Surjection(DOMAIN prices, S)
      BY DEF Surjection
    <3> QED
      BY <1>1, <3>1, FS_Surjection
  <2> QED
    BY <2>1, <2>2
<1>3. DOMAIN prices # {} => Max(S) \in Nat
  BY <1>2, GreatestOfFinite
<1>4. price \in Nat
  BY <1>1, <1>3
<1>5. p.value \in Nat /\ p.cap \in Nat
  BY ProgramAssumption
<1> HIDE DEF price
<1>6. price * p.value \in Nat /\ 100 * p.cap \in Nat /\ 100 * p.value \in Nat
  BY <1>4, <1>5, SMTT(30)
<1>7. /\ Savings(p, prices) = CASE p.scope # "product"       -> 0
                                [] p.kind = "percentage"     -> NoneOr(100 * p.cap, price * p.value)
                                [] p.kind = "fixed_amount"   -> NoneOr(100 * p.cap, 100 * p.value)
                                [] OTHER -> 0
  BY DEF Savings, price
<1>8. \A a, b \in Nat : NoneOr(a, b) \in Nat
  BY DEF NoneOr
<1> QED
  BY <1>6, <1>7, <1>8

LEMMA RankOrder ==
  ASSUME NEW prices \in Prices
  PROVE  /\ \A p \in Programs : ~Outranks(p, p, prices)
         /\ \A p, q, r \in Programs :
              Outranks(p, q, prices) /\ Outranks(q, r, prices) => Outranks(p, r, prices)
<1>1. \A p \in Programs : Savings(p, prices) \in Nat /\ p.value \in Nat /\ p.name \in Nat
  BY SavingsTyped, ProgramAssumption
<1> QED
  BY <1>1 DEF Outranks

LEMMA KeyRows ==
  ASSUME NEW p \in Programs, NEW q \in Programs, NEW prices, Key(p) = Key(q)
  PROVE  Slot(p) = Slot(q) /\ Savings(p, prices) = Savings(q, prices)
<1>1. p.retailer = q.retailer /\ p.scope = q.scope /\ p.kind = q.kind /\ p.value = q.value
      /\ p.cap = q.cap
  BY ProgramAssumption DEF Key
<1> QED
  BY <1>1 DEF Slot, Savings

(* What is kept of the rows of a retailer and scope: one, and the best.    *)
LEMMA DedupKeepsBest ==
  ASSUME NEW some \in SUBSET Programs, NEW prices \in Prices, NEW p \in some,
         \A q, r \in some : Key(q) = Key(r) => q = r
  PROVE  /\ \A q, r \in Dedup(some, prices) : Slot(q) = Slot(r) => q = r
         /\ \E q \in Dedup(some, prices) :
              Slot(q) = Slot(p) /\ Savings(q, prices) >= Savings(p, prices)
<1>1. \A q \in some : Savings(q, prices) \in Nat /\ q.value \in Nat /\ q.name \in Nat
  BY SavingsTyped, ProgramAssumption
<1>2. ASSUME NEW q \in Dedup(some, prices), NEW r \in Dedup(some, prices), Slot(q) = Slot(r)
      PROVE  q = r
  <2>1. q \in some /\ r \in some /\ ~Outranks(q, r, prices) /\ ~Outranks(r, q, prices)
    BY <1>2 DEF Dedup
  <2>2. q.name = r.name
    BY <1>1, <2>1 DEF Outranks
  <2>3. Key(q) = Key(r)
    BY <1>2, <2>2 DEF Key, Slot
  <2> QED
    BY <2>1, <2>3
<1>3. \E q \in Dedup(some, prices) : Slot(q) = Slot(p) /\ Savings(q, prices) >= Savings(p, prices)
  <2> DEFINE S == {q \in some : Slot(q) = Slot(p)}
             R == {qq \in S \X S : Outranks(qq[1], qq[2], prices)}
  <2>1. S \in SUBSET Programs /\ IsFiniteSet(S) /\ p \in S
    BY ProgramAssumption, FS_Subset
  <2>2. \A q, r \in S : <<q, r>> \in R <=> Outranks(q, r, prices)
    OBVIOUS
  <2> HIDE DEF R
  <2>3. /\ \A q \in S : <<q, q>> \notin R
        /\ \A q, r, s \in S : <<q, r>> \in R /\ <<r, s>> \in R => <<q, s>> \in R
    BY <2>1, <2>2, RankOrder
  <2>4. PICK q \in S : \A r \in S : <<r, q>> \notin R
    BY <2>1, <2>3, FinitelyManyBefore
  <2>5. q \in Dedup(some, prices)
    BY <2>2, <2>4 DEF Dedup
  <2>6. ~Outranks(p, q, prices)
    BY <2>1, <2>2, <2>4
  <2>7. Savings(q, prices) >= Savings(p, prices)
    BY <1>1, <2>6 DEF Outranks
  <2> QED
    BY <2>5, <2>7
<1> QED
  BY <1>2, <1>3

(* In whatever order the rows of the programs come, whichever of them are  *)
(* active and whatever the prices: one offer of a retailer and scope, and  *)
(* none withheld that saves more.                                          *)
THEOREM BestIsOffered == DiscountSpec => []BestOfferPerScope
<1>1. BestOfferPerScope
  <2> SUFFICES ASSUME NEW product \in Viewed, NEW prices \in Prices,
                      NEW flags \in SUBSET {p.eligible : p \in Programs},
                      NEW answer \in Eligible(flags, product, prices)
               PROVE  /\ \A p, q \in answer : Slot(p) = Slot(q) => p = q
                      /\ \A p \in Matching(flags, product) : \E q \in answer :
                           Slot(q) = Slot(p) /\ Savings(q, prices) >= Savings(p, prices)
    BY DEF BestOfferPerScope
  <2>1. PICK some \in FirstRows(Matching(flags, product)) : answer = Dedup(some, prices)
    BY DEF Eligible
  <2>2. /\ some \in SUBSET Programs
        /\ \A p \in Matching(flags, product) : \E q \in some : Key(q) = Key(p)
        /\ \A p, q \in some : Key(p) = Key(q) => p = q
    BY <2>1 DEF FirstRows, Matching
  <2>3. ASSUME NEW p \in answer, NEW q \in answer, Slot(p) = Slot(q) PROVE p = q
    <3>1. p \in some
      BY <2>1 DEF Dedup
    <3> QED
      BY <2>1, <2>2, <2>3, <3>1, DedupKeepsBest
  <2>4. ASSUME NEW p \in Matching(flags, product)
        PROVE  \E q \in answer : Slot(q) = Slot(p) /\ Savings(q, prices) >= Savings(p, prices)
    <3>1. PICK r \in some : Key(r) = Key(p)
      BY <2>2
    <3>2. p \in Programs /\ r \in Programs
      BY <2>2 DEF Matching
    <3>3. Slot(r) = Slot(p) /\ Savings(r, prices) = Savings(p, prices)
      BY <3>1, <3>2, KeyRows
    <3> QED
      BY <2>1, <2>2, <3>3, DedupKeepsBest
  <2> QED
    BY <2>3, <2>4
<1> QED
  BY <1>1, PTL

-----------------------------------------------------------------------------
(* A verified check clears the failures, a flagged one keeps them, a       *)
(* failed one adds to them.                                                *)
LEMMA OneMoreCheck ==
  ASSUME NEW log \in Seq(Checks), NEW status \in Checks
  PROVE  /\ Append(log, status) \in Seq(Checks)
         /\ Len(Append(log, status)) = Len(log) + 1
         /\ FailedSince(Append(log, status)) =
              CASE status = "verified" -> {}
                [] status = "flagged"  -> FailedSince(log)
                [] OTHER               -> FailedSince(log) \cup {Len(log) + 1}
         /\ IsFiniteSet(FailedSince(log)) /\ Cardinality(FailedSince(log)) \in Nat
         /\ Cardinality(FailedSince(log)) <= Len(log)
         /\ Len(log) + 1 \notin FailedSince(log)
<1> DEFINE n == Len(log)
           more == Append(log, status)
<1>1. /\ more \in Seq(Checks) /\ Len(more) = n + 1 /\ n \in Nat
      /\ \A i \in 1..n : more[i] = log[i]
      /\ more[n + 1] = status
  BY AppendProperties, LenProperties
<1> HIDE DEF more, n
<1>2. FailedSince(log) = {i \in 1..n : log[i] = "failed" /\ \A j \in i..n : log[j] # "verified"}
  BY DEF FailedSince, n
<1>3. FailedSince(more) =
        {i \in 1..(n + 1) : more[i] = "failed" /\ \A j \in i..(n + 1) : more[j] # "verified"}
  BY <1>1 DEF FailedSince
<1>4. ASSUME NEW i \in 1..n
      PROVE  i \in FailedSince(more) <=> status # "verified" /\ i \in FailedSince(log)
  <2>1. /\ i \in 1..(n + 1) /\ n + 1 \in i..(n + 1) /\ i..n \subseteq i..(n + 1)
        /\ \A j \in i..n : j \in 1..n
        /\ \A j \in i..(n + 1) : j \in i..n \/ j = n + 1
    BY <1>1
  <2> QED
    BY <1>1, <1>2, <1>3, <2>1
<1>5. n + 1 \in FailedSince(more) <=> status = "failed"
  <2>1. n + 1 \in 1..(n + 1) /\ \A j \in (n + 1)..(n + 1) : j = n + 1
    BY <1>1
  <2> QED
    BY <1>1, <1>3, <2>1
<1>6. /\ FailedSince(log) \in SUBSET (1..n) /\ n + 1 \notin FailedSince(log)
      /\ FailedSince(more) \subseteq 1..(n + 1)
      /\ \A i \in 1..(n + 1) : i \in 1..n \/ i = n + 1
  BY <1>1, <1>2, <1>3
<1>7. /\ IsFiniteSet(FailedSince(log)) /\ Cardinality(FailedSince(log)) \in Nat
      /\ Cardinality(FailedSince(log)) <= n
  <2>1. IsFiniteSet(1..n) /\ Cardinality(1..n) = n
    BY <1>1, FS_Interval
  <2> QED
    BY <1>6, <2>1, FS_Subset, FS_CardinalityType
<1>8. FailedSince(more) = CASE status = "verified" -> {}
                            [] status = "flagged"  -> FailedSince(log)
                            [] OTHER               -> FailedSince(log) \cup {n + 1}
  <2>1. CASE status = "verified"
    BY <1>4, <1>5, <1>6, <2>1
  <2>2. CASE status = "flagged"
    <3>1. \A i \in 1..(n + 1) : i \in FailedSince(more) <=> i \in FailedSince(log)
      BY <1>4, <1>5, <1>6, <2>2
    <3>2. FailedSince(log) \subseteq 1..(n + 1)
      BY <1>1, <1>6
    <3>3. FailedSince(more) = FailedSince(log)
      BY <1>6, <3>1, <3>2
    <3> QED
      BY <2>2, <3>3
  <2>3. CASE status = "failed"
    BY <1>4, <1>5, <1>6, <2>3
  <2> QED
    BY <2>1, <2>2, <2>3 DEF Checks
<1> QED
  BY <1>1, <1>6, <1>7, <1>8 DEF more, n

(* Settling a row and logging the check keep the row's count right.        *)
LEMMA SettleCounts ==
  ASSUME NEW row \in ProgramRows, row.active, NEW log \in Seq(Checks), NEW status \in Checks,
         Len(log) < MaxChecks, row.failures = Cardinality(FailedSince(log))
  PROVE  /\ Settle(row, status) \in ProgramRows
         /\ Settle(row, status).failures = Cardinality(FailedSince(Append(log, status)))
         /\ ~Settle(row, status).active => Settle(row, status).failures >= FailureThreshold
<1> DEFINE seen == [row EXCEPT !.stale = FALSE]
           failed == [seen EXCEPT !.failures = @ + 1]
           more == Append(log, status)
<1>1. /\ FailedSince(more) = CASE status = "verified" -> {}
                               [] status = "flagged"  -> FailedSince(log)
                               [] OTHER               -> FailedSince(log) \cup {Len(log) + 1}
      /\ IsFiniteSet(FailedSince(log)) /\ Len(log) + 1 \notin FailedSince(log)
      /\ Cardinality(FailedSince(log)) <= Len(log)
      /\ row.failures \in Nat /\ Len(log) \in Nat
  BY OneMoreCheck, LenProperties DEF ProgramRows
<1>2. MaxChecks \in Nat /\ FailureThreshold \in Nat
  BY ProgramAssumption
<1>3. seen \in ProgramRows /\ seen.active = row.active /\ seen.failures = row.failures
  BY DEF ProgramRows
<1> HIDE DEF seen, more
<1>4. CASE status = "verified"
  <2>1. Settle(row, status) = [seen EXCEPT !.failures = 0]
    BY <1>4 DEF Settle, seen
  <2>2. 0 \in 0..MaxChecks
    BY <1>2
  <2>3. Settle(row, status) \in ProgramRows /\ Settle(row, status).failures = 0
    BY <1>3, <2>1, <2>2 DEF ProgramRows
  <2>4. Settle(row, status).active = seen.active
    BY <1>3, <2>1 DEF ProgramRows
  <2>5. FailedSince(more) = {}
    BY <1>1, <1>4
  <2> QED
    BY <1>3, <2>3, <2>4, <2>5, FS_EmptySet DEF more
<1>5. CASE status = "flagged"
  <2>1. Settle(row, status) = seen
    BY <1>5 DEF Settle, seen
  <2>2. FailedSince(more) = FailedSince(log)
    BY <1>1, <1>5
  <2> QED
    BY <1>3, <2>1, <2>2 DEF more
<1>6. CASE status = "failed"
  <2>1. row.failures + 1 \in 0..MaxChecks
    BY <1>1, <1>2
  <2>2. failed \in ProgramRows /\ failed.failures = row.failures + 1 /\ failed.active = row.active
    BY <1>3, <2>1 DEF ProgramRows
  <2>3. Settle(row, status) =
          [failed EXCEPT !.active = @ /\ failed.failures < FailureThreshold]
    BY <1>6 DEF Settle, seen
  <2> HIDE DEF failed
  <2>4. /\ Settle(row, status) \in ProgramRows /\ Settle(row, status).failures = row.failures + 1
        /\ Settle(row, status).active <=> row.active /\ row.failures + 1 < FailureThreshold
    BY <2>2, <2>3 DEF ProgramRows
  <2>5. FailedSince(more) = FailedSince(log) \cup {Len(log) + 1}
    BY <1>1, <1>6
  <2>6. Cardinality(FailedSince(log) \cup {Len(log) + 1}) = Cardinality(FailedSince(log)) + 1
    <3> HIDE DEF FailedSince
    <3> QED
      BY <1>1, FS_AddElement, Zenon
  <2>7. Cardinality(FailedSince(more)) = row.failures + 1
    BY <2>5, <2>6
  <2> QED
    BY <1>1, <1>2, <2>4, <2>7 DEF more
<1> QED
  BY <1>4, <1>5, <1>6 DEF Checks

LEMMA DiscountInitInv == DiscountInit => DiscountInv
<1> SUFFICES ASSUME DiscountInit PROVE DiscountInv
  OBVIOUS
<1>1. FailedSince(<<>>) = {} /\ Len(<<>>) = 0 /\ <<>> \in Seq(Checks) /\ MaxChecks \in Nat
  BY ProgramAssumption DEF FailedSince
<1>2. /\ state \in [Programs -> ProgramRows] /\ outcomes \in [Programs -> Seq(Checks)]
      /\ \A p \in Programs : outcomes[p] = <<>> /\ state[p].active /\ state[p].failures = 0
  BY <1>1 DEF DiscountInit, ProgramRows
<1>3. CountsFailures(state, outcomes)
  <2>1. \A p \in Programs : FailedSince(outcomes[p]) = {} /\ Len(outcomes[p]) = 0
    BY <1>1, <1>2
  <2>2. \A p \in Programs : Cardinality(FailedSince(outcomes[p])) = 0
    BY <2>1, FS_EmptySet
  <2>3. \A p \in Programs : Len(outcomes[p]) <= MaxChecks
    BY <1>1, <2>1
  <2> QED
    BY <1>2, <2>2, <2>3 DEF CountsFailures
<1>4. batch = NoBatch /\ batch.on = FALSE /\ batch.todo = {}
  BY DEF DiscountInit, NoBatch
<1> QED
  BY <1>3, <1>4 DEF DiscountInv

(* Nothing of a run is left once it is over.                               *)
LEMMA NoRunLeft ==
  ASSUME CountsFailures(state, outcomes)', batch' = NoBatch
  PROVE  DiscountInv'
BY DEF DiscountInv, NoBatch

LEMMA BeginBatchStep == ASSUME DiscountInv, BeginBatch PROVE DiscountInv'
<1> DEFINE b == [on |-> TRUE, todo |-> StalePrograms, tx |-> state, log |-> outcomes]
<1>1. /\ batch' = b /\ UNCHANGED <<state, outcomes>>
      /\ \A p \in Programs : Len(outcomes[p]) < MaxChecks
  BY DEF BeginBatch
<1>2. CountsFailures(state, outcomes) /\ state \in [Programs -> ProgramRows]
      /\ outcomes \in [Programs -> Seq(Checks)]
  BY DEF DiscountInv, CountsFailures
<1>3. StalePrograms \in SUBSET Programs /\ \A p \in StalePrograms : state[p].active
  BY DEF StalePrograms
<1>4. b \in [on : BOOLEAN, todo : SUBSET Programs, tx : [Programs -> ProgramRows],
             log : [Programs -> Seq(Checks)]]
  BY <1>2, <1>3
<1>5. b.on = TRUE /\ b.todo = StalePrograms /\ b.tx = state /\ b.log = outcomes
  OBVIOUS
<1> HIDE DEF b
<1> QED
  BY <1>1, <1>2, <1>3, <1>4, <1>5 DEF DiscountInv, CountsFailures

LEMMA CheckUrlStep == ASSUME DiscountInv, CheckUrl PROVE DiscountInv'
<1> DEFINE p == CHOOSE q \in batch.todo : TRUE
           Batches == [on : BOOLEAN, todo : SUBSET Programs, tx : [Programs -> ProgramRows],
                       log : [Programs -> Seq(Checks)]]
<1>1. /\ batch.on /\ batch \in Batches /\ UNCHANGED <<state, outcomes>>
      /\ CountsFailures(state, outcomes) /\ CountsFailures(batch.tx, batch.log)
      /\ \A q \in batch.todo : batch.tx[q].active /\ Len(batch.log[q]) < MaxChecks
  BY DEF CheckUrl, DiscountInv
<1>2. PICK status \in Checks :
        batch' = [batch EXCEPT !.todo = @ \ {p}, !.tx[p] = Settle(@, status),
                               !.log[p] = Append(@, status)]
  BY DEF CheckUrl
<1>3. p \in batch.todo
  BY DEF CheckUrl
<1> HIDE DEF p
<1> DEFINE row == Settle(batch.tx[p], status)
           more == Append(batch.log[p], status)
<1>4. /\ p \in Programs /\ batch.tx[p] \in ProgramRows /\ batch.log[p] \in Seq(Checks)
      /\ batch.tx[p].active /\ Len(batch.log[p]) < MaxChecks
      /\ batch.tx[p].failures = Cardinality(FailedSince(batch.log[p]))
  BY <1>1, <1>3 DEF CountsFailures
<1>5. /\ row \in ProgramRows /\ row.failures = Cardinality(FailedSince(more))
      /\ ~row.active => row.failures >= FailureThreshold
  BY <1>4, SettleCounts
<1>6. more \in Seq(Checks) /\ Len(more) <= MaxChecks
  BY <1>4, OneMoreCheck, LenProperties, ProgramAssumption
<1> HIDE DEF row, more
<1> DEFINE tx == [batch.tx EXCEPT ![p] = row]
           log == [batch.log EXCEPT ![p] = more]
<1>7. /\ batch'.on = batch.on /\ batch'.todo = batch.todo \ {p}
      /\ batch'.tx = tx /\ batch'.log = log
      /\ batch' \in [on : BOOLEAN, todo : SUBSET Programs, tx : {tx}, log : {log}]
  <2>1. batch' = [[[batch EXCEPT !.todo = batch.todo \ {p}] EXCEPT !.tx = tx] EXCEPT !.log = log]
    BY <1>1, <1>2 DEF row, more
  <2> HIDE DEF tx, log
  <2>2. batch.todo \ {p} \in SUBSET Programs
    BY <1>1
  <2> QED
    BY <1>1, <2>1, <2>2
<1>8. tx \in [Programs -> ProgramRows] /\ log \in [Programs -> Seq(Checks)]
  BY <1>1, <1>5, <1>6
<1>9. \A q \in Programs : IF q = p THEN tx[q] = row /\ log[q] = more
                          ELSE tx[q] = batch.tx[q] /\ log[q] = batch.log[q]
  BY <1>1
<1> HIDE DEF tx, log
<1>10. CountsFailures(tx, log)
  BY <1>1, <1>5, <1>6, <1>8, <1>9 DEF CountsFailures
<1>11. batch' \in Batches
  BY <1>7, <1>8
<1>12. \A q \in batch.todo \ {p} : tx[q].active /\ Len(log[q]) < MaxChecks
  BY <1>1, <1>9
<1> HIDE DEF Batches
<1>13. batch'.on /\ batch'.todo \subseteq Programs
  BY <1>1, <1>7, <1>11 DEF Batches
<1> QED
  BY <1>1, <1>7, <1>10, <1>11, <1>12, <1>13 DEF DiscountInv, Batches

LEMMA WeekPassesStep == ASSUME DiscountInv, WeekPasses PROVE DiscountInv'
<1>1. /\ ~batch.on /\ UNCHANGED <<batch, outcomes>>
      /\ state' = [p \in Programs |-> [state[p] EXCEPT !.stale = TRUE]]
  BY DEF WeekPasses
<1>2. CountsFailures(state, outcomes) /\ batch = NoBatch
  BY <1>1 DEF DiscountInv
<1>3. \A p \in Programs : /\ state'[p] \in ProgramRows /\ state'[p].failures = state[p].failures
                          /\ state'[p].active = state[p].active
  <2> TAKE p \in Programs
  <2>1. state[p] \in ProgramRows /\ state'[p] = [state[p] EXCEPT !.stale = TRUE]
    BY <1>1, <1>2 DEF CountsFailures
  <2> QED
    BY <2>1 DEF ProgramRows
<1>4. state' \in [Programs -> ProgramRows]
  BY <1>1, <1>3
<1>5. CountsFailures(state, outcomes)'
  BY <1>1, <1>2, <1>3, <1>4 DEF CountsFailures
<1> QED
  BY <1>1, <1>2, <1>5, NoRunLeft

LEMMA DiscountInvStep == DiscountInv /\ [DiscountNext]_discountVars => DiscountInv'
<1> SUFFICES ASSUME DiscountInv, [DiscountNext]_discountVars PROVE DiscountInv'
  OBVIOUS
<1>1. CASE BeginBatch
  BY <1>1, BeginBatchStep
<1>2. CASE CheckUrl
  BY <1>2, CheckUrlStep
<1>3. CASE CommitBatch
  <2>1. CountsFailures(batch.tx, batch.log)
    BY <1>3 DEF CommitBatch, DiscountInv
  <2>2. state' = batch.tx /\ outcomes' = batch.log /\ batch' = NoBatch
    BY <1>3 DEF CommitBatch
  <2>3. CountsFailures(state, outcomes)'
    BY <2>1, <2>2 DEF CountsFailures
  <2> QED
    BY <2>2, <2>3, NoRunLeft
<1>4. CASE RollbackBatch
  <2>1. batch' = NoBatch /\ UNCHANGED <<state, outcomes>> /\ CountsFailures(state, outcomes)
    BY <1>4 DEF RollbackBatch, DiscountInv
  <2>2. CountsFailures(state, outcomes)'
    BY <2>1 DEF CountsFailures
  <2> QED
    BY <2>1, <2>2, NoRunLeft
<1>5. CASE WeekPasses
  BY <1>5, WeekPassesStep
<1>6. CASE UNCHANGED discountVars
  BY <1>6 DEF discountVars, DiscountInv, CountsFailures
<1> QED
  BY <1>1, <1>2, <1>3, <1>4, <1>5, <1>6 DEF DiscountNext

LEMMA DiscountInvariant == DiscountSpec => []DiscountInv
<1> QED
  BY DiscountInitInv, DiscountInvStep, PTL DEF DiscountSpec

(* Programs, logs and the run in progress stay what they are typed to be:  *)
(* a program's failures never exceed its checks.                           *)
THEOREM DiscountTypes == DiscountSpec => []DiscountTypeOK
<1>1. DiscountInv => DiscountTypeOK
  BY DEF DiscountInv, DiscountTypeOK, CountsFailures
<1> QED
  BY <1>1, DiscountInvariant, PTL

(* Whatever runs are rolled back and however flagged checks lie between, a *)
(* program is deactivated only after FailureThreshold committed failures   *)
(* with no verified check since.                                           *)
THEOREM OnlyFailuresDeactivate == DiscountSpec => []DeactivatedForCause
<1>1. DiscountInv => DeactivatedForCause
  BY DEF DiscountInv, CountsFailures, DeactivatedForCause
<1> QED
  BY <1>1, DiscountInvariant, PTL
==============================================================================
