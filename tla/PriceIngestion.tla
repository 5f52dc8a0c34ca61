----------------------------- MODULE PriceIngestion -----------------------------
(***************************************************************************)
(* The price ingestion queue: enqueue_stale_products and process_queue     *)
(* (backend/workers/price_ingestion.py), run by scripts/run_worker.py over *)
(* SQS (backend/workers/queue_client.py).                                  *)
(*                                                                         *)
(* A worker has one database session: what get_prices flushes for a        *)
(* message is in the database only when the session commits, after         *)
(* process_queue returns.  It returns only when it was given               *)
(* max_iterations; the CLI gives none.  A message received and not deleted *)
(* becomes visible again; one received MaxReceive times is moved to the    *)
(* dead-letter queue instead of being received again.                      *)
(***************************************************************************)
EXTENDS Naturals, Sequences, FiniteSets, SequencesExt

CONSTANTS
    Products,       \* products with prices
    Stray,          \* other bodies: "malformed", or of a "missing" product
    Workers,
    Bounded,        \* whether process_queue is given max_iterations: a set
    MaxMessages,    \* bound: messages ever sent
    MaxReceive,     \* DLQ_MAX_RECEIVE_COUNT
    Batch           \* max_messages of a receive

ASSUME QueueAssumption ==
    /\ IsFiniteSet(Products) /\ IsFiniteSet(Stray) /\ Bounded \subseteq BOOLEAN
    /\ MaxMessages \in Nat /\ MaxReceive \in Nat /\ Cardinality(Stray) <= MaxMessages

VARIABLES
    fresh,     \* PostgreSQL: products whose committed prices are not stale
    sent,      \* the bodies of the messages sent so far
    box,       \* SQS: of a message, [where, receives]
    worker,    \* [pc, bounded, hand, flushed, broken]
    handled    \* history: messages dealt with, by a flush or a skip

queueVars == <<fresh, sent, box, worker, handled>>

Messages == 1..MaxMessages
Off == [pc |-> "off", bounded |-> FALSE, hand |-> <<>>, flushed |-> {}, broken |-> FALSE]

QueueTypeOK ==
    /\ fresh \subseteq Products
    /\ sent \in Seq(Products \cup Stray) /\ Len(sent) <= MaxMessages
    /\ box \in [Messages -> [where : {"unsent", "visible", "inflight", "deleted", "dead"},
                             receives : 0..MaxReceive]]
    /\ \A w \in Workers : /\ worker[w].pc \in {"off", "poll", "work", "ack"}
                          /\ worker[w].flushed \subseteq Products
    /\ handled \subseteq Messages

Sent(bodies, m) == [where |-> IF m <= Len(bodies) THEN "visible" ELSE "unsent", receives |-> 0]

QueueInit ==
    /\ fresh = {}
    /\ sent = SetToSeq(Stray)
    /\ box = [m \in Messages |-> Sent(sent, m)]
    /\ worker = [w \in Workers |-> Off]
    /\ handled = {}

-----------------------------------------------------------------------------
(* One message per stale product; a send that fails ends the run.          *)
EnqueueStale ==
    \E some \in SUBSET (Products \ fresh) :
        /\ some # {} /\ Len(sent) + Cardinality(some) <= MaxMessages
        /\ sent' = sent \o SetToSeq(some)
        /\ box' = [m \in Messages |-> IF m \in Len(sent) + 1..Len(sent')
                                      THEN Sent(sent', m) ELSE box[m]]
        /\ UNCHANGED <<fresh, worker, handled>>

Stale(p) ==
    /\ p \in fresh
    /\ fresh' = fresh \ {p}
    /\ UNCHANGED <<sent, box, worker, handled>>

Start(w) ==
    /\ worker[w].pc = "off"
    /\ \E b \in Bounded : worker' = [worker EXCEPT ![w] = [Off EXCEPT !.pc = "poll", !.bounded = b]]
    /\ UNCHANGED <<fresh, sent, box, handled>>

Visible == {m \in Messages : box[m].where = "visible" /\ box[m].receives < MaxReceive}

(* receive_messages: SQS hands out any of the visible messages.            *)
Receive(w) ==
    /\ worker[w].pc = "poll"
    /\ \E some \in SUBSET Visible :
         /\ some # {} /\ Cardinality(some) <= Batch
         /\ \E order \in SetToSeqs(some) :
              worker' = [worker EXCEPT ![w].pc = "work", ![w].hand = order]
         /\ box' = [m \in Messages |-> IF m \in some
                      THEN [where |-> "inflight", receives |-> box[m].receives + 1] ELSE box[m]]
    /\ UNCHANGED <<fresh, sent, handled>>

(* A bounded loop that is out of iterations, or finds nothing, returns, and *)
(* the CLI commits; the other polls again.                                 *)
Return(w) ==
    /\ worker[w].pc = "poll" /\ worker[w].bounded
    /\ fresh' = IF worker[w].broken THEN fresh ELSE fresh \cup worker[w].flushed
    /\ worker' = [worker EXCEPT ![w] = Off]
    /\ UNCHANGED <<sent, box, handled>>

Head1(w) == Head(worker[w].hand)
Next1(w) ==      \* the message in hand is done with
    worker' = [worker EXCEPT ![w].hand = Tail(@), ![w].pc = IF Tail(worker[w].hand) = <<>> THEN "poll" ELSE "work"]
Working(w, pc) == worker[w].pc = pc /\ worker[w].hand # <<>>

(* delete_message; a receipt outlives its visibility timeout.              *)
Delete(m) == box' = [box EXCEPT ![m].where = IF @ = "dead" THEN @ ELSE "deleted"]

(* A body that does not parse, or a product that does not exist: ack+skip. *)
(* The lookup needs the session, and a broken one refuses.                 *)
Skip(w) ==
    /\ Working(w, "work")
    /\ sent[Head1(w)] \in Stray
    /\ sent[Head1(w)] = "malformed" \/ ~worker[w].broken
    /\ handled' = handled \cup {Head1(w)}
    /\ worker' = [worker EXCEPT ![w].pc = "ack"]
    /\ UNCHANGED <<fresh, sent, box>>

Locked(w, p) == \E v \in Workers \ {w} : p \in worker[v].flushed

(* get_prices flushes, behind the row locks of other sessions.             *)
Refresh(w) ==
    LET p == sent[Head1(w)]
    IN  /\ Working(w, "work")
        /\ p \in Products /\ ~worker[w].broken /\ ~Locked(w, p)
        /\ worker' = [worker EXCEPT ![w].flushed = @ \cup {p}, ![w].pc = "ack"]
        /\ handled' = handled \cup {Head1(w)}
        /\ UNCHANGED <<fresh, sent, box>>

(* Mutant: the message is deleted whether or not the refresh succeeded.    *)
RefreshFailsDeleted(w) ==
    /\ Working(w, "work")
    /\ sent[Head1(w)] \in Products /\ ~worker[w].broken
    /\ Delete(Head1(w))
    /\ Next1(w)
    /\ UNCHANGED <<fresh, sent, handled>>

(* It raises, some rows flushed perhaps: the message is kept for SQS to    *)
(* deliver again.  An SQL error undoes the transaction, and the session    *)
(* accepts nothing more.                                                   *)
RefreshFails(w) ==
    /\ Working(w, "work")
    /\ sent[Head1(w)] \in Products /\ ~worker[w].broken
    /\ \E sql \in BOOLEAN, some \in SUBSET {sent[Head1(w)]} :
         /\ \A p \in some : ~Locked(w, p)
         /\ worker' = [worker EXCEPT ![w].hand = Tail(@), ![w].broken = sql,
                       ![w].flushed = IF sql THEN {} ELSE @ \cup some,
                       ![w].pc = IF Tail(worker[w].hand) = <<>> THEN "poll" ELSE "work"]
    /\ UNCHANGED <<fresh, sent, box, handled>>

(* Deleting a refreshed message may fail, and is then logged.              *)
Ack(w) ==
    /\ Working(w, "ack")
    /\ \/ Delete(Head1(w))
       \/ sent[Head1(w)] \in Products /\ UNCHANGED box
    /\ Next1(w)
    /\ UNCHANGED <<fresh, sent, handled>>

(* A process that dies, a lookup on a broken session, a failed receive or  *)
(* a failed delete of a skipped message: rolled back, messages in flight.  *)
Crash(w) ==
    /\ worker[w].pc # "off"
    /\ worker' = [worker EXCEPT ![w] = Off]
    /\ UNCHANGED <<fresh, sent, box, handled>>

(* SQS: the visibility timeout, whoever still works on the message.        *)
Reappear(m) ==
    /\ box[m].where = "inflight"
    /\ box' = [box EXCEPT ![m].where = "visible"]
    /\ UNCHANGED <<fresh, sent, worker, handled>>

(* SQS: the redrive policy.                                                *)
Redrive(m) ==
    /\ box[m].where = "visible" /\ box[m].receives = MaxReceive
    /\ box' = [box EXCEPT ![m].where = "dead"]
    /\ UNCHANGED <<fresh, sent, worker, handled>>

QueueNext ==
    \/ EnqueueStale
    \/ \E p \in Products : Stale(p)
    \/ \E w \in Workers : \/ Start(w) \/ Receive(w) \/ Return(w) \/ Skip(w) \/ Refresh(w)
                          \/ RefreshFails(w) \/ Ack(w) \/ Crash(w)
    \/ \E m \in Messages : Reappear(m) \/ Redrive(m)

QueueSpec == QueueInit /\ [][QueueNext]_queueVars

-----------------------------------------------------------------------------
(* What the worker and SQS implement between them.                         *)
Duty(m) ==
    [state |-> CASE box[m].where = "unsent"  -> "unsent"
                 [] box[m].where = "deleted" -> "settled"
                 [] box[m].where = "dead"    -> "dead"
                 [] OTHER -> IF m \in handled THEN "handled" ELSE "owed",
     tries |-> box[m].receives]

Abstract == INSTANCE RetryQueue WITH duty <- [m \in Messages |-> Duty(m)]

(* Whichever worker dies, whatever raises and however often a message is   *)
(* delivered, it is dropped only once a worker has refreshed its product   *)
(* or found nothing to refresh, and is given up only after MaxReceive      *)
(* deliveries ("the message is not deleted. SQS visibility timeout handles *)
(* retry").                                                                *)
ImplementsRetryQueue == Abstract!DutySpec

(* The inductive invariant behind it: a message that is not sent has no    *)
(* history, what a worker holds has been received, and it acknowledges     *)
(* only what it has dealt with.                                            *)
Unsent ==
    \A m \in Messages :
        /\ box[m].where = "unsent" <=> m > Len(sent)
        /\ box[m].where = "unsent" => box[m].receives = 0 /\ m \notin handled
Received(m) == m \in Messages /\ box[m].where # "unsent" /\ box[m].receives > 0
InHand ==
    \A w \in Workers :
        /\ \A i \in 1..Len(worker[w].hand) : Received(worker[w].hand[i])
        /\ worker[w].pc = "ack" => worker[w].hand # <<>> /\ Head1(w) \in handled
QueueInv == Unsent /\ InHand
=============================================================================
