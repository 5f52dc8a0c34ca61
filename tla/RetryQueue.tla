------------------------------- MODULE RetryQueue -------------------------------
(***************************************************************************)
(* What a queue with redelivery and a dead-letter queue promises of each   *)
(* message: it stays owed until it has been dealt with, however often that *)
(* fails, and is given up only after MaxReceive attempts.                  *)
(***************************************************************************)
EXTENDS Naturals

CONSTANTS Messages, MaxReceive

VARIABLES duty    \* of a message: [state, tries]

Kinds == {"unsent", "owed", "handled", "settled", "dead"}

DutyTypeOK == duty \in [Messages -> [state : Kinds, tries : 0..MaxReceive]]

DutyInit == duty \in [Messages -> {[state |-> s, tries |-> 0] : s \in {"unsent", "owed"}}]

Become(m, from, to) ==
    /\ duty[m].state = from
    /\ duty' = [duty EXCEPT ![m].state = to]

Handle(m) == duty[m].tries > 0 /\ Become(m, "owed", "handled")
Settle(m) == Become(m, "handled", "settled")

Bury(m) ==
    /\ duty[m].tries = MaxReceive
    /\ \/ Become(m, "owed", "dead")
       \/ Become(m, "handled", "dead")

(* One call sends, or receives, any number of messages.                    *)
Sends(m) == duty[m].state = "unsent" /\ duty'[m] = [duty[m] EXCEPT !.state = "owed"]

Delivers(m) ==
    /\ duty[m].state \in {"owed", "handled"}
    /\ duty[m].tries < MaxReceive
    /\ duty'[m] = [duty[m] EXCEPT !.tries = @ + 1]

Together ==
    /\ duty' \in [Messages -> [state : Kinds, tries : 0..MaxReceive]]
    /\ \A m \in Messages : duty'[m] = duty[m] \/ Sends(m) \/ Delivers(m)

DutyNext == Together \/ \E m \in Messages : Handle(m) \/ Settle(m) \/ Bury(m)

DutySpec == DutyInit /\ [][DutyNext]_duty
=============================================================================
