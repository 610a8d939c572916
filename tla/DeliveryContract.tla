-------------------------- MODULE DeliveryContract --------------------------
(***************************************************************************)
(* What notification delivery promises, without queue, workers or clock:   *)
(* a delivery is written, a message for it is accepted by the provider,    *)
(* and its row says SENT or FAILED.  A mishap (an error, a crash, a lost   *)
(* lock) may make a delivery risky: it is then unknown whether a message   *)
(* went out, or whether only one run of it is under way.  Short of that it *)
(* is sent at most once, its row never says SENT before, and SENT is       *)
(* final.  A risky delivery goes out again, but at most once per mishap.   *)
(* Nothing is sent before the time the delivery was deferred to, which is  *)
(* the end of the quiet hours its recipient was in when it was written.    *)
(***************************************************************************)
EXTENDS Naturals

CONSTANT Deliveries

VARIABLES
  status,    \* of the row
  accepted,  \* messages the provider accepted
  risky,
  mishaps,   \* how many there were
  held       \* deliveries whose time has not come

vars == <<status, accepted, risky, mishaps, held>>

Init ==
  /\ status = [d \in Deliveries |-> "NONE"]
  /\ accepted = [d \in Deliveries |-> 0]
  /\ risky = {} /\ mishaps = 0
  /\ held \in SUBSET Deliveries

Write(d) ==
  /\ status[d] = "NONE"
  /\ status' = [status EXCEPT ![d] = "PENDING"]
  /\ UNCHANGED <<accepted, risky, mishaps, held>>

Accept(d) ==
  /\ status[d] # "NONE" /\ d \notin held
  /\ d \in risky \/ (accepted[d] = 0 /\ status[d] # "SENT")
  /\ accepted[d] <= mishaps
  /\ accepted' = [accepted EXCEPT ![d] = @ + 1]
  /\ UNCHANGED <<status, risky, mishaps, held>>

Confirm(d) ==
  /\ accepted[d] > 0
  /\ status' = [status EXCEPT ![d] = "SENT"]
  /\ UNCHANGED <<accepted, risky, mishaps, held>>

\* A message that went out is not called failed.
Refuse(d) ==
  /\ status[d] # "NONE"
  /\ d \in risky \/ accepted[d] = 0
  /\ status' = [status EXCEPT ![d] = "FAILED"]
  /\ UNCHANGED <<accepted, risky, mishaps, held>>

Mishap ==
  /\ mishaps' = mishaps + 1
  /\ \/ UNCHANGED risky
     \/ \E d \in Deliveries : status[d] # "NONE" /\ risky' = risky \cup {d}
  /\ UNCHANGED <<status, accepted, held>>

PassTime ==
  /\ held' \in SUBSET held
  /\ UNCHANGED <<status, accepted, risky, mishaps>>

Next ==
  \/ PassTime \/ Mishap
  \/ \E d \in Deliveries : Write(d) \/ Accept(d) \/ Confirm(d) \/ Refuse(d)

Spec == Init /\ [][Next]_vars

=============================================================================
