---------------------------- MODULE EventDelivery ----------------------------
(***************************************************************************)
(* What the transactional outbox promises its consumers: an event is       *)
(* committed with the product state it describes, reaches its topic at     *)
(* least once unless the delivery itself fails and is given up, and is      *)
(* acknowledged only when it is there or given up.                         *)
(***************************************************************************)
CONSTANT Events

VARIABLES
  saved,  \* events committed with the product state
  sent,   \* events a consumer of the topic can read
  acked,  \* events the outbox considers published
  lost    \* events of which a delivery failed that nobody repeats

vars == <<saved, sent, acked, lost>>

Init ==
  /\ saved = {}
  /\ sent = {}
  /\ acked = {}
  /\ lost = {}

\* A transaction commits its events together.
Save ==
  /\ \E S \in SUBSET (Events \ saved) : S # {} /\ saved' = saved \cup S
  /\ UNCHANGED <<sent, acked, lost>>

\* Sending again what is there changes nothing for a set.
Send(e) ==
  /\ e \in saved
  /\ sent' = sent \cup {e}
  /\ UNCHANGED <<saved, acked, lost>>

\* A delivery fails; it may have arrived all the same.
Lose(e) ==
  /\ e \in saved
  /\ sent' \in {sent, sent \cup {e}}
  /\ lost' = lost \cup {e}
  /\ UNCHANGED <<saved, acked>>

Ack(S) ==
  /\ S \subseteq sent \cup lost
  /\ acked' = acked \cup S
  /\ UNCHANGED <<saved, sent, lost>>

\* The outbox may forget an acknowledgement; it then sends once more.
Retract(S) ==
  /\ acked' = acked \ S
  /\ UNCHANGED <<saved, sent, lost>>

Next ==
  \/ Save
  \/ \E e \in Events : Send(e) \/ Lose(e)
  \/ \E S \in SUBSET Events : Ack(S) \/ Retract(S)

Spec == Init /\ [][Next]_vars

\* Every saved event is sent in the end, or a delivery of it failed.
LiveSpec == Spec /\ \A e \in Events : WF_vars(e \notin lost /\ Send(e))

=============================================================================
