------------------------------- MODULE MCLive -------------------------------
(* What must eventually happen, component by component.  `part` picks the one *)
(* that runs; the variables of the others rest, and only the running part has *)
(* fairness to claim.                                                         *)
EXTENDS OrderRuns, Negotiation, NotificationFeed, RealtimeHub, SearchIndex

CONSTANT Parts

VARIABLE part

\* Two proposals under the asking price of 2 a unit and one exactly at it.
SomeTerms == {[quantity |-> 1, total |-> 1], [quantity |-> 2, total |-> 3], [quantity |-> 1, total |-> 2]}

liveVars == <<part, runVars, negotiationVars, notificationVars, hubVars, indexVars>>

Init ==
  /\ part \in Parts
  /\ RunInit /\ (part = "runs" \/ checkoutRun = "none")
  /\ NegotiationInit /\ NotificationInit /\ HubInit /\ IndexInit

Next ==
  /\ UNCHANGED part
  /\ \/ /\ part = "runs" /\ RunNext
        /\ UNCHANGED <<negotiationVars, notificationVars, hubVars, indexVars>>
     \/ /\ part = "negotiation" /\ NegotiationNext
        /\ UNCHANGED <<runVars, notificationVars, hubVars, indexVars>>
     \/ /\ part = "notifications" /\ NotificationNext
        /\ UNCHANGED <<runVars, negotiationVars, hubVars, indexVars>>
     \/ /\ part = "hub" /\ HubNext
        /\ UNCHANGED <<runVars, negotiationVars, notificationVars, indexVars>>
     \/ /\ part = "index" /\ IndexNext
        /\ UNCHANGED <<runVars, negotiationVars, notificationVars, hubVars>>

(* Each part's own fairness, asked of it only while it is the one that runs.  *)
Fairness ==
  /\ WF_runVars(part = "runs" /\ \E s \in signalled : Deliver(s))
  /\ WF_runVars(part = "runs" /\ RunStep)
  /\ \A pass \in {"expired checkouts", "released payouts"} :
       WF_runVars(part = "runs" /\ SweepPass(pass))
  /\ WF_runVars(part = "runs" /\ PayoutWindowEnds)
  /\ WF_runVars(part = "runs" /\ \E buyerPaid \in BOOLEAN : ResolveRefund(buyerPaid))
  /\ WF_negotiationVars(part = "negotiation" /\ \E o \in Offers : Lapse(o))
  /\ WF_negotiationVars(part = "negotiation" /\ ExpireOffers)
  /\ WF_negotiationVars(part = "negotiation" /\ \E e \in expiring : SaveExpired(e))
  /\ WF_negotiationVars(part = "negotiation" /\ \E c \in Hagglers : NegotiationGoesOn(c))
  /\ WF_notificationVars(part = "notifications" /\ LoopStep /\ UNCHANGED feedVars)
  /\ WF_notificationVars(part = "notifications" /\ (SubscriberStep \/ FailParty))
  /\ \A k \in Sockets : /\ WF_hubVars(part = "hub" /\ Connect(k))
                        /\ WF_hubVars(part = "hub" /\ PumpPing(k))
  /\ \A p \in Embedders : WF_indexVars(part = "index" /\ EmbedderStep(p))

Spec == Init /\ [][Next]_liveVars /\ Fairness

-----------------------------------------------------------------------------
(* What each part promises, its rows' shapes included.  A property of a part   *)
(* that claims progress claims it of the behaviours where that part runs.      *)

\* An event leaves the bus only when every party has its notification: entries
\* leave the pending list by success alone, success means every row is there, and
\* an entry that was added is read by the group in the end (redis.go, the consumer
\* loop; service_notification.go).
EventsAreWorked ==
  /\ [](BusTypeOK /\ FeedTypeOK /\ SettledIsTold)
  /\ UnsettledStaysPending
  /\ part = "notifications" => EveryEntryIsRead

\* A row the embedder's queue has let go is found by its present words, unless a rival
\* embedder saved an older batch last, and the queue drains (embedding.go, the mark and
\* its clearing).
IndexCatchesUp ==
  /\ [](IndexTypeOK /\ UnmarkedIsCurrent /\ NoneLateAlone)
  /\ part = "index" => MarkedGetsEmbedded


=============================================================================
