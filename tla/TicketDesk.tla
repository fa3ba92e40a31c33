---------------------------- MODULE TicketDesk ----------------------------
(***************************************************************************)
(* Trust's tickets, seen from one order whose refund may go to staff. A     *)
(* ticket is raised by a party or by one of the order module's events,      *)
(* claimed and resolved by moderators, and a refund dispute is closed by    *)
(* the verdict event alone. A write is a copy saved under a status guard.   *)
(***************************************************************************)
EXTENDS Naturals, FiniteSets

CONSTANTS
  TicketKinds,               \* the kinds of ticket raised
  OrderBuyer, OrderSeller,   \* the parties to the order
  Moderators,                \* staff
  DeskCallers,               \* requests and event handlers running at once
  MaxTickets,                \* bound on the tickets written
  MaxDeskCalls,              \* bound on the requests and handlers begun
  MaxLost                    \* bound on the publishes and calls that fail

ASSUME DeskAssumption == MaxTickets \in Nat /\ MaxDeskCalls \in Nat /\ MaxLost \in Nat

VARIABLES
  refundCase,    \* the refund over the order, owned by the order module
  cameBack,      \* returned_at is set on it
  tickets,       \* the ticket table, by id
  deskCall,      \* per request: the copy it read and what it does next
  escalated,     \* an escalation event waits on the bus
  lapsed,        \* the order's confirmation lapsed, and the event waits
  resolved,      \* the verdict events waiting on the bus
  rulings,       \* the actions of every verdict staff have given
  lost,          \* failures so far
  begun          \* requests and handlers begun

caseVars == <<refundCase, cameBack>>

eventVars == <<escalated, lapsed, resolved, rulings>>

deskVars == <<caseVars, tickets, deskCall, eventVars, lost, begun>>

Nobody == "nobody"

NoAction == "-"

openStatuses == {"open", "reviewing"}

IdleDesk == [at |-> "idle"]

(* RefKindOf and Reported: what a kind is about, and whether it accuses.    *)
RefKindOf(kind) ==
  CASE kind \in {"refund-dispute", "order-issue"} -> "order"
    [] kind = "report-listing" -> "listing"
    [] OTHER -> "nothing"

Reported(kind) == kind = "report-listing"

(* ticketTarget and reasonOf: a target and a reason exactly where the kind  *)
(* has one, and nothing where it has none.                                  *)
ticketTarget(kind, ref) == ref = RefKindOf(kind)

reasonOf(kind, reason) == reason = Reported(kind)

NewTicket(who, kind) ==
  [requester |-> who, kind |-> kind, status |-> "open", assignee |-> Nobody,
   thread |-> FALSE, action |-> NoAction, by |-> Nobody]

Claim(t, m) == [t EXCEPT !.status = "reviewing", !.assignee = m]

Resolve(t, m, action) ==
  [t EXCEPT !.status = "resolved", !.action = action, !.by = m]

AttachThread(t) == [t EXCEPT !.thread = TRUE]

Unresolved(id) == tickets[id].status \in openStatuses

(* CountOpenAgainst and OpenTicketsAgainst: the unresolved tickets about a  *)
(* target, whatever their kind and whoever raised them.                     *)
OpenTicketsAgainst(ref) ==
  {id \in DOMAIN tickets : Unresolved(id) /\ RefKindOf(tickets[id].kind) = ref}

(* InsertTicket's unique index: one unresolved ticket per requester and     *)
(* target, on the tickets that have a target.                               *)
TicketExists(t) ==
  /\ RefKindOf(t.kind) # "nothing"
  /\ \E id \in OpenTicketsAgainst(RefKindOf(t.kind)) : tickets[id].requester = t.requester

(* Mutant: the update keyed by the id alone.                                *)
SaveTicketAnyway(id, from) == TRUE

(* SaveTicket's WHERE clause.                                               *)
SaveTicketLands(id, from) == tickets[id].status \in from

SaveTicket(id, t) ==
  tickets' = [tickets EXCEPT ![id] = [t EXCEPT !.thread = t.thread \/ tickets[id].thread]]

Step(c, call) == deskCall' = [deskCall EXCEPT ![c] = call]

(* A request or a handler starts: it reads, and goes on from there.         *)
Begin(c, call) ==
  /\ deskCall[c].at = "idle"
  /\ begun < MaxDeskCalls
  /\ begun' = begun + 1
  /\ Step(c, call)

Fail == lost < MaxLost /\ lost' = lost + 1

IdleAt(c) == deskCall[c].at = "idle"

(***************************************************************************)
(* The order module's half.                                                 *)
(***************************************************************************)
(* EscalateRefund: a case already with staff is answered; otherwise only    *)
(* the seller escalates, from either of their two windows.                  *)
EscalateRefund(who) ==
  \/ refundCase = "disputed" /\ UNCHANGED refundCase
  \/ /\ refundCase \in {"awaiting-seller", "returned"}
     /\ who = OrderSeller
     /\ refundCase' = "disputed"

(* A buyer opens a case, the seller grants it, the goods come back and      *)
(* the inspection window passes.                                            *)
CaseMoves ==
  /\ \/ refundCase = "none" /\ refundCase' = "awaiting-seller"
     \/ refundCase = "awaiting-seller" /\ refundCase' = "returning"
     \/ refundCase = "returning" /\ refundCase' = "returned"
     \/ refundCase = "returned" /\ refundCase' = "accepted"
  /\ cameBack' = (cameBack \/ refundCase' = "returned")
  /\ UNCHANGED <<tickets, deskCall, eventVars, lost, begun>>

(* EscalateUnanswered and ClaimReturned: the case goes to staff with no     *)
(* ticket, and the event that asks for one is published best-effort.        *)
EscalateUnanswered ==
  /\ refundCase \in {"awaiting-seller", "returning"}
  /\ refundCase' = "disputed"
  /\ cameBack' = (cameBack \/ refundCase = "returning")
  /\ \/ escalated' = TRUE /\ UNCHANGED lost
     \/ Fail /\ UNCHANGED escalated
  /\ UNCHANGED <<tickets, deskCall, lapsed, resolved, rulings, begun>>

ConfirmationLapses ==
  /\ ~lapsed
  /\ refundCase = "none"
  /\ lapsed' = TRUE
  /\ UNCHANGED <<caseVars, tickets, deskCall, escalated, resolved, rulings, lost, begun>>

(* AdminResolveRefund and publishResolved: a buyer who wins before the      *)
(* goods came back ships them first, and the case may return to staff.      *)
AdminResolveRefund(m, buyerWins) ==
  /\ refundCase = "disputed"
  /\ refundCase' = IF ~buyerWins THEN "rejected" ELSE IF cameBack THEN "accepted" ELSE "returning"
  /\ LET action == IF buyerWins THEN "refund-granted" ELSE "refund-refused"
     IN  /\ rulings' = rulings \cup {action}
         /\ \/ resolved' = resolved \cup {[by |-> m, action |-> action]} /\ UNCHANGED lost
            \/ Fail /\ UNCHANGED resolved
  /\ UNCHANGED <<cameBack, tickets, deskCall, escalated, lapsed, begun>>

(***************************************************************************)
(* Raising a ticket: a party's own, or one an event asks for.               *)
(***************************************************************************)
BeginTicket(c, who, kind, event) ==
  /\ Cardinality(DOMAIN tickets) < MaxTickets
  /\ IF kind = "refund-dispute" THEN EscalateRefund(who) ELSE UNCHANGED refundCase
  /\ Begin(c, [at |-> "insert", ticket |-> NewTicket(who, kind), event |-> event])
  /\ UNCHANGED <<cameBack, tickets, eventVars, lost>>

OpenTicket(c) ==
  \E who \in {OrderBuyer, OrderSeller}, kind \in TicketKinds,
     ref \in {"order", "listing", "nothing"}, reason \in BOOLEAN :
    /\ ticketTarget(kind, ref)
    /\ reasonOf(kind, reason)
    /\ BeginTicket(c, who, kind, "none")

SubscribeEscalatedRefunds(c) ==
  escalated /\ BeginTicket(c, OrderBuyer, "refund-dispute", "escalated")

SubscribeUnconfirmedOrders(c) ==
  lapsed /\ BeginTicket(c, OrderBuyer, "order-issue", "lapsed")

(* A handler that returns nil acknowledges the event.                       *)
Ack(event) ==
  /\ escalated' = (escalated /\ event # "escalated")
  /\ lapsed' = (lapsed /\ event # "lapsed")

(* A duplicate ends the request, and is an answer to an event's handler.    *)
InsertTicket(c) ==
  /\ deskCall[c].at = "insert"
  /\ IF TicketExists(deskCall[c].ticket)
     THEN Step(c, IdleDesk) /\ UNCHANGED tickets
     ELSE LET id == Cardinality(DOMAIN tickets) + 1 IN
            /\ id <= MaxTickets
            /\ tickets' = [i \in 1..id |-> IF i = id THEN deskCall[c].ticket ELSE tickets[i]]
            /\ Step(c, [at |-> "thread", id |-> id, copy |-> deskCall[c].ticket])
  /\ Ack(deskCall[c].event)
  /\ UNCHANGED <<caseVars, resolved, rulings, lost, begun>>

(* The request or handler dies, or its database or chat call fails.         *)
Abandon(c) ==
  /\ ~IdleAt(c)
  /\ Fail
  /\ Step(c, IdleDesk)
  /\ UNCHANGED <<caseVars, tickets, eventVars, begun>>

(* attachThread: chat answers with the thread, and the row records it.      *)
attachThread(c) ==
  /\ deskCall[c].at = "thread"
  /\ LET t == deskCall[c].copy IN
       Step(c, [at |-> "save", id |-> deskCall[c].id, copy |-> AttachThread(t), from |-> {t.status}])
  /\ UNCHANGED <<caseVars, tickets, eventVars, lost, begun>>

(* GetTicket repairs a missing thread on the way.                           *)
GetTicket(c, id) ==
  /\ ~tickets[id].thread
  /\ Begin(c, [at |-> "thread", id |-> id, copy |-> tickets[id]])
  /\ UNCHANGED <<caseVars, tickets, eventVars, lost>>

(***************************************************************************)
(* Staff.                                                                   *)
(***************************************************************************)
AdminClaimTicket(c, m, id) ==
  /\ tickets[id].status = "open"
  /\ Begin(c, [at |-> "save", id |-> id, copy |-> Claim(tickets[id], m), from |-> {"open"}])
  /\ UNCHANGED <<caseVars, tickets, eventVars, lost>>

(* Mutant: any ticket resolved by hand.                                     *)
ByHand(id) == TRUE

(* A refund dispute is decided elsewhere.                                   *)
ResolvableByHand(id) == tickets[id].kind # "refund-dispute"

AdminResolveTicket(c, m, id) ==
  /\ ResolvableByHand(id)
  /\ Unresolved(id)
  /\ Begin(c, [at |-> "save", id |-> id, copy |-> Resolve(tickets[id], m, "none"),
               from |-> openStatuses])
  /\ UNCHANGED <<caseVars, tickets, eventVars, lost>>

Save(c) ==
  /\ deskCall[c].at = "save"
  /\ IF SaveTicketLands(deskCall[c].id, deskCall[c].from)
     THEN SaveTicket(deskCall[c].id, deskCall[c].copy)
     ELSE UNCHANGED tickets
  /\ Step(c, IdleDesk)
  /\ UNCHANGED <<caseVars, eventVars, lost, begun>>

(* RecordRefundVerdict: every unresolved ticket about the order, then each  *)
(* saved and told. A save that does not land fails the handler, and the     *)
(* event comes again.                                                       *)
RecordRefundVerdict(c) ==
  /\ \E v \in resolved :
       Begin(c, [at |-> "close", verdict |-> v, left |-> OpenTicketsAgainst("order"),
                 copies |-> tickets])
  /\ UNCHANGED <<caseVars, tickets, eventVars, lost>>

CloseNext(c) ==
  /\ deskCall[c].at = "close"
  /\ LET call == deskCall[c]
         v    == call.verdict
     IN  \E id \in call.left :
           /\ \A other \in call.left : id <= other
           /\ IF SaveTicketLands(id, openStatuses)
              THEN /\ SaveTicket(id, Resolve(call.copies[id], v.by, v.action))
                   /\ Step(c, [call EXCEPT !.left = @ \ {id}])
              ELSE Step(c, IdleDesk) /\ UNCHANGED tickets
  /\ UNCHANGED <<caseVars, eventVars, lost, begun>>

VerdictRecorded(c) ==
  /\ deskCall[c].at = "close"
  /\ deskCall[c].left = {}
  /\ resolved' = resolved \ {deskCall[c].verdict}
  /\ Step(c, IdleDesk)
  /\ UNCHANGED <<caseVars, tickets, escalated, lapsed, rulings, lost, begun>>

DeskInit ==
  /\ refundCase = "none"
  /\ cameBack = FALSE
  /\ tickets = <<>>
  /\ deskCall = [c \in DeskCallers |-> IdleDesk]
  /\ escalated = FALSE
  /\ lapsed = FALSE
  /\ resolved = {}
  /\ rulings = {}
  /\ lost = 0
  /\ begun = 0

DeskNext ==
  \/ CaseMoves \/ EscalateUnanswered \/ ConfirmationLapses
  \/ \E m \in Moderators, buyerWins \in BOOLEAN : AdminResolveRefund(m, buyerWins)
  \/ \E c \in DeskCallers :
       \/ OpenTicket(c) \/ SubscribeEscalatedRefunds(c) \/ SubscribeUnconfirmedOrders(c)
       \/ InsertTicket(c) \/ Abandon(c) \/ attachThread(c) \/ Save(c)
       \/ RecordRefundVerdict(c) \/ CloseNext(c) \/ VerdictRecorded(c)
       \/ \E id \in DOMAIN tickets :
            \/ GetTicket(c, id)
            \/ \E m \in Moderators : AdminClaimTicket(c, m, id) \/ AdminResolveTicket(c, m, id)

DeskSpec == DeskInit /\ [][DeskNext]_deskVars

DeskTypeOK ==
  /\ refundCase \in {"none", "awaiting-seller", "disputed", "returning", "returned",
                     "accepted", "rejected"}
  /\ \A id \in DOMAIN tickets :
       tickets[id] \in [requester : {OrderBuyer, OrderSeller}, kind : TicketKinds \cup {"refund-dispute", "order-issue"},
                        status : {"open", "reviewing", "resolved"},
                        assignee : Moderators \cup {Nobody}, thread : BOOLEAN,
                        action : {NoAction, "none", "refund-granted", "refund-refused"},
                        by : Moderators \cup {Nobody}]
  /\ escalated \in BOOLEAN /\ lapsed \in BOOLEAN
  /\ rulings \subseteq {"refund-granted", "refund-refused"}
  /\ lost \in 0..MaxLost /\ begun \in 0..MaxDeskCalls

(* A refund dispute is closed with an action that is a verdict staff gave on *)
(* the money: no moderator, repair pass or stale copy closes one with an     *)
(* action of its own (AdminResolveTicket, RecordRefundVerdict).              *)
DisputeClosedByVerdict ==
  \A id \in DOMAIN tickets :
    tickets[id].kind = "refund-dispute" /\ ~Unresolved(id) => tickets[id].action \in rulings

(* A verdict on a ticket stands: whatever copies were read before it, none  *)
(* reopens the ticket or names another action or moderator (SaveTicket's    *)
(* status guard against claims, resolutions and thread repairs).            *)
TicketVerdictStands ==
  \A id \in DOMAIN tickets :
    tickets[id].status = "resolved" =>
      /\ tickets'[id].status = "resolved"
      /\ tickets'[id].action = tickets[id].action
      /\ tickets'[id].by = tickets[id].by

=============================================================================
