---------------------------- MODULE RealtimeHub ----------------------------
(***************************************************************************)
(* The websocket side of the gateway for one account on one replica: the   *)
(* single-use ticket, the hub that holds the account's sockets and the      *)
(* fan-out subscription feeding them, and the pump of each socket. Join     *)
(* opens the subscription outside the hub's mutex and calls a cancel after  *)
(* releasing it, so sockets come, go and overflow in between.               *)
(***************************************************************************)
EXTENDS Naturals, FiniteSets

CONSTANTS
  Sockets,          \* connections of the account
  SendBuffer,       \* envelopes a socket may fall behind
  MaxPerAccount,    \* sockets one account may hold
  MaxSubscriptions, \* bound: subscriptions ever opened
  MaxBroadcasts     \* bound: envelopes broadcast

\* The configuration refuses a buffer or a cap of nothing.
ASSUME HubAssumption ==
  /\ SendBuffer \in Nat \ {0} /\ MaxPerAccount \in Nat \ {0}
  /\ MaxSubscriptions \in Nat /\ MaxBroadcasts \in Nat

VARIABLES
  wsSession,    \* the session behind the tickets is live
  sock,         \* per socket: phase of Connect, envelopes buffered, done closed
  hubSub,       \* h.subs[account], or NoSub
  natsSubs,     \* subscriptions open on the bus
  cancels,      \* cancel functions taken under the mutex, still to be called
  made,         \* subscriptions opened so far
  sent          \* envelopes broadcast so far

hubVars == <<wsSession, sock, hubSub, natsSubs, cancels, made, sent>>

NoSub == [id |-> 0, clients |-> {}, cancel |-> FALSE]

Fresh == [phase |-> "idle", buffered |-> 0, done |-> FALSE, sub |-> 0]

Phases == {"idle", "ticketed", "redeemed", "admitted", "subscribing", "subscribed",
           "failed", "joined", "streaming"}

SockAt(k, phase) == sock[k].phase = phase

Go(k, phase) == sock' = [sock EXCEPT ![k].phase = phase]

(* POST /ws/tickets, behind the auth middleware.                            *)
CreateTicket(k) ==
  /\ SockAt(k, "idle") /\ wsSession
  /\ Go(k, "ticketed")
  /\ UNCHANGED <<wsSession, hubSub, natsSubs, cancels, made, sent>>

(* The ticket is read exactly once, or its TTL runs out first.              *)
Redeem(k) ==
  /\ SockAt(k, "ticketed")
  /\ Go(k, "redeemed") \/ Go(k, "idle")
  /\ UNCHANGED <<wsSession, hubSub, natsSubs, cancels, made, sent>>

(* "A ticket issued a moment before a logout is a valid ticket for a dead   *)
(* session."                                                                *)
CheckSession(k) ==
  /\ SockAt(k, "redeemed")
  /\ Go(k, IF wsSession THEN "admitted" ELSE "idle")
  /\ UNCHANGED <<wsSession, hubSub, natsSubs, cancels, made, sent>>

(* Join, first critical section: join the account's entry, be refused at    *)
(* the cap, or claim the entry and subscribe.                               *)
JoinExisting(k) ==
  /\ SockAt(k, "admitted") /\ hubSub # NoSub
  /\ IF Cardinality(hubSub.clients) >= MaxPerAccount
     THEN Go(k, "idle") /\ UNCHANGED hubSub
     ELSE /\ hubSub' = [hubSub EXCEPT !.clients = @ \cup {k}]
          /\ Go(k, "joined")
  /\ UNCHANGED <<wsSession, natsSubs, cancels, made, sent>>

ClaimEntry(k) ==
  /\ SockAt(k, "admitted") /\ hubSub = NoSub
  /\ made < MaxSubscriptions
  /\ made' = made + 1
  /\ hubSub' = [id |-> made + 1, clients |-> {k}, cancel |-> FALSE]
  /\ sock' = [sock EXCEPT ![k].phase = "subscribing", ![k].sub = made + 1]
  /\ UNCHANGED <<wsSession, natsSubs, cancels, sent>>

(* OnBroadcast, outside the mutex: the subscription is live from here on.   *)
OnBroadcast(k) ==
  /\ SockAt(k, "subscribing")
  /\ \/ Go(k, "failed") /\ UNCHANGED natsSubs
     \/ Go(k, "subscribed") /\ natsSubs' = natsSubs \cup {sock[k].sub}
  /\ UNCHANGED <<wsSession, hubSub, cancels, made, sent>>

(* Mutant: the joiners behind a subscription that failed are left alone.    *)
StrandNobody(k) ==
  /\ SockAt(k, "failed")
  /\ hubSub' = IF hubSub.id = sock[k].sub THEN NoSub ELSE hubSub
  /\ sock' = [sock EXCEPT ![k] = Fresh]
  /\ UNCHANGED <<wsSession, natsSubs, cancels, made, sent>>

(* The subscription failed: everyone who joined behind it is closed.        *)
Strand(k) ==
  /\ SockAt(k, "failed")
  /\ LET ours == hubSub.id = sock[k].sub
         stranded == IF ours THEN hubSub.clients \ {k} ELSE {}
     IN  /\ hubSub' = IF ours THEN NoSub ELSE hubSub
         /\ sock' = [s \in Sockets |->
                       IF s = k THEN Fresh
                       ELSE IF s \in stranded THEN [sock[s] EXCEPT !.done = TRUE]
                       ELSE sock[s]]
  /\ UNCHANGED <<wsSession, natsSubs, cancels, made, sent>>

(* Second critical section: hand over the cancel, or, when every socket has *)
(* gone meanwhile, call it at once.                                         *)
Settle(k) ==
  /\ SockAt(k, "subscribed")
  /\ IF hubSub.id = sock[k].sub
     THEN hubSub' = [hubSub EXCEPT !.cancel = TRUE] /\ UNCHANGED cancels
     ELSE cancels' = cancels \cup {sock[k].sub} /\ UNCHANGED hubSub
  /\ Go(k, "joined")
  /\ UNCHANGED <<wsSession, natsSubs, made, sent>>

(* remove, for a set of sockets: the entry goes with its last client, and   *)
(* the cancel it held is owed.                                              *)
Remaining(gone) == hubSub.clients \ gone

remove(gone) ==
  IF hubSub # NoSub /\ Remaining(gone) = {}
  THEN /\ hubSub' = NoSub
       /\ cancels' = IF hubSub.cancel THEN cancels \cup {hubSub.id} ELSE cancels
  ELSE hubSub' = [hubSub EXCEPT !.clients = Remaining(gone)] /\ UNCHANGED cancels

Leave(k) ==
  /\ remove({k})
  /\ sock' = [sock EXCEPT ![k] = Fresh]
  /\ UNCHANGED <<wsSession, natsSubs, made, sent>>

(* websocket.Accept succeeds, or fails and the socket leaves again.         *)
AcceptSocket(k) ==
  /\ SockAt(k, "joined")
  /\ \/ Go(k, "streaming") /\ UNCHANGED <<wsSession, hubSub, natsSubs, cancels, made, sent>>
     \/ Leave(k)

(* An owed cancel is called once the mutex is free.                         *)
CancelSubscription(n) ==
  /\ n \in cancels
  /\ cancels' = cancels \ {n}
  /\ natsSubs' = natsSubs \ {n}
  /\ UNCHANGED <<wsSession, sock, hubSub, made, sent>>

(* dispatch, on the bus's goroutine: a socket whose buffer is full is       *)
(* dropped rather than waited for.                                          *)
dispatch ==
  LET full == {k \in hubSub.clients : sock[k].buffered >= SendBuffer}
  IN  /\ remove(full)
      /\ sock' = [k \in Sockets |->
                    IF k \in full THEN [sock[k] EXCEPT !.done = TRUE]
                    ELSE IF k \in hubSub.clients THEN [sock[k] EXCEPT !.buffered = @ + 1]
                    ELSE sock[k]]

Broadcast ==
  /\ sent < MaxBroadcasts
  /\ sent' = sent + 1
  /\ \E n \in natsSubs : dispatch
  /\ UNCHANGED <<wsSession, natsSubs, made>>

(* The pump's select: dropped by the hub, an envelope to write, or the peer *)
(* gone.                                                                    *)
PumpDone(k) ==
  /\ SockAt(k, "streaming") /\ sock[k].done
  /\ Leave(k)

PumpWrite(k) ==
  /\ SockAt(k, "streaming") /\ sock[k].buffered > 0
  /\ \/ /\ sock' = [sock EXCEPT ![k].buffered = @ - 1]
        /\ UNCHANGED <<wsSession, hubSub, natsSubs, cancels, made, sent>>
     \/ Leave(k)

PeerGone(k) ==
  /\ SockAt(k, "streaming")
  /\ Leave(k)

(* Mutant: the ping keeps the connection alive and asks nothing else.       *)
PingOnly(k) ==
  /\ SockAt(k, "streaming")
  /\ FALSE
  /\ Leave(k)

(* The ping looks the session up again and ends the stream without it.      *)
PumpPing(k) ==
  /\ SockAt(k, "streaming") /\ ~wsSession
  /\ Leave(k)

RevokeWsSession ==
  /\ wsSession
  /\ wsSession' = FALSE
  /\ UNCHANGED <<sock, hubSub, natsSubs, cancels, made, sent>>

HubInit ==
  /\ wsSession = TRUE
  /\ sock = [k \in Sockets |-> Fresh]
  /\ hubSub = NoSub
  /\ natsSubs = {} /\ cancels = {}
  /\ made = 0 /\ sent = 0

Connect(k) ==
  \/ Redeem(k) \/ CheckSession(k) \/ JoinExisting(k) \/ ClaimEntry(k)
  \/ OnBroadcast(k) \/ Strand(k) \/ Settle(k) \/ AcceptSocket(k)

HubNext ==
  \/ \E k \in Sockets : CreateTicket(k) \/ Connect(k) \/ PumpDone(k) \/ PumpWrite(k)
                        \/ PeerGone(k) \/ PumpPing(k)
  \/ \E n \in cancels : CancelSubscription(n)
  \/ Broadcast
  \/ RevokeWsSession

(* Each Connect is its own goroutine, the ping ticker fires for as long as  *)
(* the pump runs, and select takes a ready case in the end.                 *)
HubFairness ==
  \A k \in Sockets : /\ WF_hubVars(Connect(k))
                     /\ WF_hubVars(PumpPing(k))

HubSpec == HubInit /\ [][HubNext]_hubVars /\ HubFairness

(***************************************************************************)
(* Properties                                                               *)
(***************************************************************************)

(* Types.                                                                   *)
HubTypeOK ==
  /\ wsSession \in BOOLEAN
  /\ sock \in [Sockets -> [phase : Phases, buffered : 0 .. SendBuffer,
                           done : BOOLEAN, sub : 0 .. MaxSubscriptions]]
  /\ hubSub.clients \subseteq Sockets /\ Cardinality(hubSub.clients) <= MaxPerAccount
  /\ natsSubs \subseteq 1 .. MaxSubscriptions /\ cancels \subseteq natsSubs
  /\ made \in 0 .. MaxSubscriptions /\ sent \in 0 .. MaxBroadcasts

Subscribing == {sock[k].sub : k \in {k \in Sockets :
                  sock[k].phase \in {"subscribing", "subscribed", "failed"}}}

(* hub.go keeps sockets and subscription together through every race of     *)
(* Join, Leave and dispatch: a socket that is up is registered, and behind  *)
(* it is a subscription or the Join still opening it (never one "attached   *)
(* to a subscription that never opened"); and a subscription on the bus     *)
(* feeds the account's entry, or is on its way out, never leaked "for the   *)
(* life of the process".                                                    *)
SocketsAndSubscriptionAgree ==
  /\ \A k \in Sockets :
       sock[k].phase \in {"joined", "streaming"} /\ ~sock[k].done =>
         /\ k \in hubSub.clients
         /\ hubSub.id \in natsSubs \/ hubSub.id \in Subscribing
  /\ \A n \in natsSubs :
       \/ n = hubSub.id /\ (hubSub.cancel \/ n \in Subscribing)
       \/ n \in cancels \/ n \in Subscribing

(* ws.go: a revocation reaches the sockets too; no stream outlives the      *)
(* session behind it for ever.                                              *)
RevocationEndsStreams ==
  ~wsSession ~> \A k \in Sockets : ~SockAt(k, "streaming")
=============================================================================
