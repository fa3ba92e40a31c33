---------------------------- MODULE ServiceProofs ----------------------------
(***************************************************************************)
(* What holds of the services around a sale for every value of the         *)
(* constants: the realtime hub's sockets and their subscription, the files *)
(* a module keeps for its uploads, the threads of chat, and the tickets    *)
(* and ratings of trust.                                                   *)
(***************************************************************************)
EXTENDS MCPlatform, SumLemmas, FiniteSetTheorems, TLAPS

-----------------------------------------------------------------------------
\* The realtime hub.

\* A socket, and the entry of the account's sockets.
SockRow == [phase : Phases, buffered : 0 .. SendBuffer, done : BOOLEAN, sub : 0 .. MaxSubscriptions]
Entry == [id : 0 .. MaxSubscriptions, clients : SUBSET Sockets, cancel : BOOLEAN]

\* A Join between its two critical sections, and a socket whose Join returned.
Opening(s) == s.phase \in {"subscribing", "subscribed", "failed"}
Up(s) == s.phase \in {"joined", "streaming"}

HubRows ==
  /\ wsSession \in BOOLEAN
  /\ sock \in [Sockets -> SockRow]
  /\ hubSub \in Entry /\ IsFiniteSet(hubSub.clients) /\ Cardinality(hubSub.clients) <= MaxPerAccount
  /\ (hubSub.id = 0 => hubSub = NoSub)
  /\ natsSubs \subseteq 1 .. made /\ cancels \subseteq natsSubs
  /\ made \in 0 .. MaxSubscriptions /\ hubSub.id <= made /\ sent \in 0 .. MaxBroadcasts

\* A Join opens a subscription of its own, which is on the bus once it succeeded and
\* nobody else cancels; unless the hub dropped its socket meanwhile, the entry is
\* still the one it claimed. A socket that is up and not dropped is in the entry.
SockFits(k, s) ==
  /\ Opening(s) => /\ s.sub \in 1 .. made /\ s.sub \notin cancels
                   /\ (s.phase = "subscribed" <=> s.sub \in natsSubs)
                   /\ hubSub.id = s.sub => ~hubSub.cancel
                   /\ ~s.done => k \in hubSub.clients /\ hubSub.id = s.sub
  /\ Up(s) /\ ~s.done => k \in hubSub.clients

\* Some Join is opening subscription n.
Opens(n) == \E k \in Sockets : Opening(sock[k]) /\ sock[k].sub = n

\* The entry holds the cancel of a live subscription, or the Join that will hand it
\* over is under way; a subscription on the bus is the entry's or on its way out.
EntryFits ==
  /\ hubSub.id # 0 => IF hubSub.cancel THEN hubSub.id \in natsSubs /\ hubSub.id \notin cancels
                      ELSE Opens(hubSub.id)
  /\ \A n \in natsSubs : (n = hubSub.id /\ hubSub.cancel) \/ n \in cancels \/ Opens(n)

HubInv ==
  /\ HubRows /\ EntryFits
  /\ \A k \in Sockets : SockFits(k, sock[k])
  /\ \A k, l \in Sockets : Opening(sock[k]) /\ Opening(sock[l]) /\ sock[k].sub = sock[l].sub => k = l

\* What is no subscription and no socket.
LEMMA HubKinds ==
  /\ NoSub \in Entry /\ NoSub.id = 0 /\ NoSub.clients = {} /\ NoSub.cancel = FALSE
  /\ IsFiniteSet(NoSub.clients) /\ Cardinality(NoSub.clients) = 0
  /\ Fresh \in SockRow /\ Fresh.phase = "idle" /\ ~Opening(Fresh) /\ ~Up(Fresh)
  /\ SendBuffer \in Nat \ {0} /\ MaxPerAccount \in Nat \ {0}
  /\ MaxSubscriptions \in Nat /\ MaxBroadcasts \in Nat
<1>1. NoSub \in Entry /\ NoSub.id = 0 /\ NoSub.clients = {} /\ NoSub.cancel = FALSE
  BY HubAssumption DEF NoSub, Entry
<1>2. Fresh \in SockRow /\ Fresh.phase = "idle" /\ ~Opening(Fresh) /\ ~Up(Fresh)
  BY HubAssumption DEF Fresh, SockRow, Phases, Opening, Up
<1> QED BY <1>1, <1>2, HubAssumption, FS_EmptySet

\* The invariant says all the properties say.
LEMMA HubIs == HubInv => HubTypeOK /\ SocketsAndSubscriptionAgree
<1> SUFFICES ASSUME HubInv PROVE HubTypeOK /\ SocketsAndSubscriptionAgree
  OBVIOUS
<1>1. HubTypeOK
  BY HubKinds DEF HubInv, HubRows, HubTypeOK, SockRow, Entry
<1>2. \A n : Opens(n) <=> n \in Subscribing
  BY DEF Opens, Opening, Subscribing
<1>3. ASSUME NEW k \in Sockets, sock[k].phase \in {"joined", "streaming"} /\ ~sock[k].done
      PROVE  k \in hubSub.clients /\ (hubSub.id \in natsSubs \/ hubSub.id \in Subscribing)
  <2>1. k \in hubSub.clients
    BY <1>3 DEF HubInv, SockFits, Up
  <2>2. hubSub.id # 0
    BY <2>1, HubKinds DEF HubInv, HubRows
  <2> QED BY <1>2, <2>1, <2>2 DEF HubInv, EntryFits
<1>4. ASSUME NEW n \in natsSubs
      PROVE  \/ n = hubSub.id /\ (hubSub.cancel \/ n \in Subscribing)
             \/ n \in cancels \/ n \in Subscribing
  BY <1>2 DEF HubInv, EntryFits
<1> QED BY <1>1, <1>3, <1>4 DEF SocketsAndSubscriptionAgree

\* No socket is open yet.
LEMMA HubInvFirst == HubInit => HubInv
<1> SUFFICES ASSUME HubInit PROVE HubInv
  OBVIOUS
<1>1. \A k \in Sockets : sock[k] = Fresh
  BY DEF HubInit
<1>2. HubRows
  BY HubKinds DEF HubInit, HubRows
<1>3. EntryFits
  BY HubKinds DEF HubInit, EntryFits
<1>4. \A k \in Sockets : SockFits(k, sock[k])
  BY <1>1, HubKinds DEF SockFits
<1> QED BY <1>1, <1>2, <1>3, <1>4, HubKinds DEF HubInv

\* A socket moves on between two phases that own nothing, and nothing else changes.
LEMMA SocketMoves ==
  ASSUME HubInv, NEW k \in Sockets, NEW s \in SockRow, sock' = [sock EXCEPT ![k] = s],
         UNCHANGED <<hubSub, natsSubs, cancels, made>>, wsSession' \in BOOLEAN, sent' \in 0 .. MaxBroadcasts,
         Opening(s) <=> Opening(sock[k]),
         Opening(s) => s.sub = sock[k].sub, SockFits(k, s)
  PROVE  HubInv'
<1>1. sock \in [Sockets -> SockRow]
  BY DEF HubInv, HubRows
<1>2. \A l \in Sockets : sock'[l] = IF l = k THEN s ELSE sock[l]
  BY <1>1
<1>3. HubRows'
  BY <1>1 DEF HubInv, HubRows
<1>4. \A l \in Sockets : /\ Opening(sock'[l]) <=> Opening(sock[l])
                         /\ Opening(sock'[l]) => sock'[l].sub = sock[l].sub
  BY <1>2
<1>5. \A n : Opens(n)' <=> Opens(n)
  BY <1>4 DEF Opens, Opening
<1>6. EntryFits'
  BY <1>5 DEF HubInv, EntryFits
<1>7. \A l \in Sockets : SockFits(l, sock'[l])
  BY <1>2 DEF HubInv
<1>8. (\A l \in Sockets : SockFits(l, sock[l]))'
  BY <1>7 DEF SockFits, Opening, Up
<1>9. (\A j, l \in Sockets : Opening(sock[j]) /\ Opening(sock[l]) /\ sock[j].sub = sock[l].sub => j = l)'
  BY <1>4 DEF HubInv, Opening
<1> QED BY <1>3, <1>6, <1>8, <1>9 DEF HubInv

\* A phase is one of the phases, and a socket that only moves on keeps its other fields.
LEMMA Goes ==
  ASSUME HubInv, NEW k \in Sockets, NEW phase \in Phases, Go(k, phase)
  PROVE  \E s \in SockRow : /\ sock' = [sock EXCEPT ![k] = s] /\ s.phase = phase
                            /\ s.done = sock[k].done /\ s.sub = sock[k].sub
<1>1. PICK g \in SockRow : g = sock[k]
  BY DEF HubInv, HubRows
<1> DEFINE s == [g EXCEPT !.phase = phase]
<1>2. s \in SockRow /\ s.phase = phase /\ s.done = g.done /\ s.sub = g.sub
  BY DEF SockRow
<1>3. sock' = [sock EXCEPT ![k] = s]
  BY <1>1 DEF Go, HubInv, HubRows
<1> HIDE DEF s
<1> QED BY <1>1, <1>2, <1>3

\* Sockets leave or are dropped: the entry goes with the last of them and its cancel
\* is owed.
LEMMA SocketsGo ==
  ASSUME HubInv, NEW gone, remove(gone), UNCHANGED <<wsSession, natsSubs, made>>, sent' \in 0 .. MaxBroadcasts,
         sock' \in [Sockets -> SockRow],
         \A k \in Sockets : Opening(sock'[k]) <=> Opening(sock[k]),
         \A k \in Sockets : Opening(sock'[k]) => sock'[k].sub = sock[k].sub /\ sock'[k].phase = sock[k].phase,
         \A k \in Sockets : Up(sock'[k]) => Up(sock[k]),
         \A k \in Sockets : ~sock'[k].done /\ (Opening(sock'[k]) \/ Up(sock'[k])) => ~sock[k].done /\ k \notin gone
  PROVE  HubInv'
<1> DEFINE left == Remaining(gone)
<1>1. left = hubSub.clients \ gone /\ left \subseteq hubSub.clients
  BY DEF Remaining
<1>2. hubSub \in Entry /\ (hubSub.id = 0 => hubSub = NoSub)
  BY DEF HubInv, HubRows
<1>3. IsFiniteSet(left) /\ Cardinality(left) \in Nat /\ Cardinality(left) <= MaxPerAccount
  <2>1. IsFiniteSet(hubSub.clients) /\ Cardinality(hubSub.clients) <= MaxPerAccount
    BY DEF HubInv, HubRows
  <2>2. IsFiniteSet(left) /\ Cardinality(left) <= Cardinality(hubSub.clients)
    BY <1>1, <2>1, FS_Subset
  <2>3. Cardinality(left) \in Nat /\ Cardinality(hubSub.clients) \in Nat
    BY <2>1, <2>2, FS_CardinalityType
  <2> QED BY <2>1, <2>2, <2>3, HubKinds
<1>4. \A n : Opens(n)' <=> Opens(n)
  BY DEF Opens, Opening
<1>5. (\A j, l \in Sockets : Opening(sock[j]) /\ Opening(sock[l]) /\ sock[j].sub = sock[l].sub => j = l)'
  BY DEF HubInv, Opening
<1> HIDE DEF left
<1>6. CASE hubSub # NoSub /\ left = {}
  <2>1. hubSub' = NoSub /\ cancels' = IF hubSub.cancel THEN cancels \cup {hubSub.id} ELSE cancels
    BY <1>6 DEF remove, left
  <2>2. HubRows'
    <3>1. cancels' \subseteq natsSubs
      BY <1>2, <1>6, <2>1 DEF HubInv, HubRows, EntryFits
    <3>2. hubSub' \in Entry /\ IsFiniteSet(hubSub'.clients) /\ Cardinality(hubSub'.clients) <= MaxPerAccount
          /\ hubSub'.id = 0
      BY <2>1, HubKinds
    <3> QED BY <2>1, <3>1, <3>2 DEF HubInv, HubRows
  <2>3. EntryFits'
    <3>1. ASSUME NEW n \in natsSubs PROVE n \in cancels' \/ Opens(n)
      BY <2>1 DEF HubInv, EntryFits
    <3> QED BY <1>4, <2>1, <3>1, HubKinds DEF EntryFits
  <2>4. ASSUME NEW k \in Sockets PROVE SockFits(k, sock[k])'
    <3>1. SockFits(k, sock[k])
      BY DEF HubInv
    <3>2. Opening(sock'[k]) \/ Up(sock'[k]) => sock'[k].done
      <4>1. SUFFICES ASSUME Opening(sock'[k]) \/ Up(sock'[k]), ~sock'[k].done PROVE FALSE
        OBVIOUS
      <4>2. k \in hubSub.clients /\ k \notin gone
        BY <3>1, <4>1 DEF SockFits
      <4> QED BY <1>1, <1>6, <4>2
    <3>3. Opening(sock'[k]) => sock[k].sub \notin cancels' /\ NoSub.id # sock[k].sub
      BY <2>1, <3>1, HubKinds DEF SockFits
    <3> QED BY <2>1, <3>1, <3>2, <3>3 DEF SockFits, Opening, Up
  <2> QED BY <1>5, <2>2, <2>3, <2>4 DEF HubInv
<1>7. CASE ~(hubSub # NoSub /\ left = {})
  <2>1. hubSub' = [hubSub EXCEPT !.clients = left] /\ cancels' = cancels
    BY <1>7 DEF remove, left
  <2>2. hubSub' \in Entry /\ hubSub'.id = hubSub.id /\ hubSub'.cancel = hubSub.cancel /\ hubSub'.clients = left
    BY <1>1, <1>2, <2>1 DEF Entry
  <2>3. hubSub'.id = 0 => hubSub' = NoSub
    <3>1. SUFFICES ASSUME hubSub = NoSub PROVE hubSub' = NoSub
      BY <1>2, <2>2
    <3>2. left = {}
      BY <1>1, <3>1, HubKinds
    <3> QED BY <2>1, <3>1, <3>2 DEF NoSub
  <2>4. HubRows'
    BY <1>3, <2>1, <2>2, <2>3 DEF HubInv, HubRows
  <2>5. EntryFits'
    BY <1>4, <2>1, <2>2 DEF HubInv, EntryFits
  <2>6. ASSUME NEW k \in Sockets PROVE SockFits(k, sock[k])'
    <3>1. SockFits(k, sock[k])
      BY DEF HubInv
    <3>2. (Opening(sock'[k]) \/ Up(sock'[k])) /\ ~sock'[k].done /\ k \in hubSub.clients => k \in hubSub'.clients
      BY <1>1, <2>2
    <3> QED BY <2>1, <2>2, <3>1, <3>2 DEF SockFits, Opening, Up
  <2> QED BY <1>5, <2>4, <2>5, <2>6 DEF HubInv
<1> QED BY <1>6, <1>7

\* A pump ends, or the connection was not accepted.
LEMMA LeaveKeeps == ASSUME HubInv, NEW k \in Sockets, Up(sock[k]), Leave(k) PROVE HubInv'
<1>1. sock \in [Sockets -> SockRow] /\ sent \in 0 .. MaxBroadcasts
  BY DEF HubInv, HubRows
<1>2. sock' = [sock EXCEPT ![k] = Fresh] /\ remove({k})
      /\ UNCHANGED <<wsSession, natsSubs, made, sent>>
  BY DEF Leave
<1>3. sock' \in [Sockets -> SockRow] /\ \A l \in Sockets : sock'[l] = IF l = k THEN Fresh ELSE sock[l]
  BY <1>1, <1>2, HubKinds
<1>4. ~Opening(sock[k])
  BY DEF Up, Opening
<1>5. \A l \in Sockets : /\ Opening(sock'[l]) <=> Opening(sock[l])
                         /\ Opening(sock'[l]) \/ Up(sock'[l]) => l # k /\ sock'[l] = sock[l]
  BY <1>3, <1>4, HubKinds
<1> DEFINE gone == {k}
<1>6. remove(gone) /\ sent' \in 0 .. MaxBroadcasts
  BY <1>1, <1>2
<1>7. \A l \in Sockets : ~sock'[l].done /\ (Opening(sock'[l]) \/ Up(sock'[l])) => ~sock[l].done /\ l \notin gone
  BY <1>5
<1> HIDE DEF gone
<1> QED BY <1>2, <1>3, <1>5, <1>6, <1>7, SocketsGo

\* An envelope is handed to every socket of the entry; one that has fallen behind is
\* dropped.
LEMMA BroadcastKeeps == ASSUME HubInv, Broadcast PROVE HubInv'
<1> DEFINE full == {k \in hubSub.clients : sock[k].buffered >= SendBuffer}
<1>1. sock \in [Sockets -> SockRow] /\ sent \in 0 .. MaxBroadcasts /\ hubSub.clients \subseteq Sockets
  BY DEF HubInv, HubRows, Entry
<1>2. /\ remove(full) /\ UNCHANGED <<wsSession, natsSubs, made>> /\ sent' \in 0 .. MaxBroadcasts
      /\ sock' = [k \in Sockets |->
                    IF k \in full THEN [sock[k] EXCEPT !.done = TRUE]
                    ELSE IF k \in hubSub.clients THEN [sock[k] EXCEPT !.buffered = @ + 1]
                    ELSE sock[k]]
  BY <1>1, HubKinds DEF Broadcast, dispatch
<1>3. ASSUME NEW k \in Sockets
      PROVE  /\ sock'[k] \in SockRow /\ sock'[k].phase = sock[k].phase /\ sock'[k].sub = sock[k].sub
             /\ IF k \in full THEN sock'[k].done ELSE sock'[k].done = sock[k].done
  <2>1. PICK g \in SockRow : g = sock[k]
    BY <1>1
  <2>2. k \in hubSub.clients /\ k \notin full => g.buffered + 1 \in 0 .. SendBuffer
    BY <2>1, HubKinds DEF SockRow
  <2>3. sock'[k] = IF k \in full THEN [g EXCEPT !.done = TRUE]
                   ELSE IF k \in hubSub.clients THEN [g EXCEPT !.buffered = g.buffered + 1]
                   ELSE g
    BY <1>2, <2>1
  <2> HIDE DEF full
  <2> QED BY <2>1, <2>2, <2>3 DEF SockRow
<1> HIDE DEF full
<1>4. sock' \in [Sockets -> SockRow]
  BY <1>2, <1>3
<1>5. \A k \in Sockets : /\ Opening(sock'[k]) <=> Opening(sock[k])
                         /\ Up(sock'[k]) <=> Up(sock[k])
  BY <1>3 DEF Opening, Up
<1>6. \A k \in Sockets : ~sock'[k].done /\ (Opening(sock'[k]) \/ Up(sock'[k])) => ~sock[k].done /\ k \notin full
  BY <1>3
<1> QED BY <1>2, <1>3, <1>4, <1>5, <1>6, SocketsGo

\* A Join finds the entry, and is refused at the cap.
LEMMA JoinKeeps == ASSUME HubInv, NEW k \in Sockets, JoinExisting(k) PROVE HubInv'
<1>1. PICK g \in SockRow : g = sock[k] /\ g.phase = "admitted"
  BY DEF HubInv, HubRows, JoinExisting, SockAt
<1>2. UNCHANGED <<wsSession, natsSubs, cancels, made, sent>> /\ hubSub # NoSub
      /\ wsSession \in BOOLEAN /\ sent \in 0 .. MaxBroadcasts
  BY DEF JoinExisting, HubInv, HubRows
<1>3. ~Opening(g) /\ ~Up(g)
  BY <1>1 DEF Opening, Up
<1>4. CASE Cardinality(hubSub.clients) >= MaxPerAccount
  <2>1. Go(k, "idle") /\ hubSub' = hubSub
    BY <1>4 DEF JoinExisting
  <2>2. PICK s \in SockRow : sock' = [sock EXCEPT ![k] = s] /\ s.phase = "idle"
    BY <2>1, Goes DEF Phases
  <2>3. ~Opening(s) /\ ~Up(s)
    BY <2>2 DEF Opening, Up
  <2> QED BY <1>1, <1>2, <1>3, <2>1, <2>2, <2>3, SocketMoves DEF SockFits
<1>5. CASE ~(Cardinality(hubSub.clients) >= MaxPerAccount)
  <2>1. Go(k, "joined") /\ hubSub' = [hubSub EXCEPT !.clients = @ \cup {k}]
    BY <1>5 DEF JoinExisting
  <2>2. PICK s \in SockRow : sock' = [sock EXCEPT ![k] = s] /\ s.phase = "joined"
    BY <2>1, Goes DEF Phases
  <2>3. sock \in [Sockets -> SockRow] /\ \A l \in Sockets : sock'[l] = IF l = k THEN s ELSE sock[l]
    BY <2>2 DEF HubInv, HubRows
  <2>4. ~Opening(s)
    BY <2>2 DEF Opening
  <2>5. /\ hubSub' \in Entry /\ hubSub'.id = hubSub.id /\ hubSub'.cancel = hubSub.cancel
        /\ hubSub'.clients = hubSub.clients \cup {k} /\ hubSub.id # 0
    BY <1>2, <2>1 DEF HubInv, HubRows, Entry
  <2>6. IsFiniteSet(hubSub'.clients) /\ Cardinality(hubSub'.clients) <= MaxPerAccount
    <3>1. IsFiniteSet(hubSub.clients) /\ Cardinality(hubSub.clients) \in Nat
      BY FS_CardinalityType DEF HubInv, HubRows
    <3>2. IsFiniteSet(hubSub'.clients) /\ Cardinality(hubSub'.clients) <= Cardinality(hubSub.clients) + 1
          /\ Cardinality(hubSub'.clients) \in Nat
      <4>1. IsFiniteSet(hubSub.clients \cup {k})
            /\ Cardinality(hubSub.clients \cup {k}) =
                 IF k \in hubSub.clients THEN Cardinality(hubSub.clients) ELSE Cardinality(hubSub.clients) + 1
        BY <3>1, FS_AddElement
      <4>2. hubSub'.clients = hubSub.clients \cup {k}
        BY <2>5
      <4> QED BY <3>1, <4>1, <4>2
    <3>3. PICK a \in Nat, b \in Nat : a = Cardinality(hubSub.clients) /\ b = Cardinality(hubSub'.clients)
      BY <3>1, <3>2
    <3>4. MaxPerAccount \in Nat /\ ~(a >= MaxPerAccount) /\ b <= a + 1
      BY <1>5, <3>2, <3>3, HubAssumption
    <3>5. b <= MaxPerAccount
      BY <3>4
    <3> QED BY <3>2, <3>3, <3>5
  <2>7. HubRows'
    BY <1>2, <2>2, <2>3, <2>5, <2>6 DEF HubInv, HubRows
  <2>8. \A l \in Sockets : Opening(sock'[l]) <=> Opening(sock[l])
    BY <1>1, <1>3, <2>3, <2>4
  <2>9. \A l \in Sockets : Opening(sock'[l]) => sock'[l] = sock[l]
    BY <2>3, <2>4
  <2>10. \A n : Opens(n)' <=> Opens(n)
    BY <2>8, <2>9 DEF Opens, Opening
  <2>11. EntryFits'
    BY <1>2, <2>5, <2>10 DEF HubInv, EntryFits
  <2>12. ASSUME NEW l \in Sockets PROVE SockFits(l, sock[l])'
    <3>1. CASE l = k
      BY <2>3, <2>4, <2>5, <3>1 DEF SockFits, Opening
    <3>2. CASE l # k
      <4>1. SockFits(l, sock[l]) /\ sock'[l] = sock[l]
        BY <2>3, <3>2 DEF HubInv
      <4> QED BY <1>2, <2>5, <4>1 DEF SockFits, Opening, Up
    <3> QED BY <3>1, <3>2
  <2>13. (\A j, l \in Sockets : Opening(sock[j]) /\ Opening(sock[l]) /\ sock[j].sub = sock[l].sub => j = l)'
    BY <2>8, <2>9 DEF HubInv, Opening
  <2> QED BY <2>7, <2>11, <2>12, <2>13 DEF HubInv
<1> QED BY <1>4, <1>5

\* A Join claims the empty slot before it subscribes, under a number nobody has.
LEMMA ClaimKeeps == ASSUME HubInv, NEW k \in Sockets, ClaimEntry(k) PROVE HubInv'
<1>1. PICK g \in SockRow : g = sock[k] /\ g.phase = "admitted"
  BY DEF HubInv, HubRows, ClaimEntry, SockAt
<1>2. made \in Nat /\ made' = made + 1 /\ made' \in 1 .. MaxSubscriptions
  BY HubKinds DEF HubInv, HubRows, ClaimEntry
<1>3. PICK n \in 1 .. MaxSubscriptions : n = made + 1
  BY <1>2
<1> DEFINE s == [g EXCEPT !.phase = "subscribing", !.sub = n]
<1>4. s \in SockRow /\ s.phase = "subscribing" /\ s.sub = n
  <2>1. n \in 0 .. MaxSubscriptions /\ "subscribing" \in Phases
    BY HubAssumption DEF Phases
  <2> QED BY <2>1 DEF SockRow
<1>5. sock' = [sock EXCEPT ![k] = s] /\ hubSub' = [id |-> n, clients |-> {k}, cancel |-> FALSE]
      /\ hubSub = NoSub /\ UNCHANGED <<wsSession, natsSubs, cancels, sent>>
  BY <1>1, <1>3 DEF ClaimEntry, HubInv, HubRows
<1> HIDE DEF s
<1>6. sock' \in [Sockets -> SockRow] /\ \A l \in Sockets : sock'[l] = IF l = k THEN s ELSE sock[l]
  BY <1>4, <1>5 DEF HubInv, HubRows
<1>7. natsSubs \subseteq 1 .. made /\ cancels \subseteq natsSubs /\ n \notin natsSubs /\ n \notin cancels
  BY <1>2, <1>3 DEF HubInv, HubRows
<1>8. hubSub' \in Entry /\ hubSub'.id = n /\ hubSub'.clients = {k} /\ hubSub'.cancel = FALSE
  BY <1>3, <1>5 DEF Entry
<1>9. IsFiniteSet(hubSub'.clients) /\ Cardinality(hubSub'.clients) <= MaxPerAccount
  <2>1. IsFiniteSet({k}) /\ Cardinality({k}) = 1
    BY FS_Singleton
  <2> QED BY <1>8, <2>1, HubAssumption
<1>10. natsSubs \subseteq 1 .. made'
  BY <1>2, <1>7
<1>11. HubRows'
  BY <1>2, <1>3, <1>5, <1>6, <1>7, <1>8, <1>9, <1>10 DEF HubInv, HubRows
<1>12. Opening(s) /\ ~Up(s) /\ ~Opening(g) /\ ~Up(g)
  BY <1>1, <1>4 DEF Opening, Up
<1>13. \A l \in Sockets : l # k /\ (Opening(sock[l]) \/ Up(sock[l])) => sock[l].done
  BY <1>5, HubKinds DEF HubInv, SockFits
<1>14. \A l \in Sockets : Opening(sock[l]) => l # k /\ sock[l].sub \in 1 .. made /\ sock[l].sub # n
  BY <1>1, <1>2, <1>3, <1>12 DEF HubInv, SockFits
<1>15. ASSUME NEW l \in Sockets PROVE SockFits(l, sock[l])'
  <2>1. CASE l = k
    BY <1>2, <1>3, <1>4, <1>5, <1>6, <1>7, <1>8, <1>12, <2>1 DEF SockFits, Opening, Up
  <2>2. CASE l # k
    <3>1. SockFits(l, sock[l]) /\ sock'[l] = sock[l]
      BY <1>6, <2>2 DEF HubInv
    <3>2. Opening(sock[l]) => sock[l].sub \in 1 .. made' /\ hubSub'.id # sock[l].sub
      BY <1>2, <1>8, <1>14
    <3> QED BY <1>5, <1>13, <2>2, <3>1, <3>2 DEF SockFits, Opening, Up
  <2> QED BY <2>1, <2>2
<1>16. \A m : Opens(m) => Opens(m)'
  <2>1. \A l \in Sockets : Opening(sock[l]) => sock'[l] = sock[l]
    BY <1>6, <1>14
  <2> QED BY <2>1 DEF Opens, Opening
<1>17. Opens(n)'
  BY <1>4, <1>6 DEF Opens, Opening
<1>18. EntryFits'
  <2>1. \A m \in natsSubs : m \in cancels \/ Opens(m)
    BY <1>5, HubKinds DEF HubInv, EntryFits
  <2> QED BY <1>5, <1>8, <1>16, <1>17, <2>1 DEF EntryFits
<1>19. (\A j, l \in Sockets : Opening(sock[j]) /\ Opening(sock[l]) /\ sock[j].sub = sock[l].sub => j = l)'
  <2>1. ASSUME NEW j \in Sockets, NEW l \in Sockets, Opening(sock'[j]), Opening(sock'[l]), sock'[j].sub = sock'[l].sub
        PROVE  j = l
    BY <1>4, <1>6, <1>14, <2>1 DEF HubInv
  <2> QED BY <2>1 DEF Opening
<1> QED BY <1>11, <1>15, <1>18, <1>19 DEF HubInv

\* The subscription opens, or fails.
LEMMA OnBroadcastKeeps == ASSUME HubInv, NEW k \in Sockets, OnBroadcast(k) PROVE HubInv'
<1>1. sock[k] \in SockRow /\ sock[k].phase = "subscribing" /\ Opening(sock[k]) /\ SockFits(k, sock[k])
  BY DEF HubInv, HubRows, OnBroadcast, SockAt, Opening
<1>2. UNCHANGED <<wsSession, hubSub, cancels, made, sent>> /\ wsSession \in BOOLEAN /\ sent \in 0 .. MaxBroadcasts
  BY DEF OnBroadcast, HubInv, HubRows
<1>3. CASE Go(k, "failed") /\ UNCHANGED natsSubs
  <2>1. PICK s \in SockRow : /\ sock' = [sock EXCEPT ![k] = s] /\ s.phase = "failed"
                             /\ s.done = sock[k].done /\ s.sub = sock[k].sub
    BY <1>3, Goes DEF Phases
  <2>2. Opening(s) /\ ~Up(s)
    BY <2>1 DEF Opening, Up
  <2>3. SockFits(k, s)
    BY <1>1, <2>1, <2>2 DEF SockFits
  <2> QED BY <1>1, <1>2, <1>3, <2>1, <2>2, <2>3, SocketMoves
<1>4. CASE Go(k, "subscribed") /\ natsSubs' = natsSubs \cup {sock[k].sub}
  <2>1. PICK s \in SockRow : /\ sock' = [sock EXCEPT ![k] = s] /\ s.phase = "subscribed"
                             /\ s.done = sock[k].done /\ s.sub = sock[k].sub
    BY <1>4, Goes DEF Phases
  <2>2. Opening(s) /\ ~Up(s)
    BY <2>1 DEF Opening, Up
  <2>3. sock' \in [Sockets -> SockRow] /\ \A l \in Sockets : sock'[l] = IF l = k THEN s ELSE sock[l]
    BY <2>1 DEF HubInv, HubRows
  <2>4. sock[k].sub \in 1 .. made
    BY <1>1 DEF SockFits
  <2>5. HubRows'
    BY <1>2, <1>4, <2>3, <2>4 DEF HubInv, HubRows
  <2>6. \A l \in Sockets : /\ Opening(sock'[l]) <=> Opening(sock[l])
                           /\ sock'[l].sub = sock[l].sub
    BY <1>1, <2>1, <2>2, <2>3
  <2>7. \A n : Opens(n)' <=> Opens(n)
    BY <2>6 DEF Opens, Opening
  <2>8. Opens(sock[k].sub)
    BY <1>1 DEF Opens
  <2>9. EntryFits'
    BY <1>2, <1>4, <2>7, <2>8 DEF HubInv, EntryFits
  <2>10. (\A j, l \in Sockets : Opening(sock[j]) /\ Opening(sock[l]) /\ sock[j].sub = sock[l].sub => j = l)'
    BY <2>6 DEF HubInv, Opening
  <2>11. ASSUME NEW l \in Sockets PROVE SockFits(l, sock[l])'
    <3>1. CASE l = k
      BY <1>1, <1>2, <1>4, <2>1, <2>2, <2>3, <3>1 DEF SockFits, Opening, Up
    <3>2. CASE l # k
      <4>1. SockFits(l, sock[l]) /\ sock'[l] = sock[l]
        BY <2>3, <3>2 DEF HubInv
      <4>2. Opening(sock[l]) => sock[l].sub # sock[k].sub
        BY <1>1, <3>2 DEF HubInv
      <4> QED BY <1>2, <1>4, <4>1, <4>2 DEF SockFits, Opening, Up
    <3> QED BY <3>1, <3>2
  <2> QED BY <2>5, <2>9, <2>10, <2>11 DEF HubInv
<1> QED BY <1>3, <1>4 DEF OnBroadcast

\* The subscription failed: the entry goes and everyone who joined behind it is closed.
LEMMA StrandKeeps == ASSUME HubInv, NEW k \in Sockets, Strand(k) PROVE HubInv'
<1> DEFINE ours == hubSub.id = sock[k].sub
           stranded == IF ours THEN hubSub.clients \ {k} ELSE {}
<1>1. sock[k].phase = "failed" /\ Opening(sock[k]) /\ SockFits(k, sock[k])
  BY DEF HubInv, HubRows, Strand, SockAt, Opening
<1>2. /\ hubSub' = IF ours THEN NoSub ELSE hubSub
      /\ sock' = [s \in Sockets |->
                    IF s = k THEN Fresh
                    ELSE IF s \in stranded THEN [sock[s] EXCEPT !.done = TRUE]
                    ELSE sock[s]]
      /\ UNCHANGED <<wsSession, natsSubs, cancels, made, sent>>
  BY DEF Strand
<1>3. ASSUME NEW l \in Sockets, l # k
      PROVE  /\ sock'[l] \in SockRow /\ sock'[l].phase = sock[l].phase /\ sock'[l].sub = sock[l].sub
             /\ IF l \in stranded THEN sock'[l].done ELSE sock'[l].done = sock[l].done
  <2>1. PICK g \in SockRow : g = sock[l]
    BY DEF HubInv, HubRows
  <2>2. sock'[l] = IF l \in stranded THEN [g EXCEPT !.done = TRUE] ELSE g
    BY <1>2, <1>3, <2>1
  <2> HIDE DEF stranded
  <2> QED BY <2>1, <2>2 DEF SockRow
<1>4. sock'[k] = Fresh
  BY <1>2
<1>5. sock' \in [Sockets -> SockRow]
  <2> HIDE DEF stranded
  <2> QED BY <1>2, <1>3, <1>4, HubKinds
<1>6. HubRows'
  <2>1. hubSub' \in Entry /\ IsFiniteSet(hubSub'.clients) /\ Cardinality(hubSub'.clients) <= MaxPerAccount
        /\ (hubSub'.id = 0 => hubSub' = NoSub) /\ hubSub'.id <= made
    <3>1. CASE ours
      <4>1. hubSub' = NoSub /\ made \in Nat
        BY <1>2, <3>1 DEF HubInv, HubRows
      <4> QED BY <4>1, HubKinds
    <3>2. CASE ~ours
      BY <1>2, <3>2 DEF HubInv, HubRows
    <3> QED BY <3>1, <3>2
  <2> QED BY <1>2, <1>5, <2>1 DEF HubInv, HubRows
<1> HIDE DEF stranded
<1>7. \A l \in Sockets : /\ Opening(sock'[l]) <=> l # k /\ Opening(sock[l])
                         /\ Opening(sock'[l]) => sock'[l].sub = sock[l].sub
                         /\ Up(sock'[l]) => l # k /\ Up(sock[l])
  BY <1>3, <1>4, HubKinds DEF Opening, Up
<1>8. (\A j, l \in Sockets : Opening(sock[j]) /\ Opening(sock[l]) /\ sock[j].sub = sock[l].sub => j = l)'
  BY <1>7 DEF HubInv, Opening
<1>9. \A n : n # sock[k].sub => (Opens(n)' <=> Opens(n))
  BY <1>7 DEF Opens, Opening
<1>10. sock[k].sub \notin natsSubs
  BY <1>1 DEF SockFits
<1>11. EntryFits'
  <2>1. \A n \in natsSubs : (hubSub'.id = n /\ hubSub'.cancel) \/ n \in cancels \/ Opens(n)'
    BY <1>2, <1>9, <1>10 DEF HubInv, EntryFits
  <2>2. hubSub'.id # 0 => IF hubSub'.cancel THEN hubSub'.id \in natsSubs /\ hubSub'.id \notin cancels
                          ELSE Opens(hubSub.id)'
    <3>1. CASE ours
      BY <1>2, <3>1, HubKinds
    <3>2. CASE ~ours
      <4>1. PICK m : m = hubSub.id
        OBVIOUS
      <4>2. Opens(m)' <=> Opens(m)
        BY <1>9, <3>2, <4>1
      <4>3. hubSub' = hubSub
        BY <1>2, <3>2
      <4>4. m # 0 => IF hubSub.cancel THEN m \in natsSubs /\ m \notin cancels ELSE Opens(m)
        BY <4>1 DEF HubInv, EntryFits
      <4>5. m # 0 => IF hubSub'.cancel THEN m \in natsSubs /\ m \notin cancels ELSE Opens(m)'
        BY <4>2, <4>3, <4>4
      <4> QED BY <4>1, <4>3, <4>5 DEF Opens
    <3> QED BY <3>1, <3>2
  <2> QED BY <1>2, <2>1, <2>2 DEF EntryFits, Opens
<1>12. ASSUME NEW l \in Sockets PROVE SockFits(l, sock[l])'
  <2>1. CASE l = k
    BY <1>4, <2>1, HubKinds DEF SockFits, Opening, Up
  <2>2. CASE l # k
    <3>1. SockFits(l, sock[l])
      BY DEF HubInv
    <3>2. CASE ours
      <4>1. l \in hubSub.clients => sock'[l].done
        BY <1>3, <2>2, <3>2 DEF stranded
      <4>2. ~sock'[l].done /\ (Opening(sock[l]) \/ Up(sock[l])) => FALSE
        <5>1. SUFFICES ASSUME ~sock'[l].done, Opening(sock[l]) \/ Up(sock[l]) PROVE FALSE
          OBVIOUS
        <5>2. ~sock[l].done \/ l \in hubSub.clients
          BY <1>3, <2>2, <5>1 DEF stranded
        <5> QED BY <3>1, <4>1, <5>1, <5>2 DEF SockFits
      <4>3. hubSub'.id = 0 /\ (Opening(sock[l]) => sock[l].sub # 0)
        BY <1>2, <3>1, <3>2, HubKinds DEF SockFits
      <4>4. sock'[l].phase = sock[l].phase
        BY <1>3, <2>2
      <4> QED BY <1>2, <1>7, <3>1, <4>2, <4>3, <4>4 DEF SockFits, Opening, Up
    <3>3. CASE ~ours
      <4>1. hubSub' = hubSub /\ sock'[l] = sock[l]
        BY <1>2, <2>2, <3>3 DEF stranded
      <4> QED BY <1>2, <3>1, <4>1 DEF SockFits, Opening, Up
    <3> QED BY <3>2, <3>3
  <2> QED BY <2>1, <2>2
<1> QED BY <1>6, <1>8, <1>11, <1>12 DEF HubInv

\* The cancel is handed to the entry, or is owed at once when the entry has gone.
LEMMA SettleKeeps == ASSUME HubInv, NEW k \in Sockets, Settle(k) PROVE HubInv'
<1>1. sock[k].phase = "subscribed" /\ Opening(sock[k]) /\ SockFits(k, sock[k])
  BY DEF HubInv, HubRows, Settle, SockAt, Opening
<1>2. UNCHANGED <<wsSession, natsSubs, made, sent>> /\ Go(k, "joined")
  BY DEF Settle
<1>3. PICK s \in SockRow : /\ sock' = [sock EXCEPT ![k] = s] /\ s.phase = "joined"
                           /\ s.done = sock[k].done /\ s.sub = sock[k].sub
  BY <1>2, Goes DEF Phases
<1>4. sock' \in [Sockets -> SockRow] /\ \A l \in Sockets : sock'[l] = IF l = k THEN s ELSE sock[l]
  BY <1>3 DEF HubInv, HubRows
<1>5. ~Opening(s)
  BY <1>3 DEF Opening
<1>6. PICK m \in 1 .. made : m = sock[k].sub /\ m \in natsSubs /\ m \notin cancels
  BY <1>1 DEF SockFits
<1>7. \A n : n # m => (Opens(n)' <=> Opens(n))
  BY <1>4, <1>5, <1>6 DEF Opens, Opening
<1>8. (\A j, l \in Sockets : Opening(sock[j]) /\ Opening(sock[l]) /\ sock[j].sub = sock[l].sub => j = l)'
  <2>1. \A l \in Sockets : Opening(sock'[l]) => sock'[l] = sock[l]
    BY <1>4, <1>5
  <2> QED BY <2>1 DEF HubInv, Opening
<1>9. \A l \in Sockets : l # k /\ Opening(sock[l]) => sock[l].sub # m
  BY <1>1, <1>6 DEF HubInv
<1>10. CASE hubSub.id = m
  <2>1. hubSub' = [hubSub EXCEPT !.cancel = TRUE] /\ cancels' = cancels
    BY <1>6, <1>10 DEF Settle
  <2>2. hubSub' \in Entry /\ hubSub'.id = m /\ hubSub'.cancel = TRUE /\ hubSub'.clients = hubSub.clients
    BY <1>10, <2>1 DEF HubInv, HubRows, Entry
  <2>3. HubRows'
    BY <1>2, <1>4, <1>6, <1>10, <2>1, <2>2 DEF HubInv, HubRows
  <2>4. EntryFits'
    <3>1. \A n \in natsSubs : n = m \/ n \in cancels \/ Opens(n)'
      BY <1>7, <1>10 DEF HubInv, EntryFits
    <3> QED BY <1>2, <1>6, <2>1, <2>2, <3>1 DEF EntryFits, Opens
  <2>5. ASSUME NEW l \in Sockets PROVE SockFits(l, sock[l])'
    <3>1. CASE l = k
      <4>1. ~s.done => k \in hubSub'.clients
        BY <1>1, <1>3, <2>2 DEF SockFits
      <4> QED BY <1>4, <1>5, <3>1, <4>1 DEF SockFits, Opening
    <3>2. CASE l # k
      <4>1. SockFits(l, sock[l]) /\ sock'[l] = sock[l]
        BY <1>4, <3>2 DEF HubInv
      <4> QED BY <1>2, <1>9, <1>10, <2>1, <2>2, <3>2, <4>1 DEF SockFits, Opening, Up
    <3> QED BY <3>1, <3>2
  <2> QED BY <1>8, <2>3, <2>4, <2>5 DEF HubInv
<1>11. CASE hubSub.id # m
  <2>1. cancels' = cancels \cup {m} /\ hubSub' = hubSub
    BY <1>6, <1>11 DEF Settle
  <2>2. HubRows'
    BY <1>2, <1>4, <1>6, <2>1 DEF HubInv, HubRows
  <2>3. PICK e : e = hubSub.id
    OBVIOUS
  <2>4. e # 0 => IF hubSub.cancel THEN e \in natsSubs /\ e \notin cancels' ELSE Opens(e)'
    BY <1>7, <1>11, <2>1, <2>3 DEF HubInv, EntryFits
  <2>5. \A n \in natsSubs : (n = e /\ hubSub.cancel) \/ n \in cancels' \/ Opens(n)'
    BY <1>7, <2>1, <2>3 DEF HubInv, EntryFits
  <2>6. EntryFits'
    BY <1>2, <2>1, <2>3, <2>4, <2>5 DEF EntryFits, Opens
  <2>7. ASSUME NEW l \in Sockets PROVE SockFits(l, sock[l])'
    <3>1. CASE l = k
      <4>1. s.done
        BY <1>1, <1>3, <1>6, <1>11 DEF SockFits
      <4> QED BY <1>4, <1>5, <3>1, <4>1 DEF SockFits, Opening, Up
    <3>2. CASE l # k
      <4>1. SockFits(l, sock[l]) /\ sock'[l] = sock[l]
        BY <1>4, <3>2 DEF HubInv
      <4> QED BY <1>2, <1>9, <2>1, <3>2, <4>1 DEF SockFits, Opening, Up
    <3> QED BY <3>1, <3>2
  <2> QED BY <1>8, <2>2, <2>6, <2>7 DEF HubInv
<1> QED BY <1>10, <1>11

\* An owed cancel is called: nothing relies on its subscription any more.
LEMMA CancelKeeps == ASSUME HubInv, NEW n \in cancels, CancelSubscription(n) PROVE HubInv'
<1>1. cancels' = cancels \ {n} /\ natsSubs' = natsSubs \ {n}
      /\ UNCHANGED <<wsSession, sock, hubSub, made, sent>>
  BY DEF CancelSubscription
<1>2. HubRows'
  BY <1>1 DEF HubInv, HubRows
<1>3. \A m : Opens(m)' <=> Opens(m)
  BY <1>1 DEF Opens
<1>4. EntryFits'
  BY <1>1, <1>3 DEF HubInv, EntryFits
<1>5. ASSUME NEW k \in Sockets PROVE SockFits(k, sock[k])'
  BY <1>1 DEF HubInv, SockFits, Opening, Up
<1> QED BY <1>1, <1>2, <1>4, <1>5 DEF HubInv, Opening

\* Every step of the hub keeps the invariant.
LEMMA HubInvKept == HubInv /\ [HubNext]_hubVars => HubInv'
<1> SUFFICES ASSUME HubInv, [HubNext]_hubVars PROVE HubInv'
  OBVIOUS
<1>1. sock \in [Sockets -> SockRow] /\ wsSession \in BOOLEAN /\ sent \in 0 .. MaxBroadcasts
  BY DEF HubInv, HubRows
<1>2. ASSUME NEW k \in Sockets, NEW phase \in {"idle", "ticketed", "redeemed", "admitted"}, Go(k, phase),
             sock[k].phase \in {"idle", "ticketed", "redeemed", "admitted"},
             UNCHANGED <<wsSession, hubSub, natsSubs, cancels, made, sent>>
      PROVE  HubInv'
  <2>1. PICK s \in SockRow : sock' = [sock EXCEPT ![k] = s] /\ s.phase = phase
    BY <1>2, Goes DEF Phases
  <2>2. ~Opening(s) /\ ~Up(s) /\ ~Opening(sock[k])
    BY <1>2, <2>1 DEF Opening, Up
  <2> QED BY <1>1, <1>2, <2>1, <2>2, SocketMoves DEF SockFits
<1>3. ASSUME NEW k \in Sockets, CreateTicket(k) \/ Redeem(k) \/ CheckSession(k) PROVE HubInv'
  BY <1>2, <1>3 DEF CreateTicket, Redeem, CheckSession, SockAt
<1>4. ASSUME NEW k \in Sockets, AcceptSocket(k) PROVE HubInv'
  <2>1. Up(sock[k])
    BY <1>4 DEF AcceptSocket, SockAt, Up
  <2>2. CASE Go(k, "streaming") /\ UNCHANGED <<wsSession, hubSub, natsSubs, cancels, made, sent>>
    <3>1. PICK s \in SockRow : /\ sock' = [sock EXCEPT ![k] = s] /\ s.phase = "streaming"
                               /\ s.done = sock[k].done
      BY <2>2, Goes DEF Phases
    <3>2. ~Opening(s) /\ Up(s) /\ ~Opening(sock[k])
      BY <2>1, <3>1 DEF Opening, Up
    <3>3. SockFits(k, s)
      BY <2>1, <3>1, <3>2 DEF HubInv, SockFits
    <3> QED BY <1>1, <2>2, <3>1, <3>2, <3>3, SocketMoves
  <2> QED BY <1>4, <2>1, <2>2, LeaveKeeps DEF AcceptSocket
<1>5. ASSUME NEW k \in Sockets, PumpDone(k) \/ PumpWrite(k) \/ PeerGone(k) \/ PumpPing(k) PROVE HubInv'
  <2>1. Up(sock[k])
    BY <1>5 DEF PumpDone, PumpWrite, PeerGone, PumpPing, SockAt, Up
  <2>2. CASE Leave(k)
    BY <2>1, <2>2, LeaveKeeps
  <2>3. CASE PumpWrite(k) /\ ~Leave(k)
    <3>1. PICK g \in SockRow : g = sock[k]
      BY <1>1
    <3> DEFINE s == [g EXCEPT !.buffered = g.buffered - 1]
    <3>2. s \in SockRow /\ s.phase = g.phase /\ s.done = g.done /\ s.sub = g.sub
      <4>1. g.buffered - 1 \in 0 .. SendBuffer
        BY <2>3, <3>1, HubAssumption DEF PumpWrite, SockRow
      <4> QED BY <4>1 DEF SockRow
    <3>3. sock' = [sock EXCEPT ![k] = s] /\ UNCHANGED <<wsSession, hubSub, natsSubs, cancels, made, sent>>
      BY <1>1, <2>3, <3>1 DEF PumpWrite
    <3> HIDE DEF s
    <3>4. ~Opening(s) /\ ~Opening(sock[k]) /\ Up(s)
      BY <2>1, <3>1, <3>2 DEF Up, Opening
    <3>5. SockFits(k, s)
      BY <2>1, <3>1, <3>2, <3>4 DEF HubInv, SockFits
    <3> QED BY <1>1, <3>2, <3>3, <3>4, <3>5, SocketMoves
  <2> QED BY <1>5, <2>2, <2>3 DEF PumpDone, PeerGone, PumpPing
<1>6. CASE UNCHANGED <<sock, hubSub, natsSubs, cancels, made, sent>> /\ wsSession' \in BOOLEAN
  BY <1>6 DEF HubInv, HubRows, EntryFits, Opens, SockFits, Opening, Up
<1>7. CASE RevokeWsSession \/ UNCHANGED hubVars
  BY <1>1, <1>6, <1>7 DEF RevokeWsSession, hubVars
<1>8. CASE HubNext
  BY <1>3, <1>4, <1>5, <1>7, <1>8, JoinKeeps, ClaimKeeps, OnBroadcastKeeps, StrandKeeps, SettleKeeps,
     CancelKeeps, BroadcastKeeps
     DEF HubNext, Connect
<1> QED BY <1>7, <1>8

-----------------------------------------------------------------------------
\* The uploads of a module.

Confirming == [slot : Slots \cup {NoSlot}, size : Sizes \cup {NoBytes}]
Reaping == [todo : SUBSET Slots, doomed : Slots \cup {NoSlot}]

UploadRows ==
  /\ resource \in [Slots -> Resource \cup {NoResource}] /\ object \in [Slots -> Sizes \cup {NoBytes}]
  /\ age \in [Slots -> 0 .. 2] /\ putting \subseteq Slots
  /\ confirming \in [Confirmers -> Confirming] /\ links \subseteq Slots \X Stores
  /\ reaping \in Reaping /\ reading \in Slots \cup {NoSlot}
  /\ read \in [Slots -> {"unread", "blob", "not-found", "too-large", "not-readable"}]

\* A row that has been confirmed, whether or not it was deleted since.
Completed(r) == Reserved(r) /\ resource[r].completed # NotCompleted
Deleted(r) == Reserved(r) /\ resource[r].deleted
Local(r) == Reserved(r) /\ resource[r].provider = "local"
Kept(r) == object[r] # NoBytes

\* A confirmation saw the object, which only the withdrawal of the row removes; a
\* link and a fetch are of a row that was confirmed; the reaper has listed rows
\* past the window, confirmed since or never, and removes the object of a row it
\* has deleted.
SlotFits(s) ==
  /\ Completed(s) /\ Local(s) => Kept(s) \/ Deleted(s)
  /\ Deleted(s) => resource[s].completed \in {NotCompleted, 2}
  /\ \A c \in Confirmers : confirming[c].slot = s =>
       Local(s) /\ confirming[c].size \in Sizes /\ (Kept(s) \/ Deleted(s))
  /\ \A w \in Stores : <<s, w>> \in links => Completed(s) /\ (w = "local" => Local(s))
  /\ reading = s => Completed(s)
  /\ read[s] = "not-found" => Deleted(s)
  /\ reaping.doomed = s => Deleted(s)
  /\ s \in reaping.todo => Reserved(s) /\ age[s] = 2 /\ resource[s].completed \in {NotCompleted, 2}

UploadInv == UploadRows /\ \A s \in Slots : SlotFits(s)

\* A row is not the absence of one.
LEMMA ResourceRow == NoResource \notin Resource
<1>1. SUFFICES ASSUME NoResource \in Resource PROVE FALSE
  OBVIOUS
<1>2. DOMAIN NoResource = {"by"}
  BY DEF NoResource
<1>3. "mime" \in DOMAIN NoResource
  BY <1>1 DEF Resource
<1> QED BY <1>2, <1>3

\* The invariant says all the properties say.
LEMMA UploadsAre == UploadInv => UploadTypeOK /\ UploadsSound
<1> SUFFICES ASSUME UploadInv PROVE UploadTypeOK /\ UploadsSound
  OBVIOUS
<1>1. UploadTypeOK
  BY DEF UploadInv, UploadRows, UploadTypeOK, Confirming, Reaping
<1>2. VisibleIsThere
  <2>1. \A s \in Slots : Found(s) /\ resource[s].provider = "local" => object[s] # NoBytes
    BY DEF UploadInv, SlotFits, Found, Completed, Deleted, Local, Kept
  <2>2. \A l \in links : \E s \in Slots, w \in Stores : l = <<s, w>>
    BY DEF UploadInv, UploadRows
  <2>3. \A s \in Slots : <<s, "local">> \in links => object[s] # NoBytes \/ resource[s].deleted
    BY DEF UploadInv, SlotFits, Completed, Deleted, Local, Kept, Stores
  <2>4. \A s \in Slots : read[s] = "not-found" => resource[s].deleted
    BY DEF UploadInv, SlotFits, Deleted
  <2> QED BY <2>1, <2>2, <2>3, <2>4 DEF VisibleIsThere
<1>3. ConfirmedInTimeStays
  BY DEF UploadInv, SlotFits, ConfirmedInTimeStays, Deleted
<1> QED BY <1>1, <1>2, <1>3 DEF UploadsSound

\* No slot has been reserved.
LEMMA UploadInvFirst == UploadInit => UploadInv
<1> SUFFICES ASSUME UploadInit PROVE UploadInv
  OBVIOUS
<1>1. UploadRows
  BY UploadLimits DEF UploadInit, UploadRows, NotConfirming, Confirming, Reaping
<1>2. \A s \in Slots : ~Reserved(s) /\ read[s] = "unread"
  BY DEF UploadInit, Reserved
<1>3. \A c \in Confirmers : confirming[c].slot = NoSlot
  BY DEF UploadInit, NotConfirming
<1>4. \A s \in Slots : SlotFits(s)
  BY <1>2, <1>3, UploadLimits DEF UploadInit, SlotFits, Completed, Deleted
<1> QED BY <1>1, <1>4 DEF UploadInv

\* A step that leaves rows and objects alone.
LEMMA RowsRest ==
  ASSUME UNCHANGED <<resource, object>>
  PROVE  \A r : /\ Reserved(r)' <=> Reserved(r)
                /\ Completed(r)' <=> Completed(r)
                /\ Deleted(r)' <=> Deleted(r)
                /\ Local(r)' <=> Local(r)
                /\ Kept(r)' <=> Kept(r)
BY DEF Reserved, Completed, Deleted, Local, Kept

\* What the rows say of the slot whose row becomes m, and of every other slot.
LEMMA RowTurns ==
  ASSUME UploadInv, NEW r \in Slots, NEW m \in Resource, resource' = [resource EXCEPT ![r] = m]
  PROVE  /\ resource' \in [Slots -> Resource \cup {NoResource}]
         /\ \A s \in Slots : resource'[s] = IF s = r THEN m ELSE resource[s]
         /\ \A s \in Slots : s # r => /\ Reserved(s)' <=> Reserved(s)
                                      /\ Completed(s)' <=> Completed(s)
                                      /\ Deleted(s)' <=> Deleted(s)
                                      /\ Local(s)' <=> Local(s)
         /\ Reserved(r)'
         /\ Completed(r)' <=> m.completed # NotCompleted
         /\ Deleted(r)' <=> m.deleted
         /\ Local(r)' <=> m.provider = "local"
<1>1. resource \in [Slots -> Resource \cup {NoResource}]
  BY DEF UploadInv, UploadRows
<1>2. \A s \in Slots : resource'[s] = IF s = r THEN m ELSE resource[s]
  BY <1>1
<1>3. m # NoResource
  BY ResourceRow
<1>4. resource'[r] = m
  BY <1>2
<1>5. resource' \in [Slots -> Resource \cup {NoResource}]
  BY <1>1
<1>6. \A s \in Slots : s # r => resource'[s] = resource[s]
  BY <1>2
<1>7. \A s \in Slots : s # r => /\ Reserved(s)' <=> Reserved(s)
                                /\ Completed(s)' <=> Completed(s)
                                /\ Deleted(s)' <=> Deleted(s)
                                /\ Local(s)' <=> Local(s)
  BY <1>6 DEF Reserved, Completed, Deleted, Local
<1>8. /\ Reserved(r)'
      /\ Completed(r)' <=> m.completed # NotCompleted
      /\ Deleted(r)' <=> m.deleted
      /\ Local(r)' <=> m.provider = "local"
  BY <1>3, <1>4 DEF Reserved, Completed, Deleted, Local
<1> QED BY <1>2, <1>5, <1>7, <1>8

\* The row of a reserved slot.
LEMMA RowAt ==
  ASSUME UploadInv, NEW r \in Slots, Reserved(r)
  PROVE  \E m \in Resource : /\ m = resource[r] /\ (Completed(r) <=> m.completed # NotCompleted)
                             /\ (Deleted(r) <=> m.deleted) /\ (Local(r) <=> m.provider = "local")
BY DEF UploadInv, UploadRows, Reserved, Completed, Deleted, Local

\* A slot nobody reserved gets a row: pending, or another store's and complete.
LEMMA NewRowKeeps ==
  ASSUME UploadInv, NEW r \in Slots, ~Reserved(r), NEW m \in Resource, ~m.deleted,
         m.completed = NotCompleted \/ m.provider = "remote",
         resource' = [resource EXCEPT ![r] = m],
         UNCHANGED <<age, object, putting, confirming, links, reaping, reading, read>>
  PROVE  UploadInv'
<1>1. ~Completed(r) /\ ~Deleted(r) /\ ~Local(r)
  BY DEF Completed, Deleted, Local
<1>2. UploadRows'
  BY RowTurns DEF UploadInv, UploadRows
<1>3. SlotFits(r)
  BY DEF UploadInv
<1>4. SlotFits(r)'
  <2>1. ~Deleted(r)' /\ ~(Completed(r)' /\ Local(r)')
    BY RowTurns
  <2> QED BY <1>1, <1>3, <2>1 DEF SlotFits
<1>5. ASSUME NEW s \in Slots, s # r PROVE SlotFits(s)'
  <2>1. SlotFits(s)
    BY DEF UploadInv
  <2> QED BY <1>5, <2>1, RowTurns DEF SlotFits, Kept
<1> QED BY <1>2, <1>4, <1>5 DEF UploadInv

\* CreateUpload and ImportRemote.
LEMMA ReserveKeeps ==
  ASSUME UploadInv, NEW r \in Slots, NEW u \in Uploaders,
         \/ ImportRemote(r, u)
         \/ \E mime \in Classes, named \in Classes, size \in Sizes : Presign(r, u, mime, named, size)
  PROVE  UploadInv'
<1>1. CASE ImportRemote(r, u)
  <2> DEFINE m == [by |-> u, provider |-> "remote", mime |-> "image", named |-> "image",
                   size |-> 0, completed |-> 0, deleted |-> FALSE]
  <2>1. m \in Resource /\ ~m.deleted /\ m.provider = "remote"
    BY UploadLimits DEF Resource, Stores, Classes, Sizes, NotCompleted
  <2>2. /\ ~Reserved(r) /\ resource' = [resource EXCEPT ![r] = m]
        /\ UNCHANGED <<age, object, putting, confirming, links, reaping, reading, read>>
    BY <1>1 DEF ImportRemote
  <2> HIDE DEF m
  <2> QED BY <2>1, <2>2, NewRowKeeps
<1>2. ASSUME NEW mime \in Classes, NEW named \in Classes, NEW size \in Sizes, Presign(r, u, mime, named, size)
      PROVE  UploadInv'
  <2> DEFINE m == [by |-> u, provider |-> "local", mime |-> mime, named |-> named,
                   size |-> size, completed |-> NotCompleted, deleted |-> FALSE]
  <2>1. m \in Resource /\ ~m.deleted /\ m.completed = NotCompleted
    BY DEF Resource, Stores, NotCompleted
  <2>2. /\ ~Reserved(r) /\ resource' = [resource EXCEPT ![r] = m]
        /\ UNCHANGED <<age, object, putting, confirming, links, reaping, reading, read>>
    BY <1>2 DEF Presign
  <2> HIDE DEF m
  <2> QED BY <2>1, <2>2, NewRowKeeps
<1> QED BY <1>1, <1>2

\* A confirmation lands on a row still pending, and links to it; or it is dropped.
LEMMA ConfirmKeeps == ASSUME UploadInv, NEW c \in Confirmers, Confirm(c) PROVE UploadInv'
<1>1. confirming \in [Confirmers -> Confirming] /\ confirming' = [confirming EXCEPT ![c] = NotConfirming]
  BY DEF Confirm, UploadInv, UploadRows
<1>2. confirming' \in [Confirmers -> Confirming]
      /\ \A d \in Confirmers, s \in Slots : confirming'[d].slot = s => confirming'[d] = confirming[d]
  BY <1>1, UploadLimits DEF Confirming, NotConfirming
<1>3. PICK r \in Slots, n \in Sizes \cup {NoBytes} : confirming[c].slot = r /\ n = confirming[c].size
  BY <1>1 DEF Confirm, Confirming
<1>4. SlotFits(r) /\ Local(r) /\ n \in Sizes /\ (Kept(r) \/ Deleted(r)) /\ Reserved(r)
  BY <1>3 DEF UploadInv, SlotFits, Local
<1>5. UNCHANGED <<age, object, putting, reaping, reading, read>>
  BY DEF Confirm
<1>6. CASE ~ConfirmLands(r)
  <2>1. UNCHANGED <<resource, links>>
    BY <1>3, <1>6 DEF Confirm
  <2>2. UploadRows'
    BY <1>2, <1>5, <2>1 DEF UploadInv, UploadRows
  <2>3. ASSUME NEW s \in Slots PROVE SlotFits(s)'
    <3>1. SlotFits(s)
      BY DEF UploadInv
    <3>2. /\ Reserved(s)' <=> Reserved(s)
          /\ Completed(s)' <=> Completed(s)
          /\ Deleted(s)' <=> Deleted(s)
          /\ Local(s)' <=> Local(s)
          /\ Kept(s)' <=> Kept(s)
      BY <1>5, <2>1, RowsRest
    <3> QED BY <1>2, <1>5, <2>1, <3>1, <3>2 DEF SlotFits
  <2> QED BY <2>2, <2>3 DEF UploadInv
<1>7. CASE ConfirmLands(r)
  <2>1. PICK g \in Resource : g = resource[r] /\ (Deleted(r) <=> g.deleted) /\ (Local(r) <=> g.provider = "local")
    BY <1>4, RowAt
  <2>2. age[r] \in 0 .. 2
    BY DEF UploadInv, UploadRows
  <2> DEFINE m == [g EXCEPT !.completed = age[r], !.size = n]
  <2>3. m \in Resource /\ m.completed = age[r] /\ m.completed # NotCompleted /\ m.deleted = g.deleted
        /\ m.provider = g.provider
    <3>1. age[r] \in NotCompleted .. 2 /\ age[r] # NotCompleted
      BY <2>2 DEF NotCompleted
    <3> QED BY <1>4, <3>1 DEF Resource
  <2>4. resource' = [resource EXCEPT ![r] = m]
    BY <1>3, <1>7, <2>1 DEF Confirm, UploadInv, UploadRows
  <2>5. ~Deleted(r) /\ sign(r) = "local" /\ links' = links \cup {<<r, "local">>}
    BY <1>3, <1>4, <1>7, <2>1 DEF Confirm, ConfirmLands, Pending, Deleted, sign
  <2> HIDE DEF m
  <2>6. Completed(r)' /\ ~Deleted(r)' /\ Local(r)' /\ Reserved(r)' /\ resource'[r].completed = age[r]
    BY <1>4, <2>1, <2>3, <2>4, <2>5, RowTurns
  <2>7. UploadRows'
    BY <1>2, <1>5, <2>3, <2>4, <2>5, RowTurns DEF UploadInv, UploadRows, Stores
  <2>8. SlotFits(r)'
    BY <1>2, <1>4, <1>5, <2>5, <2>6 DEF SlotFits, Kept
  <2>9. ASSUME NEW s \in Slots, s # r PROVE SlotFits(s)'
    <3>1. SlotFits(s)
      BY DEF UploadInv
    <3>2. /\ Reserved(s)' <=> Reserved(s)
          /\ Completed(s)' <=> Completed(s)
          /\ Deleted(s)' <=> Deleted(s)
          /\ Local(s)' <=> Local(s)
          /\ resource'[s] = resource[s]
      BY <2>3, <2>4, <2>9, RowTurns
    <3>3. \A w : <<s, w>> \in links' <=> <<s, w>> \in links
      BY <2>5, <2>9
    <3> QED BY <1>2, <1>5, <3>1, <3>2, <3>3 DEF SlotFits, Kept
  <2> QED BY <2>7, <2>8, <2>9 DEF UploadInv
<1> QED BY <1>6, <1>7

\* The reaper deletes a row of its list.
LEMMA ReapRowKeeps == ASSUME UploadInv, NEW r \in Slots, ReapRow(r) PROVE UploadInv'
<1>1. SlotFits(r) /\ Reserved(r) /\ resource[r].completed \in {NotCompleted, 2} /\ age[r] = 2
  BY DEF ReapRow, UploadInv, SlotFits
<1>2. PICK g \in Resource : /\ g = resource[r] /\ (Completed(r) <=> g.completed # NotCompleted)
                            /\ (Local(r) <=> g.provider = "local")
  BY <1>1, RowAt
<1> DEFINE m == [g EXCEPT !.deleted = TRUE]
<1>3. m \in Resource /\ m.deleted /\ m.completed = g.completed /\ m.provider = g.provider
  BY DEF Resource
<1>4. resource' = [resource EXCEPT ![r] = m]
  BY <1>2 DEF ReapRow, DeleteRow, UploadInv, UploadRows
<1> HIDE DEF m
<1>5. /\ UNCHANGED <<age, object, putting, confirming, links, reading, read>> /\ r \in reaping.todo
      /\ reaping \in Reaping /\ reaping' = [todo |-> reaping.todo \ {r}, doomed |-> r]
  BY DEF ReapRow, DeleteRow, UploadInv, UploadRows
<1>6. reaping' \in Reaping /\ reaping'.todo \subseteq reaping.todo /\ reaping'.doomed = r
  BY <1>5 DEF Reaping
<1>7. UploadRows'
  BY <1>3, <1>4, <1>5, <1>6, RowTurns DEF UploadInv, UploadRows
<1>8. /\ Deleted(r)' /\ Reserved(r)' /\ resource'[r].completed \in {NotCompleted, 2}
      /\ (Completed(r)' <=> Completed(r)) /\ (Local(r)' <=> Local(r))
  BY <1>1, <1>2, <1>3, <1>4, RowTurns
<1>9. SlotFits(r)'
  BY <1>1, <1>5, <1>8 DEF SlotFits
<1>10. ASSUME NEW s \in Slots, s # r PROVE SlotFits(s)'
  <2>1. SlotFits(s)
    BY DEF UploadInv
  <2>2. /\ Reserved(s)' <=> Reserved(s)
        /\ Completed(s)' <=> Completed(s)
        /\ Deleted(s)' <=> Deleted(s)
        /\ Local(s)' <=> Local(s)
        /\ resource'[s] = resource[s]
    BY <1>3, <1>4, <1>10, RowTurns
  <2> QED BY <1>5, <1>6, <1>10, <2>1, <2>2 DEF SlotFits, Kept
<1> QED BY <1>7, <1>9, <1>10 DEF UploadInv

\* Bytes arrive, or the object of a row the reaper has deleted goes.
LEMMA ObjectTurns ==
  ASSUME UploadInv, NEW r \in Slots, NEW n \in Sizes \cup {NoBytes}, n # NoBytes \/ Deleted(r),
         object' = [object EXCEPT ![r] = n], putting' \subseteq Slots,
         reaping' = reaping \/ reaping' = [reaping EXCEPT !.doomed = NoSlot],
         UNCHANGED <<resource, age, confirming, links, reading, read>>
  PROVE  UploadInv'
<1>1. object \in [Slots -> Sizes \cup {NoBytes}] /\ reaping \in Reaping
  BY DEF UploadInv, UploadRows
<1>2. object' \in [Slots -> Sizes \cup {NoBytes}]
      /\ \A s \in Slots : object'[s] = IF s = r THEN n ELSE object[s]
  BY <1>1
<1>3. reaping' \in Reaping /\ reaping'.todo = reaping.todo /\ reaping'.doomed \in {reaping.doomed, NoSlot}
  BY <1>1 DEF Reaping
<1>4. UploadRows'
  BY <1>2, <1>3 DEF UploadInv, UploadRows
<1>5. \A s \in Slots : /\ Reserved(s)' <=> Reserved(s)
                       /\ Completed(s)' <=> Completed(s)
                       /\ Deleted(s)' <=> Deleted(s)
                       /\ Local(s)' <=> Local(s)
  BY DEF Reserved, Completed, Deleted, Local
<1>6. \A s \in Slots : Kept(s) => Kept(s)' \/ Deleted(s)'
  BY <1>2, <1>5 DEF Kept
<1>7. ASSUME NEW s \in Slots PROVE SlotFits(s)'
  <2>1. SlotFits(s)
    BY DEF UploadInv
  <2>2. reaping'.doomed = s => reaping.doomed = s
    BY <1>3, UploadLimits
  <2> QED BY <1>3, <1>5, <1>6, <2>1, <2>2 DEF SlotFits
<1> QED BY <1>4, <1>7 DEF UploadInv

\* A PUT commits what its limit allows; the reaper removes the object it has doomed.
LEMMA ObjectsKeep ==
  ASSUME UploadInv, ReapObject \/ \E r \in Slots, size \in Sizes : CommitPut(r, size)
  PROVE  UploadInv'
<1>1. putting \subseteq Slots /\ reaping \in Reaping
  BY DEF UploadInv, UploadRows
<1>2. ASSUME NEW r \in Slots, NEW size \in Sizes, CommitPut(r, size) PROVE UploadInv'
  <2>1. size # NoBytes
    BY UploadLimits DEF Sizes, NoBytes
  <2> QED BY <1>1, <1>2, <2>1, ObjectTurns DEF CommitPut
<1>3. ASSUME ReapObject PROVE UploadInv'
  <2>1. PICK r \in Slots : r = reaping.doomed
    BY <1>1, <1>3 DEF ReapObject, Reaping
  <2>2. Deleted(r)
    BY <2>1 DEF UploadInv, SlotFits
  <2>3. NoBytes \in Sizes \cup {NoBytes} /\ object' = [object EXCEPT ![r] = NoBytes]
        /\ reaping' = [reaping EXCEPT !.doomed = NoSlot] /\ putting' \subseteq Slots
        /\ UNCHANGED <<resource, age, confirming, links, reading, read>>
    BY <1>1, <1>3, <2>1 DEF ReapObject
  <2> QED BY <2>2, <2>3, ObjectTurns
<1> QED BY <1>2, <1>3

\* Calls and lists that leave rows and objects alone: what they add is of slots that
\* have it coming.
LEMMA CallsTurn ==
  ASSUME UploadInv, UNCHANGED <<resource, object>>, UploadRows',
         \A s \in Slots : age[s] = 2 => age'[s] = 2,
         \A c \in Confirmers, s \in Slots : confirming'[c].slot = s =>
            confirming'[c] = confirming[c] \/ (Local(s) /\ confirming'[c].size \in Sizes /\ Kept(s)),
         \A s \in Slots, w \in Stores : <<s, w>> \in links' =>
            <<s, w>> \in links \/ (Completed(s) /\ (w = "local" => Local(s))),
         \A s \in Slots : reading' = s => reading = s \/ Completed(s),
         \A s \in Slots : read'[s] = "not-found" => read[s] = "not-found" \/ Deleted(s),
         \A s \in Slots : reaping'.doomed = s => reaping.doomed = s,
         \A s \in Slots : s \in reaping'.todo =>
            s \in reaping.todo \/ (Reserved(s) /\ age[s] = 2 /\ resource[s].completed = NotCompleted)
  PROVE  UploadInv'
<1>1. ASSUME NEW s \in Slots PROVE SlotFits(s)'
  <2>1. SlotFits(s)
    BY DEF UploadInv
  <2> QED BY <2>1, RowsRest DEF SlotFits
<1> QED BY <1>1 DEF UploadInv
\* What is read or begun is as the rows and the objects have it.
LEMMA CallsKeep ==
  ASSUME UploadInv,
         \/ \E r \in Slots : SlotAges(r) \/ BeginPut(r) \/ AbortPut(r) \/ ResolveLink(r) \/ BytesFind(r)
         \/ \E c \in Confirmers, r \in Slots, u \in Uploaders : StatPending(c, r, u)
         \/ \E c \in Confirmers : ConfirmFails(c)
         \/ \E l \in links : LinkLapses(l)
         \/ BytesFetch \/ Sweep \/ ReapFails \/ UNCHANGED uploadVars
  PROVE  UploadInv'
<1>1. UploadRows /\ \A s \in Slots : SlotFits(s)
  BY DEF UploadInv
<1>2. CASE \E r \in Slots : SlotAges(r)
  <2>1. PICK r \in Slots : age[r] < 2 /\ age' = [age EXCEPT ![r] = age[r] + 1]
                          /\ UNCHANGED <<resource, object, putting, confirming, links, reaping, reading, read>>
    BY <1>2 DEF SlotAges
  <2>2. age' \in [Slots -> 0 .. 2] /\ \A s \in Slots : age[s] = 2 => age'[s] = 2
    <3>1. age \in [Slots -> 0 .. 2] /\ age[r] + 1 \in 0 .. 2
      BY <1>1, <2>1 DEF UploadRows
    <3> QED BY <2>1, <3>1
  <2>3. UploadRows'
    BY <1>1, <2>1, <2>2 DEF UploadRows
  <2> QED BY <1>1, <2>1, <2>2, <2>3, CallsTurn
<1>3. CASE \E r \in Slots : BeginPut(r) \/ AbortPut(r)
  <2>1. putting' \subseteq Slots /\ UNCHANGED <<resource, age, object, confirming, links, reaping, reading, read>>
    BY <1>1, <1>3 DEF BeginPut, AbortPut, UploadRows
  <2>2. UploadRows'
    BY <1>1, <2>1 DEF UploadRows
  <2> QED BY <1>1, <2>1, <2>2, CallsTurn
<1>4. CASE \E r \in Slots : ResolveLink(r)
  <2>1. PICK r \in Slots : Found(r) /\ links' = links \cup {<<r, sign(r)>>}
                          /\ UNCHANGED <<resource, age, object, putting, confirming, reaping, reading, read>>
    BY <1>4 DEF ResolveLink
  <2>2. Reserved(r) /\ Completed(r) /\ (sign(r) = "local" <=> Local(r))
    BY <2>1 DEF Found, Completed, Local, sign
  <2>3. sign(r) \in Stores
    BY <1>1, <2>2, RowAt DEF UploadInv, sign, Resource
  <2>4. UploadRows'
    BY <1>1, <2>1, <2>3 DEF UploadRows
  <2>5. ASSUME NEW s \in Slots, NEW w \in Stores, <<s, w>> \in links'
        PROVE  <<s, w>> \in links \/ (Completed(s) /\ (w = "local" => Local(s)))
    BY <2>1, <2>2, <2>5
  <2> QED BY <1>1, <2>1, <2>4, <2>5, CallsTurn
<1>5. CASE \E r \in Slots : BytesFind(r)
  <2>1. PICK r \in Slots : Found(r) /\ reading' = r
                          /\ UNCHANGED <<resource, age, object, putting, confirming, links, reaping, read>>
    BY <1>5 DEF BytesFind
  <2>2. Completed(r)
    BY <2>1 DEF Found, Completed
  <2>3. UploadRows'
    BY <1>1, <2>1 DEF UploadRows
  <2> QED BY <1>1, <2>1, <2>2, <2>3, CallsTurn
<1>6. ASSUME NEW c \in Confirmers, NEW r \in Slots, NEW u \in Uploaders, StatPending(c, r, u)
      PROVE  UploadInv'
  <2>1. /\ Local(r) /\ Kept(r) /\ confirming' = [confirming EXCEPT ![c] = [slot |-> r, size |-> object[r]]]
        /\ UNCHANGED <<resource, age, object, putting, links, reaping, reading, read>>
    BY <1>6 DEF StatPending, Pending, Local, Kept
  <2> DEFINE f == [slot |-> r, size |-> object[r]]
  <2>2. f \in Confirming /\ f.slot = r /\ f.size \in Sizes
    BY <1>1, <2>1 DEF UploadRows, Confirming, Kept
  <2>3. confirming \in [Confirmers -> Confirming] /\ confirming' = [confirming EXCEPT ![c] = f]
    BY <1>1, <2>1 DEF UploadRows
  <2> HIDE DEF f
  <2>4. confirming' \in [Confirmers -> Confirming]
        /\ \A d \in Confirmers : confirming'[d] = IF d = c THEN f ELSE confirming[d]
    BY <2>2, <2>3
  <2>5. UploadRows'
    BY <1>1, <2>1, <2>4 DEF UploadRows
  <2>6. ASSUME NEW d \in Confirmers, NEW s \in Slots, confirming'[d].slot = s
        PROVE  confirming'[d] = confirming[d] \/ (Local(s) /\ confirming'[d].size \in Sizes /\ Kept(s))
    BY <2>1, <2>2, <2>4, <2>6
  <2> QED BY <1>1, <2>1, <2>5, <2>6, CallsTurn
<1>7. ASSUME NEW c \in Confirmers, ConfirmFails(c) PROVE UploadInv'
  <2>1. /\ confirming' = [confirming EXCEPT ![c] = NotConfirming]
        /\ UNCHANGED <<resource, age, object, putting, links, reaping, reading, read>>
    BY <1>7 DEF ConfirmFails
  <2>2. confirming' \in [Confirmers -> Confirming]
        /\ \A d \in Confirmers, s \in Slots : confirming'[d].slot = s => confirming'[d] = confirming[d]
    BY <1>1, <2>1, UploadLimits DEF UploadRows, Confirming, NotConfirming
  <2>3. UploadRows'
    BY <1>1, <2>1, <2>2 DEF UploadRows
  <2> QED BY <1>1, <2>1, <2>2, <2>3, CallsTurn
<1>8. CASE \E l \in links : LinkLapses(l)
  <2>1. links' \subseteq links /\ UNCHANGED <<resource, age, object, putting, confirming, reaping, reading, read>>
    BY <1>8 DEF LinkLapses
  <2>2. UploadRows'
    BY <1>1, <2>1 DEF UploadRows
  <2> QED BY <1>1, <2>1, <2>2, CallsTurn
<1>9. CASE BytesFetch
  <2>1. PICK r \in Slots : /\ reading = r /\ read' = [read EXCEPT ![r] = Fetch(r)] /\ reading' = NoSlot
                          /\ UNCHANGED <<resource, age, object, putting, confirming, links, reaping>>
    BY <1>1, <1>9 DEF BytesFetch, UploadRows
  <2>2. Completed(r) /\ Reserved(r) /\ (Local(r) => Kept(r) \/ Deleted(r))
    BY <1>1, <2>1 DEF SlotFits, Completed
  <2>3. sign(r) = "remote" \/ Local(r)
    BY <1>1, <2>2, RowAt DEF UploadInv, sign, Resource, Stores, Local
  <2>4. Fetch(r) \in {"blob", "not-found", "too-large", "not-readable"} /\ (Fetch(r) = "not-found" => Deleted(r))
    BY <2>2, <2>3 DEF Fetch, Kept
  <2>5. read \in [Slots -> {"unread", "blob", "not-found", "too-large", "not-readable"}]
    BY <1>1 DEF UploadRows
  <2>6. /\ read' \in [Slots -> {"unread", "blob", "not-found", "too-large", "not-readable"}]
        /\ \A s \in Slots : read'[s] = "not-found" => Deleted(s)
    <3>1. \A s \in Slots : read'[s] = IF s = r THEN Fetch(r) ELSE read[s]
      BY <2>1, <2>5
    <3> QED BY <1>1, <2>1, <2>4, <2>5, <3>1 DEF SlotFits
  <2>7. UploadRows'
    BY <1>1, <2>1, <2>6 DEF UploadRows
  <2> QED BY <1>1, <2>1, <2>6, <2>7, UploadLimits, CallsTurn
<1>10. CASE Sweep
  <2>1. PICK b \in Batches : reaping = [todo |-> {}, doomed |-> NoSlot] /\ reaping' = [reaping EXCEPT !.todo = b]
                            /\ UNCHANGED <<resource, age, object, putting, confirming, links, reading, read>>
    BY <1>10 DEF Sweep
  <2>2. b \subseteq Abandoned
    BY DEF Batches
  <2>3. \A s \in b : s \in Slots /\ Reserved(s) /\ age[s] = 2 /\ resource[s].completed = NotCompleted
    BY <2>2 DEF Abandoned, Pending
  <2>4. reaping' = [todo |-> b, doomed |-> NoSlot]
    BY <2>1
  <2>5. reaping' \in Reaping /\ reaping'.todo = b /\ reaping'.doomed = NoSlot
    <3>1. b \in SUBSET Slots
      BY <2>3
    <3> QED BY <2>4, <3>1 DEF Reaping
  <2>6. UploadRows'
    BY <1>1, <2>1, <2>5 DEF UploadRows
  <2> QED BY <1>1, <2>1, <2>3, <2>5, <2>6, UploadLimits, CallsTurn
<1>11. CASE ReapFails
  <2>1. reaping \in Reaping
    BY <1>1 DEF UploadRows
  <2>2. /\ reaping' \in {[reaping EXCEPT !.doomed = NoSlot], [todo |-> {}, doomed |-> NoSlot]}
        /\ UNCHANGED <<resource, age, object, putting, confirming, links, reading, read>>
    BY <1>11 DEF ReapFails
  <2>3. reaping' \in Reaping /\ reaping'.todo \subseteq reaping.todo /\ reaping'.doomed = NoSlot
    BY <2>1, <2>2 DEF Reaping
  <2>4. UploadRows'
    BY <1>1, <2>2, <2>3 DEF UploadRows
  <2> QED BY <1>1, <2>2, <2>3, <2>4, UploadLimits, CallsTurn
<1>12. CASE UNCHANGED uploadVars
  <2>1. UNCHANGED <<resource, age, object, putting, confirming, links, reaping, reading, read>>
    BY <1>12 DEF uploadVars
  <2>2. UploadRows'
    BY <1>1, <2>1 DEF UploadRows
  <2> QED BY <1>1, <2>1, <2>2, CallsTurn
<1> QED BY <1>2, <1>3, <1>4, <1>5, <1>6, <1>7, <1>8, <1>9, <1>10, <1>11, <1>12

\* Every step of the uploads keeps the invariant.
LEMMA UploadInvKept == UploadInv /\ [UploadNext]_uploadVars => UploadInv'
<1> SUFFICES ASSUME UploadInv, UploadNext \/ UNCHANGED uploadVars PROVE UploadInv'
  OBVIOUS
<1> QED BY ReserveKeeps, ConfirmKeeps, ReapRowKeeps, ObjectsKeep, CallsKeep DEF UploadNext

-----------------------------------------------------------------------------
\* The threads of chat.

MessageRow == [thread : ThreadNames, sender : People \cup {System}, type : {"user", "system"},
               body : {"text", "edited", "none"}, deleted : BOOLEAN, reply : 0 .. MaxMessages]
MarkRows == UNION {[Sides(t) -> 0 .. MaxMessages] : t \in ThreadNames}
Marking == [act : {"mark"}, thread : ThreadNames, copy : MarkRows]
Saving == [act : {"save"}, at : Nat, row : MessageRow]

\* A copy about to be saved differs from its row in the words only.
OfTheRow(op) ==
  /\ op.at \in 1 .. Len(msgs)
  /\ op.row.thread = msgs[op.at].thread /\ op.row.sender = msgs[op.at].sender
  /\ op.row.reply = msgs[op.at].reply

ChatRows ==
  /\ chatThreads \subseteq ThreadNames
  /\ msgs \in Seq(MessageRow) /\ Len(msgs) <= MaxMessages
  /\ DOMAIN marks = ThreadNames /\ \A t \in ThreadNames : marks[t] \in [Sides(t) -> 0 .. MaxMessages]
  /\ chatOp \in [ChatCallers -> {IdleCall, [act |-> "opening"]} \cup Marking \cup Saving]
  /\ \A c \in ChatCallers : chatOp[c].act = "mark" => chatOp[c].copy \in [Sides(chatOp[c].thread) -> 0 .. MaxMessages]
  /\ \A c \in ChatCallers : chatOp[c].act = "save" => OfTheRow(chatOp[c])

\* A quote is of an earlier message, and one of the same thread.
Quotes == \A i \in 1 .. Len(msgs) :
            msgs[i].reply # NoMessage => msgs[i].reply < i /\ msgs[msgs[i].reply].thread = msgs[i].thread

\* The requester was named, on the ticket thread, nobody but themselves and those they
\* replied to.
TellsNoMore == told \subseteq People /\ told \subseteq {Requester} \cup QuotedBy(Requester)

ChatInv == ChatRows /\ Quotes /\ TellsNoMore

\* Nothing the requester was answered by and nobody they quoted is forgotten.
LEMMA TellsStill ==
  ASSUME TellsNoMore, told' \subseteq told, QuotedBy(Requester) \subseteq QuotedBy(Requester)'
  PROVE  TellsNoMore'
BY DEF TellsNoMore

\* A table that keeps what a quote says keeps who was quoted.
LEMMA QuotedStays ==
  ASSUME Quotes, msgs \in Seq(MessageRow), DOMAIN msgs = 1 .. Len(msgs),
         DOMAIN msgs \subseteq DOMAIN msgs',
         \A i \in DOMAIN msgs : /\ msgs'[i].thread = msgs[i].thread
                                /\ msgs'[i].sender = msgs[i].sender
                                /\ msgs'[i].reply = msgs[i].reply
  PROVE  QuotedBy(Requester) \subseteq QuotedBy(Requester)'
<1> SUFFICES ASSUME NEW s \in QuotedBy(Requester) PROVE s \in QuotedBy(Requester)'
  OBVIOUS
<1>1. PICK i \in DOMAIN msgs : /\ msgs[i].thread = "ticket" /\ msgs[i].sender = Requester
                              /\ msgs[i].reply # NoMessage /\ s = msgs[msgs[i].reply].sender
  BY DEF QuotedBy
<1>2. msgs[i].reply \in 1 .. Len(msgs)
  <2>1. msgs[i] \in MessageRow /\ i \in 1 .. Len(msgs) /\ Len(msgs) \in Nat
    OBVIOUS
  <2>2. msgs[i].reply \in Nat /\ msgs[i].reply < i /\ msgs[i].reply # 0
    BY <1>1, <2>1 DEF MessageRow, Quotes, NoMessage
  <2> QED BY <2>1, <2>2
<1> QED BY <1>1, <1>2 DEF QuotedBy

\* Whoever a message names is a person, and told of their own ticket message the
\* requester is named themselves and the one they reply to.
LEMMA RenderedNames ==
  ASSUME ChatRows, NEW m \in MessageRow, m.reply = NoMessage \/ m.reply \in 1 .. Len(msgs)
  PROVE  /\ Rendered(m) \subseteq People
         /\ hideSupport("ticket", Requester, m) \subseteq {Requester} \cap People
         /\ Rendered(m) \subseteq {m.sender} \cup (IF m.reply = NoMessage THEN {} ELSE {msgs[m.reply].sender})
<1>1. \A i \in 1 .. Len(msgs) : msgs[i] \in MessageRow
  BY DEF ChatRows
<1>2. Rendered(m) \subseteq People
  BY <1>1 DEF Rendered, MessageRow
<1>3. Involves("ticket", Requester)
  BY DEF Involves, Sides
<1> QED BY <1>2, <1>3 DEF Rendered, hideSupport

\* The invariant says all the property of the states says.
LEMMA ThreadsAre == ChatInv => ChatTypeOK /\ ThreadsKeepTheirSecrets
<1> SUFFICES ASSUME ChatInv PROVE ChatTypeOK /\ ThreadsKeepTheirSecrets
  OBVIOUS
<1>1. msgs \in Seq(MessageRow) /\ Len(msgs) <= MaxMessages /\ DOMAIN msgs = 1 .. Len(msgs)
  BY DEF ChatInv, ChatRows
<1>2. \A i \in DOMAIN msgs : msgs[i] \in MessageRow
  BY <1>1
<1>3. ChatTypeOK
  <2>1. \A i \in DOMAIN msgs :
           /\ msgs[i].sender \in People \cup {System}
           /\ msgs[i].body \in {"text", "edited", "none"}
           /\ msgs[i].reply \in 0 .. MaxMessages
    BY <1>2 DEF MessageRow
  <2>2. \A c \in ChatCallers : chatOp[c].act \in {"idle", "opening", "mark", "save"}
    BY DEF ChatInv, ChatRows, IdleCall, Marking, Saving
  <2> QED BY <1>1, <2>1, <2>2 DEF ChatInv, ChatRows, TellsNoMore, ChatTypeOK
<1>4. Shown("ticket", Requester) \subseteq {Requester}
  <2>1. Involves("ticket", Requester)
    BY DEF Involves, Sides
  <2>2. \A m : hideSupport("ticket", Requester, m) \subseteq {Requester}
    BY <2>1 DEF hideSupport
  <2> QED BY <2>2 DEF Shown
<1>5. \A i \in DOMAIN msgs : msgs[i].reply # NoMessage => msgs[msgs[i].reply].thread = msgs[i].thread
  BY <1>1 DEF ChatInv, Quotes
<1>6. told \subseteq {Requester} \cup QuotedBy(Requester)
  BY DEF ChatInv, TellsNoMore
<1> QED BY <1>3, <1>4, <1>5, <1>6 DEF ThreadsKeepTheirSecrets

\* No thread and no message.
LEMMA ChatInvFirst == ChatInit => ChatInv
<1> SUFFICES ASSUME ChatInit PROVE ChatInv
  OBVIOUS
<1>1. Len(msgs) = 0 /\ msgs \in Seq(MessageRow)
  BY DEF ChatInit
<1>2. 0 \in 0 .. MaxMessages
  BY ChatAssumption
<1>3. DOMAIN marks = ThreadNames /\ \A t \in ThreadNames : marks[t] \in [Sides(t) -> 0 .. MaxMessages]
  BY <1>2 DEF ChatInit
<1>4. \A c \in ChatCallers : chatOp[c].act = "idle"
  BY DEF ChatInit, IdleCall
<1>5. ChatRows
  BY <1>1, <1>2, <1>3, <1>4, ChatAssumption DEF ChatInit, ChatRows
<1>6. Quotes
  BY <1>1 DEF Quotes
<1>7. TellsNoMore
  BY DEF ChatInit, TellsNoMore
<1> QED BY <1>5, <1>6, <1>7 DEF ChatInv

\* A message is written after the others; if it quotes, it quotes its own thread.
LEMMA MessageAdded ==
  ASSUME ChatInv, Len(msgs) < MaxMessages, NEW m \in MessageRow, msgs' = Append(msgs, m),
         m.reply # NoMessage => m.reply \in 1 .. Len(msgs) /\ msgs[m.reply].thread = m.thread,
         chatThreads' \subseteq ThreadNames, marks' = marks,
         NEW names, told' = told \cup names, names \subseteq People,
         \/ names \subseteq {Requester}
         \/ m.thread = "ticket" /\ m.sender = Requester /\ names \subseteq Rendered(m),
         \/ chatOp' = chatOp
         \/ \E c \in ChatCallers : chatOp' = [chatOp EXCEPT ![c] = IdleCall]
  PROVE  ChatInv' /\ ReadStaysRead
<1>1. PICK n \in Nat : n = Len(msgs) /\ n + 1 <= MaxMessages
  BY ChatAssumption DEF ChatInv, ChatRows
<1>2. /\ msgs \in Seq(MessageRow) /\ msgs' \in Seq(MessageRow) /\ Len(msgs') = n + 1 /\ msgs'[n + 1] = m
      /\ \A i \in 1 .. n : msgs'[i] = msgs[i] /\ msgs[i] \in MessageRow
  BY <1>1 DEF ChatInv, ChatRows
<1>3. chatOp' \in [ChatCallers -> {IdleCall, [act |-> "opening"]} \cup Marking \cup Saving]
      /\ \A c \in ChatCallers : chatOp'[c] = chatOp[c] \/ chatOp'[c] = IdleCall
  BY DEF ChatInv, ChatRows
<1>4. ChatRows'
  <2>1. ASSUME NEW c \in ChatCallers
        PROVE  /\ chatOp'[c].act = "mark" => chatOp'[c].copy \in [Sides(chatOp'[c].thread) -> 0 .. MaxMessages]
               /\ chatOp'[c].act = "save" => OfTheRow(chatOp[c])' /\ chatOp'[c] = chatOp[c]
    <3>1. CASE chatOp'[c] = IdleCall
      BY <3>1 DEF IdleCall
    <3>2. CASE chatOp'[c] = chatOp[c]
      BY <1>1, <1>2, <3>2 DEF ChatInv, ChatRows, OfTheRow
    <3> QED BY <1>3, <3>1, <3>2
  <2> QED BY <1>1, <1>2, <1>3, <2>1 DEF ChatInv, ChatRows
<1>5. Quotes'
  <2>1. ASSUME NEW i \in 1 .. n + 1, msgs'[i].reply # NoMessage
        PROVE  msgs'[i].reply < i /\ msgs'[msgs'[i].reply].thread = msgs'[i].thread
    <3>1. CASE i \in 1 .. n
      <4>1. PICK r \in Nat : r = msgs[i].reply /\ r # 0
        BY <1>2, <2>1, <3>1 DEF MessageRow, NoMessage
      <4>2. r < i /\ msgs[r].thread = msgs[i].thread
        BY <1>1, <1>2, <2>1, <3>1, <4>1 DEF ChatInv, Quotes
      <4>3. r \in 1 .. n
        BY <1>1, <3>1, <4>1, <4>2
      <4>4. msgs'[i] = msgs[i] /\ msgs'[r] = msgs[r]
        BY <1>2, <3>1, <4>3
      <4> QED BY <4>1, <4>2, <4>4
    <3>2. CASE i = n + 1
      <4>1. PICK r \in 1 .. n : r = m.reply /\ msgs[r].thread = m.thread
        BY <1>1, <1>2, <2>1, <3>2
      <4> QED BY <1>2, <3>2, <4>1
    <3>3. i \in 1 .. n \/ i = n + 1
      BY <1>1
    <3> QED BY <3>1, <3>2, <3>3
  <2> QED BY <1>2, <2>1 DEF Quotes
<1>6. ReadStaysRead
  <2>1. ASSUME NEW t \in ThreadNames, NEW s \in Sides(t)
        PROVE  /\ marks'[t][s] >= marks[t][s]
               /\ Unread(t, s)' \subseteq Unread(t, s) \cup {Len(msgs) + 1}
    <3>1. marks[t][s] \in Nat
      BY ChatAssumption DEF ChatInv, ChatRows
    <3>2. DOMAIN msgs' = 1 .. n + 1 /\ DOMAIN msgs = 1 .. n
      BY <1>1, <1>2
    <3>3. \A i \in Unread(t, s)' : i \in 1 .. n => i \in Unread(t, s)
      BY <1>2, <3>2 DEF Unread
    <3>4. Unread(t, s)' \subseteq 1 .. n + 1
      BY <3>2 DEF Unread
    <3> QED BY <1>1, <3>1, <3>3, <3>4
  <2> QED BY <2>1 DEF ReadStaysRead
<1>7. TellsNoMore'
  <2>1. QuotedBy(Requester) \subseteq QuotedBy(Requester)'
    BY <1>1, <1>2, QuotedStays DEF ChatInv, ChatRows
  <2>2. CASE names \subseteq {Requester}
    BY <2>1, <2>2 DEF ChatInv, TellsNoMore
  <2>3. CASE m.thread = "ticket" /\ m.sender = Requester /\ names \subseteq Rendered(m)
    <3>1. CASE m.reply = NoMessage
      BY <2>1, <2>3, <3>1 DEF ChatInv, TellsNoMore, Rendered
    <3>2. CASE m.reply # NoMessage
      <4>1. msgs'[m.reply] = msgs[m.reply] /\ n + 1 \in DOMAIN msgs'
        BY <1>1, <1>2, <3>2
      <4>2. msgs[m.reply].sender \in QuotedBy(Requester)'
        BY <1>2, <2>3, <3>2, <4>1 DEF QuotedBy
      <4> QED BY <2>1, <2>3, <3>2, <4>2 DEF ChatInv, TellsNoMore, Rendered
    <3> QED BY <3>1, <3>2
  <2> QED BY <2>2, <2>3
<1> QED BY <1>4, <1>5, <1>6, <1>7 DEF ChatInv

\* A request that only reads leaves the threads, the messages and the marks alone.
LEMMA OpRead ==
  ASSUME ChatInv, NEW c \in ChatCallers, NEW op, chatOp' = [chatOp EXCEPT ![c] = op],
         \/ op = IdleCall
         \/ op = [act |-> "opening"]
         \/ op \in Marking /\ op.copy \in [Sides(op.thread) -> 0 .. MaxMessages]
         \/ op \in Saving /\ OfTheRow(op),
         chatThreads' \subseteq ThreadNames, msgs' = msgs, marks' = marks, told' = told
  PROVE  ChatInv' /\ ReadStaysRead
<1>1. chatOp \in [ChatCallers -> {IdleCall, [act |-> "opening"]} \cup Marking \cup Saving]
  BY DEF ChatInv, ChatRows
<1>2. op \in {IdleCall, [act |-> "opening"]} \cup Marking \cup Saving
  OBVIOUS
<1>3. chatOp' \in [ChatCallers -> {IdleCall, [act |-> "opening"]} \cup Marking \cup Saving]
  BY <1>1, <1>2
<1>4. \A d \in ChatCallers : chatOp'[d] = IF d = c THEN op ELSE chatOp[d]
  BY <1>1
<1>5. /\ op.act = "mark" => op.copy \in [Sides(op.thread) -> 0 .. MaxMessages]
      /\ op.act = "save" => OfTheRow(op)
  BY DEF IdleCall, Marking, Saving
<1>6. ASSUME NEW d \in ChatCallers
      PROVE  /\ chatOp'[d].act = "mark" => chatOp'[d].copy \in [Sides(chatOp'[d].thread) -> 0 .. MaxMessages]
             /\ chatOp'[d].act = "save" => OfTheRow(chatOp'[d])
  <2>1. CASE d = c
    BY <1>4, <1>5, <2>1
  <2>2. CASE d # c
    BY <1>4, <2>2 DEF ChatInv, ChatRows
  <2> QED BY <2>1, <2>2
<1>7. ChatRows'
  BY <1>3, <1>6 DEF ChatInv, ChatRows, OfTheRow
<1>8. Quotes'
  BY DEF ChatInv, Quotes
<1>9. ReadStaysRead
  <2>1. \A t \in ThreadNames : \A s \in Sides(t) : marks[t][s] \in Nat
    BY ChatAssumption DEF ChatInv, ChatRows
  <2>2. \A t, s : Unread(t, s)' = Unread(t, s)
    BY DEF Unread
  <2> QED BY <2>1, <2>2 DEF ReadStaysRead
<1>10. TellsNoMore'
  BY DEF ChatInv, TellsNoMore, QuotedBy
<1> QED BY <1>7, <1>8, <1>9, <1>10 DEF ChatInv

\* Saving a mark keeps the greater of the row's and the copy's, side by side.
LEMMA SaveMarkKeeps ==
  ASSUME ChatInv, NEW c \in ChatCallers, SaveMark(c)
  PROVE  ChatInv' /\ ReadStaysRead
<1>1. chatOp \in [ChatCallers -> {IdleCall, [act |-> "opening"]} \cup Marking \cup Saving]
  BY DEF ChatInv, ChatRows
<1>2. chatOp[c] \in Marking
  BY <1>1 DEF SaveMark, IdleCall, Saving
<1>3. PICK t \in ThreadNames : t = chatOp[c].thread
  BY <1>2 DEF Marking
<1>4. PICK copy \in [Sides(t) -> 0 .. MaxMessages] : copy = chatOp[c].copy
  BY <1>3 DEF SaveMark, ChatInv, ChatRows
<1> DEFINE row == [s \in Sides(t) |-> IF copy[s] > marks[t][s] THEN copy[s] ELSE marks[t][s]]
<1>5. marks[t] \in [Sides(t) -> 0 .. MaxMessages] /\ DOMAIN marks = ThreadNames
  BY DEF ChatInv, ChatRows
<1>6. row \in [Sides(t) -> 0 .. MaxMessages] /\ \A s \in Sides(t) : row[s] >= marks[t][s]
  <2>1. \A s \in Sides(t) : copy[s] \in 0 .. MaxMessages /\ marks[t][s] \in 0 .. MaxMessages
    BY <1>5
  <2> QED BY <2>1, ChatAssumption
<1>7. marks' = [marks EXCEPT ![t] = row]
  BY <1>3, <1>4 DEF SaveMark, SaveConversation
<1> HIDE DEF row
<1>8. \A u \in ThreadNames : marks'[u] = IF u = t THEN row ELSE marks[u]
  BY <1>5, <1>7
<1>9. /\ chatOp' = [chatOp EXCEPT ![c] = IdleCall] /\ msgs' = msgs /\ chatThreads' = chatThreads
      /\ told' = told
  BY DEF SaveMark, Done
<1>10. \A d \in ChatCallers : chatOp'[d] = IF d = c THEN IdleCall ELSE chatOp[d]
  BY <1>1, <1>9
<1>11. ChatRows'
  <2>1. chatOp' \in [ChatCallers -> {IdleCall, [act |-> "opening"]} \cup Marking \cup Saving]
    BY <1>1, <1>9
  <2>2. ASSUME NEW d \in ChatCallers
        PROVE  /\ chatOp'[d].act = "mark" => chatOp'[d].copy \in [Sides(chatOp'[d].thread) -> 0 .. MaxMessages]
               /\ chatOp'[d].act = "save" => OfTheRow(chatOp'[d])
    <3>1. CASE d = c
      BY <1>10, <3>1 DEF IdleCall
    <3>2. CASE d # c
      BY <1>10, <3>2 DEF ChatInv, ChatRows
    <3> QED BY <3>1, <3>2
  <2>3. DOMAIN marks' = ThreadNames /\ \A u \in ThreadNames : marks'[u] \in [Sides(u) -> 0 .. MaxMessages]
    BY <1>6, <1>7, <1>8 DEF ChatInv, ChatRows
  <2> QED BY <1>9, <2>1, <2>2, <2>3 DEF ChatInv, ChatRows, OfTheRow
<1>12. Quotes'
  BY <1>9 DEF ChatInv, Quotes
<1>13. ReadStaysRead
  <2>1. ASSUME NEW u \in ThreadNames, NEW s \in Sides(u)
        PROVE  marks[u][s] \in Nat /\ marks'[u][s] \in Nat /\ marks'[u][s] >= marks[u][s]
    <3>1. marks[u][s] \in Nat
      BY ChatAssumption DEF ChatInv, ChatRows
    <3>2. CASE u = t
      BY <1>6, <1>8, <3>1, <3>2, ChatAssumption
    <3>3. CASE u # t
      BY <1>8, <3>1, <3>3
    <3> QED BY <3>2, <3>3
  <2>2. ASSUME NEW u \in ThreadNames, NEW s \in Sides(u)
        PROVE  Unread(u, s)' \subseteq Unread(u, s)
    <3>1. ASSUME NEW i \in DOMAIN msgs, i > marks'[u][s] PROVE i > marks[u][s]
      <4>1. i \in Nat
        BY DEF ChatInv, ChatRows
      <4> QED BY <2>1, <3>1, <4>1
    <3> QED BY <1>9, <3>1 DEF Unread
  <2> QED BY <2>1, <2>2 DEF ReadStaysRead
<1>14. TellsNoMore'
  BY <1>9 DEF ChatInv, TellsNoMore, QuotedBy
<1> QED BY <1>11, <1>12, <1>13, <1>14 DEF ChatInv

\* Saving an edit or a redaction changes the words of one message, and nothing a
\* quote, a sender or a mark depends on.
LEMMA SaveRowKeeps ==
  ASSUME ChatInv, NEW c \in ChatCallers, SaveRow(c)
  PROVE  ChatInv' /\ ReadStaysRead
<1>1. chatOp \in [ChatCallers -> {IdleCall, [act |-> "opening"]} \cup Marking \cup Saving]
  BY DEF ChatInv, ChatRows
<1>2. chatOp[c] \in Saving
  BY <1>1 DEF SaveRow, IdleCall, Marking
<1>3. PICK k \in 1 .. Len(msgs), m \in MessageRow : k = chatOp[c].at /\ m = chatOp[c].row
  <2>1. OfTheRow(chatOp[c])
    BY DEF SaveRow, ChatInv, ChatRows
  <2> QED BY <1>2, <2>1 DEF OfTheRow, Saving
<1>4. msgs \in Seq(MessageRow) /\ DOMAIN msgs = 1 .. Len(msgs) /\ Len(msgs) \in Nat /\ msgs[k] \in MessageRow
  BY DEF ChatInv, ChatRows
<1> DEFINE row == [msgs[k] EXCEPT !.body = m.body, !.deleted = m.deleted]
<1>5. row \in MessageRow /\ row.thread = msgs[k].thread /\ row.sender = msgs[k].sender /\ row.reply = msgs[k].reply
  BY <1>4 DEF MessageRow
<1>6. msgs' = [msgs EXCEPT ![k] = row]
  BY <1>3 DEF SaveRow, SaveMessage
<1> HIDE DEF row
<1>7. msgs' \in Seq(MessageRow) /\ Len(msgs') = Len(msgs)
  BY <1>4, <1>5, <1>6
<1>8. \A i \in 1 .. Len(msgs) :
        /\ msgs'[i].thread = msgs[i].thread
        /\ msgs'[i].sender = msgs[i].sender
        /\ msgs'[i].reply = msgs[i].reply
        /\ i # k => msgs'[i] = msgs[i]
  BY <1>4, <1>5, <1>6
<1>9. chatOp' = [chatOp EXCEPT ![c] = IdleCall] /\ marks' = marks /\ chatThreads' = chatThreads
  BY DEF SaveRow, Done
<1>10. \A d \in ChatCallers : chatOp'[d] = IF d = c THEN IdleCall ELSE chatOp[d]
  BY <1>1, <1>9
<1>11. ChatRows'
  <2>1. chatOp' \in [ChatCallers -> {IdleCall, [act |-> "opening"]} \cup Marking \cup Saving]
    BY <1>1, <1>9
  <2>2. ASSUME NEW d \in ChatCallers
        PROVE  /\ chatOp'[d].act = "mark" => chatOp'[d].copy \in [Sides(chatOp'[d].thread) -> 0 .. MaxMessages]
               /\ chatOp'[d].act = "save" => OfTheRow(chatOp[d])'
    <3>1. CASE d = c
      BY <1>10, <3>1 DEF IdleCall
    <3>2. CASE d # c
      <4>1. chatOp'[d] = chatOp[d]
        BY <1>10, <3>2
      <4>2. chatOp[d].act = "save" => OfTheRow(chatOp[d])
        BY DEF ChatInv, ChatRows
      <4>3. OfTheRow(chatOp[d]) => OfTheRow(chatOp[d])'
        BY <1>7, <1>8, <3>2, <4>1 DEF OfTheRow
      <4> QED BY <4>1, <4>2, <4>3 DEF ChatInv, ChatRows
    <3> QED BY <3>1, <3>2
  <2> QED BY <1>7, <1>9, <2>1, <2>2 DEF ChatInv, ChatRows
<1>12. Quotes'
  <2>1. ASSUME NEW i \in 1 .. Len(msgs), msgs[i].reply # NoMessage
        PROVE  msgs'[i].reply < i /\ msgs'[msgs'[i].reply].thread = msgs'[i].thread
    <3>0. msgs[i] \in MessageRow
      BY <1>4
    <3>1. PICK r \in Nat : r = msgs[i].reply /\ r # 0
      BY <2>1, <3>0 DEF MessageRow, NoMessage
    <3>2. r < i /\ msgs[r].thread = msgs[i].thread
      BY <2>1, <3>1 DEF ChatInv, Quotes
    <3>3. r \in 1 .. Len(msgs)
      BY <1>4, <3>1, <3>2
    <3> QED BY <1>8, <3>1, <3>2, <3>3
  <2> QED BY <1>7, <1>8, <2>1 DEF Quotes
<1>13. ReadStaysRead
  <2>1. ASSUME NEW u \in ThreadNames, NEW s \in Sides(u)
        PROVE  marks[u][s] \in Nat
    BY ChatAssumption DEF ChatInv, ChatRows
  <2>2. DOMAIN msgs' = DOMAIN msgs
    BY <1>4, <1>6
  <2>3. ASSUME NEW u \in ThreadNames, NEW s \in Sides(u)
        PROVE  Unread(u, s)' \subseteq Unread(u, s) \cup {i \in DOMAIN msgs : msgs[i].deleted}
    <3>1. ASSUME NEW i, i \in Unread(u, s)', ~msgs[i].deleted PROVE i \in Unread(u, s)
      <4>1. i \in DOMAIN msgs /\ msgs'[i].thread = u /\ i > marks[u][s] /\ msgs'[i].sender # s
        BY <1>9, <2>2, <3>1 DEF Unread
      <4> QED BY <1>4, <1>8, <3>1, <4>1 DEF Unread
    <3>2. Unread(u, s)' \subseteq DOMAIN msgs
      BY <2>2 DEF Unread
    <3> QED BY <3>1, <3>2
  <2> QED BY <1>9, <2>1, <2>3 DEF ReadStaysRead
<1>14. TellsNoMore'
  <2>1. DOMAIN msgs' = DOMAIN msgs
    BY <1>4, <1>6
  <2>2. QuotedBy(Requester) \subseteq QuotedBy(Requester)'
    BY <1>4, <1>8, <2>1, QuotedStays DEF ChatInv
  <2>3. told' \subseteq told \cup {Requester} \cup QuotedBy(Requester) /\ told' \subseteq People
    <3>1. m.thread = msgs[k].thread /\ m.sender = msgs[k].sender /\ m.reply = msgs[k].reply
      BY <1>2, <1>3 DEF SaveRow, ChatInv, ChatRows, OfTheRow
    <3>2. m.reply = NoMessage \/ m.reply \in 1 .. Len(msgs)
      <4>1. k \in Nat /\ m.reply \in Nat
        BY <1>4 DEF MessageRow
      <4>2. m.reply # NoMessage => m.reply < k /\ m.reply # 0
        BY <3>1 DEF ChatInv, Quotes, NoMessage
      <4> QED BY <1>4, <4>1, <4>2
    <3>3. /\ Rendered(m) \subseteq People
          /\ Rendered(m) \subseteq {m.sender} \cup (IF m.reply = NoMessage THEN {} ELSE {msgs[m.reply].sender})
      BY <3>2, RenderedNames DEF ChatInv
    <3>4. told' = told \cup (IF m.thread = "ticket" /\ m.sender = Requester /\ ~m.deleted
                             THEN Rendered(m) ELSE {})
      BY <1>3 DEF SaveRow, Tell
    <3>5. CASE m.thread = "ticket" /\ m.sender = Requester
      <4>1. m.reply # NoMessage => msgs[m.reply].sender \in QuotedBy(Requester)
        BY <1>4, <3>1, <3>5 DEF QuotedBy
      <4> QED BY <3>3, <3>4, <3>5, <4>1 DEF ChatInv, TellsNoMore
    <3>6. CASE ~(m.thread = "ticket" /\ m.sender = Requester)
      BY <3>4, <3>6 DEF ChatInv, TellsNoMore
    <3> QED BY <3>5, <3>6
  <2> QED BY <2>2, <2>3 DEF ChatInv, TellsNoMore
<1> QED BY <1>11, <1>12, <1>13, <1>14 DEF ChatInv

\* Every step of a thread, a message or a mark keeps the invariant, and what a side
\* has read stays read.
LEMMA ChatInvKept ==
  ASSUME ChatInv, [ChatNext]_chatVars
  PROVE  ChatInv' /\ ReadStaysRead
<1>1. MaxMessages \in Nat /\ msgs \in Seq(MessageRow) /\ Len(msgs) \in Nat /\ DOMAIN msgs = 1 .. Len(msgs)
      /\ Len(msgs) <= MaxMessages
  BY ChatAssumption DEF ChatInv, ChatRows
<1>2. chatThreads \subseteq ThreadNames
  BY DEF ChatInv, ChatRows
<1>3. CASE UNCHANGED chatVars
  <2>1. ChatInv'
    BY <1>3 DEF chatVars, ChatInv, ChatRows, OfTheRow, Quotes, TellsNoMore, QuotedBy
  <2>2. \A t \in ThreadNames : \A s \in Sides(t) : marks[t][s] \in Nat
    BY ChatAssumption DEF ChatInv, ChatRows
  <2>3. \A t, s : Unread(t, s)' = Unread(t, s)
    BY <1>3 DEF chatVars, Unread
  <2> QED BY <1>3, <2>1, <2>2, <2>3 DEF ReadStaysRead, chatVars
<1>4. ASSUME NEW c \in ChatCallers, StartConversation(c) PROVE ChatInv' /\ ReadStaysRead
  <2>1. chatOp' = [chatOp EXCEPT ![c] = IdleCall]
    BY <1>4 DEF StartConversation, Idle, ChatInv, ChatRows
  <2> QED BY <1>2, <1>4, <2>1, OpRead DEF StartConversation, EnsureConversation, ThreadNames
<1>5. ASSUME NEW c \in ChatCallers, OpenTicketThread(c) PROVE ChatInv' /\ ReadStaysRead
  <2>1. PICK op \in {IdleCall, [act |-> "opening"]} : chatOp' = [chatOp EXCEPT ![c] = op]
    BY <1>5 DEF OpenTicketThread, Idle, Read, ChatInv, ChatRows
  <2> QED BY <1>2, <1>5, <2>1, OpRead DEF OpenTicketThread, EnsureConversation, ThreadNames
<1>6. ASSUME NEW m \in MessageRow, InsertMessage(m), Len(msgs) < MaxMessages,
             m.reply # NoMessage => m.reply \in 1 .. Len(msgs) /\ msgs[m.reply].thread = m.thread,
             chatThreads' \subseteq ThreadNames, marks' = marks,
             NEW names, told' = told \cup names, names \subseteq People,
             \/ names \subseteq {Requester}
             \/ m.thread = "ticket" /\ m.sender = Requester /\ names \subseteq Rendered(m),
             \/ chatOp' = chatOp
             \/ \E c \in ChatCallers : chatOp' = [chatOp EXCEPT ![c] = IdleCall]
      PROVE  ChatInv' /\ ReadStaysRead
  BY <1>6, MessageAdded DEF InsertMessage
<1>61. told' = told => told' = told \cup {} /\ {} \subseteq People /\ {} \subseteq {Requester}
  OBVIOUS
<1>7. ASSUME NEW t \in ThreadNames, NEW who \in People \cup {System}, NEW type \in {"user", "system"},
             NEW i \in 0 .. MaxMessages
      PROVE  Message(t, who, type, "text", i) \in MessageRow
  BY DEF Message, MessageRow
<1>8. ASSUME NEW c \in ChatCallers, openingMessage(c) PROVE ChatInv' /\ ReadStaysRead
  <2> DEFINE m == Message("ticket", Requester, "user", "text", NoMessage)
  <2>1. m \in MessageRow /\ m.reply = NoMessage
    BY <1>1, <1>7 DEF Message, NoMessage, ThreadNames, People
  <2>2. InsertMessage(m) /\ Len(msgs) < MaxMessages /\ chatThreads' = chatThreads /\ marks' = marks
        /\ told' = told /\ chatOp' = [chatOp EXCEPT ![c] = IdleCall]
    BY <1>8 DEF openingMessage, Done
  <2>3. chatThreads' \subseteq ThreadNames /\ m.reply = NoMessage /\ \E d \in ChatCallers : chatOp' = [chatOp EXCEPT ![d] = IdleCall]
    BY <1>2, <1>8, <2>1, <2>2
  <2> HIDE DEF m
  <2>4. ASSUME NEW names, names = {}
        PROVE  told' = told \cup names /\ names \subseteq People /\ names \subseteq {Requester}
    BY <2>2, <2>4
  <2> QED BY <1>6, <2>1, <2>2, <2>3, <2>4
<1>9. ASSUME NEW c \in ChatCallers, SendMessage(c) PROVE ChatInv' /\ ReadStaysRead
  <2> DEFINE says(t, who, i) == Message(t, who, "user", "text", i)
             names(t, who, i) == IF t # "ticket" THEN {}
                                 ELSE IF who = Requester THEN Rendered(says(t, who, i))
                                 ELSE hideSupport(t, Requester, says(t, who, i))
  <2>1. PICK who \in People, t \in ThreadNames, i \in 0 .. MaxMessages :
           replyTarget(t, i) /\ InsertMessage(says(t, who, i)) /\ told' = told \cup names(t, who, i)
    BY <1>9 DEF SendMessage, Tell
  <2> DEFINE m == Message(t, who, "user", "text", i)
  <2>2. m \in MessageRow /\ m.reply = i /\ m.thread = t /\ m.sender = who
    BY <1>7 DEF Message
  <2>3. i # NoMessage => i \in 1 .. Len(msgs) /\ msgs[i].thread = t
    BY <1>1, <2>1 DEF replyTarget, FindMessageAt
  <2> DEFINE named == names(t, who, i)
  <2>4. /\ named \subseteq People
        /\ \/ named \subseteq {Requester}
           \/ m.thread = "ticket" /\ m.sender = Requester /\ named \subseteq Rendered(m)
    <3>1. /\ Rendered(m) \subseteq People
          /\ hideSupport("ticket", Requester, m) \subseteq {Requester} \cap People
      BY <2>2, <2>3, RenderedNames DEF ChatInv
    <3> QED BY <2>2, <3>1
  <2>5. told' = told \cup named /\ InsertMessage(m)
    BY <2>1
  <2> HIDE DEF m, named
  <2> QED BY <1>2, <1>6, <1>9, <2>2, <2>3, <2>4, <2>5 DEF SendMessage
<1>10. ASSUME NEW c \in ChatCallers, MarkConversationRead(c) PROVE ChatInv' /\ ReadStaysRead
  <2>1. PICK who \in People, t \in ThreadNames, at \in 0 .. Len(msgs) :
           chatOp' = [chatOp EXCEPT ![c] = [act |-> "mark", thread |-> t,
             copy |-> [marks[t] EXCEPT ![side(t, who)] = IF at > @ THEN at ELSE @]]]
    BY <1>10 DEF MarkConversationRead, Rewrite, Read
  <2> DEFINE copy == [marks[t] EXCEPT ![side(t, who)] = IF at > @ THEN at ELSE @]
             op == [act |-> "mark", thread |-> t, copy |-> copy]
  <2>2. marks[t] \in [Sides(t) -> 0 .. MaxMessages]
    BY DEF ChatInv, ChatRows
  <2>3. at \in 0 .. MaxMessages
    BY <1>1
  <2>4. copy \in [Sides(t) -> 0 .. MaxMessages]
    BY <2>2, <2>3
  <2>5. op \in Marking /\ op.copy \in [Sides(op.thread) -> 0 .. MaxMessages]
    BY <2>4 DEF Marking, MarkRows
  <2>6. chatOp' = [chatOp EXCEPT ![c] = op]
    BY <2>1
  <2> HIDE DEF op
  <2> QED BY <1>2, <1>10, <2>5, <2>6, OpRead DEF MarkConversationRead
<1>11. ASSUME NEW c \in ChatCallers, SaveMark(c) PROVE ChatInv' /\ ReadStaysRead
  BY <1>11, SaveMarkKeeps
<1>12. ASSUME NEW c \in ChatCallers, NEW i \in DOMAIN msgs, NEW m \in MessageRow,
              chatOp' = [chatOp EXCEPT ![c] = [act |-> "save", at |-> i, row |-> m]],
              m.thread = msgs[i].thread, m.sender = msgs[i].sender, m.reply = msgs[i].reply,
              UNCHANGED <<chatThreads, msgs, marks, told>>
       PROVE  ChatInv' /\ ReadStaysRead
  <2> DEFINE op == [act |-> "save", at |-> i, row |-> m]
  <2>1. op \in Saving /\ OfTheRow(op)
    BY <1>1, <1>12 DEF Saving, OfTheRow
  <2>2. chatOp' = [chatOp EXCEPT ![c] = op]
    BY <1>12
  <2> HIDE DEF op
  <2> QED BY <1>2, <1>12, <2>1, <2>2, OpRead
<1>13. ASSUME NEW c \in ChatCallers, UpdateMessage(c) PROVE ChatInv' /\ ReadStaysRead
  <2>1. PICK i \in DOMAIN msgs :
           chatOp' = [chatOp EXCEPT ![c] = [act |-> "save", at |-> i, row |-> [msgs[i] EXCEPT !.body = "edited"]]]
    BY <1>13 DEF UpdateMessage, Rewrite, Read, FindMessageAt
  <2>2. msgs[i] \in MessageRow
    BY <1>1
  <2> DEFINE m == [msgs[i] EXCEPT !.body = "edited"]
  <2>3. m \in MessageRow /\ m.thread = msgs[i].thread /\ m.sender = msgs[i].sender /\ m.reply = msgs[i].reply
    BY <2>2 DEF MessageRow
  <2> QED BY <1>12, <1>13, <2>1, <2>3 DEF UpdateMessage
<1>14. ASSUME NEW c \in ChatCallers, RedactMessage(c) PROVE ChatInv' /\ ReadStaysRead
  <2>1. PICK i \in DOMAIN msgs :
           chatOp' = [chatOp EXCEPT ![c] = [act |-> "save", at |-> i,
                                            row |-> [msgs[i] EXCEPT !.body = "none", !.deleted = TRUE]]]
    BY <1>14 DEF RedactMessage, Rewrite, Read, FindMessageAt
  <2>2. msgs[i] \in MessageRow
    BY <1>1
  <2> DEFINE m == [msgs[i] EXCEPT !.body = "none", !.deleted = TRUE]
  <2>3. m \in MessageRow /\ m.thread = msgs[i].thread /\ m.sender = msgs[i].sender /\ m.reply = msgs[i].reply
    BY <2>2 DEF MessageRow
  <2> QED BY <1>12, <1>14, <2>1, <2>3 DEF RedactMessage
<1>15. ASSUME NEW c \in ChatCallers, SaveRow(c) PROVE ChatInv' /\ ReadStaysRead
  BY <1>15, SaveRowKeeps
<1>16. ASSUME PostTicketMessage PROVE ChatInv' /\ ReadStaysRead
  <2> DEFINE m == Message("ticket", System, "system", "text", NoMessage)
  <2>1. m \in MessageRow /\ m.reply = NoMessage
    BY <1>1, <1>7 DEF Message, NoMessage, ThreadNames
  <2>2. InsertMessage(m) /\ Len(msgs) < MaxMessages /\ chatThreads' \subseteq ThreadNames /\ marks' = marks
        /\ told' = told /\ chatOp' = chatOp
    BY <1>2, <1>16 DEF PostTicketMessage, EnsureConversation, ThreadNames
  <2> HIDE DEF m
  <2> QED BY <1>6, <1>61, <2>1, <2>2
<1>17. ASSUME PostSystemMessage PROVE ChatInv' /\ ReadStaysRead
  <2> DEFINE m == Message("direct", System, "system", "text", NoMessage)
  <2>1. m \in MessageRow /\ m.reply = NoMessage
    BY <1>1, <1>7 DEF Message, NoMessage, ThreadNames
  <2>2. InsertMessage(m) /\ Len(msgs) < MaxMessages /\ chatThreads' \subseteq ThreadNames /\ marks' = marks
        /\ told' = told /\ chatOp' = chatOp
    BY <1>2, <1>17 DEF PostSystemMessage, EnsureConversation, ThreadNames
  <2> HIDE DEF m
  <2> QED BY <1>6, <1>61, <2>1, <2>2
<1> QED BY <1>3, <1>4, <1>5, <1>8, <1>9, <1>10, <1>11, <1>13, <1>14, <1>15, <1>16, <1>17 DEF ChatNext

-----------------------------------------------------------------------------
\* The ticket desk.

TicketRow == [requester : {OrderBuyer, OrderSeller}, kind : TicketKinds \cup {"refund-dispute", "order-issue"},
              status : {"open", "reviewing", "resolved"},
              assignee : Moderators \cup {Nobody}, thread : BOOLEAN,
              action : {NoAction, "none", "refund-granted", "refund-refused"},
              by : Moderators \cup {Nobody}]
TicketTables == UNION {[1 .. n -> TicketRow] : n \in 0 .. MaxTickets}
Verdicts == [by : Moderators, action : {"refund-granted", "refund-refused"}]

Inserting == [at : {"insert"}, ticket : TicketRow, event : {"none", "escalated", "lapsed"}]
Threading == [at : {"thread"}, id : Nat, copy : TicketRow]
TicketSaving == [at : {"save"}, id : Nat, copy : TicketRow, from : SUBSET {"open", "reviewing", "resolved"}]
Closing == [at : {"close"}, verdict : Verdicts, left : SUBSET Nat, copies : TicketTables]
DeskCalls == {IdleDesk} \cup Inserting \cup Threading \cup TicketSaving \cup Closing

DeskRows ==
  /\ refundCase \in {"none", "awaiting-seller", "disputed", "returning", "returned", "accepted", "rejected"}
  /\ tickets \in TicketTables
  /\ deskCall \in [DeskCallers -> DeskCalls]
  /\ escalated \in BOOLEAN /\ lapsed \in BOOLEAN
  /\ resolved \subseteq Verdicts
  /\ rulings \subseteq {"refund-granted", "refund-refused"}
  /\ lost \in 0 .. MaxLost /\ begun \in 0 .. MaxDeskCalls

\* A copy is of a ticket's kind, and if it was read resolved, the ticket still is,
\* in the same words.
CopyOf(id, copy) ==
  /\ id \in DOMAIN tickets
  /\ copy.kind = tickets[id].kind
  /\ copy.status = "resolved" =>
       tickets[id].status = "resolved" /\ tickets[id].action = copy.action /\ tickets[id].by = copy.by

\* What a call holds against the tickets as they are now: a thread repair writes the
\* status it read, a claim is for an open ticket, and what a moderator resolves by hand
\* is no refund dispute.
DeskFits(op) ==
  /\ op.at = "insert" => op.ticket.status = "open"
  /\ op.at = "thread" => CopyOf(op.id, op.copy)
  /\ op.at = "save" =>
       /\ op.id \in DOMAIN tickets /\ op.copy.kind = tickets[op.id].kind
       /\ \/ op.from = {op.copy.status} /\ CopyOf(op.id, op.copy)
          \/ op.from = {"open"} /\ op.copy.status = "reviewing"
          \/ op.from = openStatuses /\ op.copy.kind # "refund-dispute"
  /\ op.at = "close" =>
       /\ op.verdict.action \in rulings
       /\ op.left \subseteq DOMAIN op.copies
       /\ \A id \in op.left : id \in DOMAIN tickets /\ op.copies[id].kind = tickets[id].kind

DeskInv ==
  /\ DeskRows
  /\ \A v \in resolved : v.action \in rulings
  /\ DisputeClosedByVerdict
  /\ \A c \in DeskCallers : DeskFits(deskCall[c])

\* The tickets a step leaves behind: no ticket goes, none changes its kind, and a
\* resolved one keeps its verdict.
TicketsKeep ==
  /\ \A id \in DOMAIN tickets :
       id \in DOMAIN tickets' /\ tickets'[id].kind = tickets[id].kind
  /\ TicketVerdictStands

\* A table's rows are tickets.
LEMMA TicketRows == ASSUME NEW T \in TicketTables PROVE \A id \in DOMAIN T : T[id] \in TicketRow
BY DEF TicketTables

\* The invariant says all the property of the states says.
LEMMA DeskIs == DeskInv => DeskTypeOK /\ DisputeClosedByVerdict
<1> SUFFICES ASSUME DeskInv PROVE DeskTypeOK
  BY DEF DeskInv
<1>1. \A id \in DOMAIN tickets : tickets[id] \in TicketRow
  BY TicketRows DEF DeskInv, DeskRows
<1> QED BY <1>1 DEF DeskInv, DeskRows, DeskTypeOK, TicketRow

\* No case, no ticket and no verdict.
LEMMA DeskInvFirst == DeskInit => DeskInv
<1> SUFFICES ASSUME DeskInit PROVE DeskInv
  OBVIOUS
<1>1. tickets \in [1 .. 0 -> TicketRow] /\ DOMAIN tickets = {}
  BY DEF DeskInit
<1>2. tickets \in TicketTables
  BY <1>1, DeskAssumption DEF TicketTables
<1>3. \A c \in DeskCallers : deskCall[c].at = "idle"
  BY DEF DeskInit, IdleDesk
<1>4. 0 \in 0 .. MaxLost /\ 0 \in 0 .. MaxDeskCalls
  BY DeskAssumption
<1>5. DeskRows
  BY <1>2, <1>4 DEF DeskInit, DeskRows, DeskCalls
<1>6. \A c \in DeskCallers : DeskFits(deskCall[c])
  BY <1>3 DEF DeskFits
<1>7. DisputeClosedByVerdict
  BY <1>1 DEF DisputeClosedByVerdict
<1> QED BY <1>5, <1>6, <1>7 DEF DeskInv, DeskInit

\* What a call holds still fits after any step that keeps the tickets and the rulings.
LEMMA FitsKeep ==
  ASSUME DeskInv, NEW op \in DeskCalls, DeskFits(op), TicketsKeep, rulings \subseteq rulings'
  PROVE  DeskFits(op)'
<1>1. ASSUME NEW id, NEW copy, CopyOf(id, copy) PROVE CopyOf(id, copy)'
  BY <1>1 DEF CopyOf, TicketsKeep, TicketVerdictStands
<1>2. op.at = "thread" => CopyOf(op.id, op.copy)'
  BY <1>1 DEF DeskFits
<1>3. op.at = "save" =>
       /\ op.id \in DOMAIN tickets' /\ op.copy.kind = tickets'[op.id].kind
       /\ \/ op.from = {op.copy.status} /\ CopyOf(op.id, op.copy)'
          \/ op.from = {"open"} /\ op.copy.status = "reviewing"
          \/ op.from = openStatuses /\ op.copy.kind # "refund-dispute"
  BY <1>1 DEF DeskFits, TicketsKeep
<1>4. op.at = "close" =>
       /\ op.verdict.action \in rulings'
       /\ op.left \subseteq DOMAIN op.copies
       /\ \A id \in op.left : id \in DOMAIN tickets' /\ op.copies[id].kind = tickets'[id].kind
  BY DEF DeskFits, TicketsKeep
<1>5. op.at = "insert" => op.ticket.status = "open"
  BY DEF DeskFits
<1> QED BY <1>2, <1>3, <1>4, <1>5 DEF DeskFits

\* A step of one request: its own call fits what it leaves, and the others' still do.
LEMMA DeskStep ==
  ASSUME DeskInv, NEW c \in DeskCallers, NEW op \in DeskCalls,
         deskCall' = [deskCall EXCEPT ![c] = op], DeskFits(op)',
         tickets' \in TicketTables, TicketsKeep,
         \A id \in DOMAIN tickets' :
           tickets'[id].kind = "refund-dispute" /\ tickets'[id].status \notin openStatuses =>
             tickets'[id].action \in rulings,
         refundCase' \in {"none", "awaiting-seller", "disputed", "returning", "returned", "accepted", "rejected"},
         escalated' \in BOOLEAN, lapsed' \in BOOLEAN, resolved' \subseteq resolved, rulings' = rulings,
         lost' \in 0 .. MaxLost, begun' \in 0 .. MaxDeskCalls
  PROVE  DeskInv' /\ TicketVerdictStands
<1>1. deskCall \in [DeskCallers -> DeskCalls]
  BY DEF DeskInv, DeskRows
<1>2. deskCall' \in [DeskCallers -> DeskCalls]
      /\ \A d \in DeskCallers : deskCall'[d] = IF d = c THEN op ELSE deskCall[d]
  BY <1>1
<1>3. DeskRows'
  BY <1>2 DEF DeskInv, DeskRows
<1>4. DisputeClosedByVerdict'
  BY DEF DisputeClosedByVerdict, Unresolved
<1>5. ASSUME NEW d \in DeskCallers PROVE DeskFits(deskCall[d])'
  <2>1. PICK x \in DeskCalls : x = deskCall[d] /\ DeskFits(x)
    BY <1>1 DEF DeskInv
  <2>2. DeskFits(x)'
    BY <2>1, FitsKeep
  <2>3. deskCall'[d] = IF d = c THEN op ELSE x
    BY <1>2, <2>1
  <2>4. CASE d = c
    BY <2>3, <2>4 DEF DeskFits, CopyOf
  <2>5. CASE d # c
    BY <2>2, <2>3, <2>5 DEF DeskFits, CopyOf
  <2> QED BY <2>4, <2>5
<1> QED BY <1>3, <1>4, <1>5 DEF DeskInv, TicketsKeep

\* A step that touches no ticket.
LEMMA DeskRead ==
  ASSUME DeskInv, NEW c \in DeskCallers, NEW op \in DeskCalls,
         deskCall' = [deskCall EXCEPT ![c] = op], DeskFits(op), tickets' = tickets,
         refundCase' \in {"none", "awaiting-seller", "disputed", "returning", "returned", "accepted", "rejected"},
         escalated' \in BOOLEAN, lapsed' \in BOOLEAN, resolved' \subseteq resolved, rulings' = rulings,
         lost' \in 0 .. MaxLost, begun' \in 0 .. MaxDeskCalls
  PROVE  DeskInv' /\ TicketVerdictStands
<1>1. TicketsKeep
  BY DEF TicketsKeep, TicketVerdictStands
<1>2. DeskFits(op)'
  BY <1>1, FitsKeep
<1>3. tickets' \in TicketTables
  BY DEF DeskInv, DeskRows
<1>4. \A id \in DOMAIN tickets' :
        tickets'[id].kind = "refund-dispute" /\ tickets'[id].status \notin openStatuses =>
          tickets'[id].action \in rulings
  BY DEF DeskInv, DisputeClosedByVerdict, Unresolved
<1> QED BY <1>1, <1>2, <1>3, <1>4, DeskStep

\* A ticket written over: its kind and thread's row stay, and its verdict is the one
\* it had or a first one.
LEMMA TicketWritten ==
  ASSUME DeskInv, NEW id \in DOMAIN tickets, NEW t \in TicketRow, SaveTicket(id, t),
         t.kind = tickets[id].kind,
         tickets[id].status = "resolved" =>
           t.status = "resolved" /\ t.action = tickets[id].action /\ t.by = tickets[id].by,
         t.kind = "refund-dispute" /\ t.status = "resolved" => t.action \in rulings
  PROVE  /\ tickets' \in TicketTables /\ TicketsKeep
         /\ \A i \in DOMAIN tickets' :
              tickets'[i].kind = "refund-dispute" /\ tickets'[i].status \notin openStatuses =>
                tickets'[i].action \in rulings
<1>1. PICK n \in 0 .. MaxTickets : tickets \in [1 .. n -> TicketRow]
  BY DEF DeskInv, DeskRows, TicketTables
<1> DEFINE row == [t EXCEPT !.thread = t.thread \/ tickets[id].thread]
<1>2. tickets[id] \in TicketRow
  BY <1>1
<1>3. row \in TicketRow
  <2>1. (t.thread \/ tickets[id].thread) \in BOOLEAN
    OBVIOUS
  <2> QED BY <2>1 DEF TicketRow
<1>4. row.kind = t.kind /\ row.status = t.status /\ row.action = t.action /\ row.by = t.by
  BY DEF TicketRow
<1>5. tickets' = [tickets EXCEPT ![id] = row]
  BY DEF SaveTicket
<1> HIDE DEF row
<1>6. tickets' \in [1 .. n -> TicketRow] /\ \A i \in 1 .. n : tickets'[i] = IF i = id THEN row ELSE tickets[i]
  BY <1>1, <1>3, <1>5
<1>7. tickets' \in TicketTables
  BY <1>6 DEF TicketTables
<1>8. TicketsKeep
  BY <1>1, <1>4, <1>6 DEF TicketsKeep, TicketVerdictStands
<1>9. ASSUME NEW i \in DOMAIN tickets', tickets'[i].kind = "refund-dispute", tickets'[i].status \notin openStatuses
      PROVE  tickets'[i].action \in rulings
  <2>1. CASE i = id
    <3>1. row.status = "resolved"
      BY <1>3, <1>6, <1>9, <2>1 DEF TicketRow, openStatuses
    <3> QED BY <1>4, <1>6, <1>9, <2>1, <3>1
  <2>2. CASE i # id
    BY <1>1, <1>6, <1>9, <2>2 DEF DeskInv, DisputeClosedByVerdict, Unresolved
  <2> QED BY <2>1, <2>2
<1> QED BY <1>7, <1>8, <1>9

\* The order module's steps touch neither the tickets nor the desk's calls, and only
\* ever add a ruling.
LEMMA OrderSideKeeps ==
  ASSUME DeskInv, tickets' = tickets, deskCall' = deskCall, rulings \subseteq rulings',
         rulings' \subseteq {"refund-granted", "refund-refused"}, resolved' \subseteq Verdicts,
         \A v \in resolved' : v.action \in rulings',
         refundCase' \in {"none", "awaiting-seller", "disputed", "returning", "returned", "accepted", "rejected"},
         escalated' \in BOOLEAN, lapsed' \in BOOLEAN, lost' \in 0 .. MaxLost, begun' \in 0 .. MaxDeskCalls
  PROVE  DeskInv' /\ TicketVerdictStands
<1>1. TicketsKeep
  BY DEF TicketsKeep, TicketVerdictStands
<1>2. DeskRows'
  BY DEF DeskInv, DeskRows
<1>3. DisputeClosedByVerdict'
  BY DEF DeskInv, DisputeClosedByVerdict, Unresolved
<1>4. ASSUME NEW d \in DeskCallers PROVE DeskFits(deskCall[d])'
  <2>1. PICK x \in DeskCalls : x = deskCall[d] /\ DeskFits(x)
    BY DEF DeskInv, DeskRows
  <2>2. DeskFits(x)'
    BY <1>1, <2>1, FitsKeep
  <2> QED BY <2>1, <2>2 DEF DeskFits, CopyOf
<1> QED BY <1>1, <1>2, <1>3, <1>4 DEF DeskInv, TicketsKeep

\* The refund's own course, its escalation, the lapse and the verdict on the money.
LEMMA OrderSideSteps ==
  ASSUME DeskInv,
         \/ CaseMoves \/ EscalateUnanswered \/ ConfirmationLapses
         \/ \E m \in Moderators, buyerWins \in BOOLEAN : AdminResolveRefund(m, buyerWins)
  PROVE  DeskInv' /\ TicketVerdictStands
<1> USE DEF caseVars, eventVars
<1>1. /\ rulings \subseteq {"refund-granted", "refund-refused"} /\ resolved \subseteq Verdicts
      /\ refundCase \in {"none", "awaiting-seller", "disputed", "returning", "returned", "accepted", "rejected"}
      /\ escalated \in BOOLEAN /\ lapsed \in BOOLEAN /\ lost \in 0 .. MaxLost /\ begun \in 0 .. MaxDeskCalls
      /\ \A v \in resolved : v.action \in rulings
  BY DEF DeskInv, DeskRows
<1>2. Fail => lost' \in 0 .. MaxLost
  BY <1>1, DeskAssumption DEF Fail
<1>3. CASE CaseMoves
  BY <1>1, <1>3, OrderSideKeeps DEF CaseMoves
<1>4. CASE EscalateUnanswered
  BY <1>1, <1>2, <1>4, OrderSideKeeps DEF EscalateUnanswered
<1>5. CASE ConfirmationLapses
  BY <1>1, <1>5, OrderSideKeeps DEF ConfirmationLapses
<1>6. ASSUME NEW m \in Moderators, NEW buyerWins \in BOOLEAN, AdminResolveRefund(m, buyerWins)
      PROVE  DeskInv' /\ TicketVerdictStands
  <2>1. PICK action \in {"refund-granted", "refund-refused"} :
           /\ rulings' = rulings \cup {action}
           /\ \/ resolved' = resolved \cup {[by |-> m, action |-> action]} /\ UNCHANGED lost
              \/ Fail /\ UNCHANGED resolved
    BY <1>6 DEF AdminResolveRefund
  <2>2. [by |-> m, action |-> action] \in Verdicts
    BY DEF Verdicts
  <2>3. resolved' \subseteq Verdicts /\ \A v \in resolved' : v.action \in rulings'
    BY <1>1, <2>1, <2>2
  <2>4. refundCase' \in {"rejected", "accepted", "returning"}
    BY <1>6 DEF AdminResolveRefund
  <2> QED BY <1>1, <1>2, <1>6, <2>1, <2>3, <2>4, OrderSideKeeps DEF AdminResolveRefund
<1> QED BY <1>3, <1>4, <1>5, <1>6

\* A request raises a ticket: it reads, and inserts later.
LEMMA TicketRaised ==
  ASSUME DeskInv, NEW c \in DeskCallers,
         NEW who \in {OrderBuyer, OrderSeller}, NEW kind \in TicketKinds \cup {"refund-dispute", "order-issue"},
         NEW event \in {"none", "escalated", "lapsed"}, BeginTicket(c, who, kind, event)
  PROVE  DeskInv' /\ TicketVerdictStands
<1> USE DEF caseVars, eventVars
<1> DEFINE op == [at |-> "insert", ticket |-> NewTicket(who, kind), event |-> event]
<1>1. NewTicket(who, kind) \in TicketRow /\ NewTicket(who, kind).status = "open"
  BY DEF NewTicket, TicketRow
<1>2. op \in DeskCalls /\ DeskFits(op)
  BY <1>1 DEF DeskCalls, Inserting, DeskFits
<1>3. /\ deskCall' = [deskCall EXCEPT ![c] = op] /\ begun < MaxDeskCalls /\ begun' = begun + 1
      /\ UNCHANGED <<cameBack, tickets, eventVars, lost>>
  BY DEF BeginTicket, Begin, Step
<1>4. begun' \in 0 .. MaxDeskCalls
  BY <1>3, DeskAssumption DEF DeskInv, DeskRows
<1>5. refundCase' \in {"none", "awaiting-seller", "disputed", "returning", "returned", "accepted", "rejected"}
  BY DEF BeginTicket, EscalateRefund, DeskInv, DeskRows
<1> HIDE DEF op
<1>6. escalated \in BOOLEAN /\ lapsed \in BOOLEAN /\ lost \in 0 .. MaxLost
  BY DEF DeskInv, DeskRows
<1> QED BY <1>2, <1>3, <1>4, <1>5, <1>6, DeskRead

\* The insert: a duplicate ends the request, and otherwise a new row, open, follows
\* the others.
LEMMA InsertKeeps ==
  ASSUME DeskInv, NEW c \in DeskCallers, InsertTicket(c)
  PROVE  DeskInv' /\ TicketVerdictStands
<1> USE DEF caseVars, eventVars
<1>1. PICK op \in DeskCalls : op = deskCall[c] /\ DeskFits(op) /\ op.at = "insert"
  BY DEF InsertTicket, DeskInv, DeskRows
<1>2. op.ticket \in TicketRow /\ op.ticket.status = "open"
  BY <1>1 DEF DeskFits, DeskCalls, IdleDesk, Inserting, Threading, TicketSaving, Closing
<1>3. /\ escalated' \in BOOLEAN /\ lapsed' \in BOOLEAN /\ resolved' = resolved /\ rulings' = rulings
      /\ lost' = lost /\ begun' = begun /\ refundCase' = refundCase
  BY DEF InsertTicket, Ack
<1>4. /\ lost' \in 0 .. MaxLost /\ begun' \in 0 .. MaxDeskCalls
      /\ refundCase' \in {"none", "awaiting-seller", "disputed", "returning", "returned", "accepted", "rejected"}
  BY <1>3 DEF DeskInv, DeskRows
<1>5. CASE TicketExists(op.ticket)
  <2>1. deskCall' = [deskCall EXCEPT ![c] = IdleDesk] /\ tickets' = tickets
    BY <1>1, <1>5 DEF InsertTicket, Step
  <2>2. IdleDesk \in DeskCalls /\ DeskFits(IdleDesk)
    BY DEF IdleDesk, DeskCalls, DeskFits
  <2> QED BY <1>3, <1>4, <2>1, <2>2, DeskRead
<1>6. CASE ~TicketExists(op.ticket)
  <2>1. PICK n \in 0 .. MaxTickets : tickets \in [1 .. n -> TicketRow]
    BY DEF DeskInv, DeskRows, TicketTables
  <2>2. DOMAIN tickets = 1 .. n
    BY <2>1
  <2>3. Cardinality(1 .. n) = n
    BY FS_Interval, DeskAssumption
  <2>4. PICK id \in 1 .. MaxTickets : id = n + 1
    BY <1>1, <1>6, <2>2, <2>3, DeskAssumption DEF InsertTicket
  <2>5. /\ tickets' = [i \in 1 .. id |-> IF i = id THEN op.ticket ELSE tickets[i]]
        /\ deskCall' = [deskCall EXCEPT ![c] = [at |-> "thread", id |-> id, copy |-> op.ticket]]
    BY <1>1, <1>6, <2>2, <2>3, <2>4 DEF InsertTicket, Step
  <2>6. \A i \in 1 .. n : i \in 1 .. id /\ i # id
    BY <2>4
  <2>7. tickets' \in [1 .. id -> TicketRow] /\ tickets'[id] = op.ticket /\ \A i \in 1 .. n : tickets'[i] = tickets[i]
    <3>1. \A i \in 1 .. id : i # id => i \in 1 .. n
      BY <2>4
    <3> QED BY <1>2, <2>1, <2>4, <2>5, <2>6, <3>1
  <2>8. tickets' \in TicketTables
    <3>1. id \in 0 .. MaxTickets
      BY <2>4
    <3> QED BY <2>7, <3>1 DEF TicketTables
  <2>9. TicketsKeep
    BY <2>2, <2>6, <2>7 DEF TicketsKeep, TicketVerdictStands
  <2>10. ASSUME NEW i \in DOMAIN tickets', tickets'[i].kind = "refund-dispute", tickets'[i].status \notin openStatuses
         PROVE  tickets'[i].action \in rulings
    <3>1. i # id
      BY <1>2, <2>7, <2>10 DEF openStatuses
    <3>2. i \in 1 .. n
      BY <2>4, <2>7, <3>1
    <3> QED BY <2>2, <2>7, <2>10, <3>2 DEF DeskInv, DisputeClosedByVerdict, Unresolved
  <2> DEFINE new == [at |-> "thread", id |-> id, copy |-> op.ticket]
  <2>11. new \in DeskCalls
    BY <1>2, <2>4 DEF DeskCalls, Threading
  <2>12. DeskFits(new)'
    <3>1. new.at = "thread" /\ new.id = id /\ new.copy = op.ticket
      OBVIOUS
    <3>2. id \in DOMAIN tickets'
      BY <2>7
    <3> QED BY <1>2, <2>7, <3>1, <3>2 DEF DeskFits, CopyOf
  <2>13. deskCall' = [deskCall EXCEPT ![c] = new]
    BY <2>5
  <2> HIDE DEF new
  <2> QED BY <1>3, <1>4, <2>8, <2>9, <2>10, <2>11, <2>12, <2>13, DeskStep
<1> QED BY <1>5, <1>6

\* Requests that read a ticket, or give up.
LEMMA DeskReads ==
  ASSUME DeskInv, NEW c \in DeskCallers,
         \/ Abandon(c) \/ attachThread(c) \/ RecordRefundVerdict(c) \/ VerdictRecorded(c)
         \/ \E id \in DOMAIN tickets :
              \/ GetTicket(c, id)
              \/ \E m \in Moderators : AdminClaimTicket(c, m, id) \/ AdminResolveTicket(c, m, id)
  PROVE  DeskInv' /\ TicketVerdictStands
<1> USE DEF caseVars, eventVars
<1>1. /\ resolved \subseteq Verdicts /\ \A v \in resolved : v.action \in rulings
      /\ refundCase \in {"none", "awaiting-seller", "disputed", "returning", "returned", "accepted", "rejected"}
      /\ escalated \in BOOLEAN /\ lapsed \in BOOLEAN /\ lost \in 0 .. MaxLost /\ begun \in 0 .. MaxDeskCalls
  BY DEF DeskInv, DeskRows
<1>2. \A op : Begin(c, op) => begun' \in 0 .. MaxDeskCalls /\ deskCall' = [deskCall EXCEPT ![c] = op]
  BY <1>1, DeskAssumption DEF Begin, Step
<1>3. IdleDesk \in DeskCalls /\ DeskFits(IdleDesk)
  BY DEF IdleDesk, DeskCalls, DeskFits
<1>4. PICK n \in 0 .. MaxTickets : tickets \in [1 .. n -> TicketRow]
  BY DEF DeskInv, DeskRows, TicketTables
<1>5. CASE Abandon(c)
  <2>1. lost' \in 0 .. MaxLost
    BY <1>1, <1>5, DeskAssumption DEF Abandon, Fail
  <2> QED BY <1>1, <1>3, <1>5, <2>1, DeskRead DEF Abandon, Step
<1>6. CASE VerdictRecorded(c)
  BY <1>1, <1>3, <1>6, DeskRead DEF VerdictRecorded, Step
<1>7. CASE attachThread(c)
  <2>1. PICK op \in DeskCalls : op = deskCall[c] /\ DeskFits(op) /\ op.at = "thread"
    BY <1>7 DEF attachThread, DeskInv, DeskRows
  <2>2. op \in Threading
    BY <2>1 DEF DeskCalls, IdleDesk, Inserting, TicketSaving, Closing
  <2>3. PICK t \in TicketRow, id \in Nat : t = op.copy /\ id = op.id
    BY <2>2 DEF Threading
  <2> DEFINE copy == AttachThread(t)
             new == [at |-> "save", id |-> id, copy |-> copy, from |-> {t.status}]
  <2>4. copy \in TicketRow /\ copy.kind = t.kind /\ copy.status = t.status /\ copy.action = t.action /\ copy.by = t.by
    BY DEF TicketRow, AttachThread
  <2>5. deskCall' = [deskCall EXCEPT ![c] = new]
    BY <1>7, <2>1, <2>3 DEF attachThread, Step
  <2> HIDE DEF copy
  <2>6. {t.status} \in SUBSET {"open", "reviewing", "resolved"}
    BY DEF TicketRow
  <2>7. new \in DeskCalls
    BY <2>4, <2>6 DEF DeskCalls, TicketSaving
  <2>8. CopyOf(id, t)
    BY <2>1, <2>3 DEF DeskFits
  <2>9. CopyOf(id, copy)
    BY <2>4, <2>8 DEF CopyOf
  <2>10. DeskFits(new)
    <3>1. new.at = "save" /\ new.id = id /\ new.copy = copy /\ new.from = {copy.status}
      BY <2>4
    <3> QED BY <2>9, <3>1 DEF DeskFits, CopyOf
  <2> HIDE DEF new
  <2> QED BY <1>1, <1>7, <2>5, <2>7, <2>10, DeskRead DEF attachThread
<1>8. CASE RecordRefundVerdict(c)
  <2>1. PICK v \in resolved, T \in TicketTables, L \in SUBSET DOMAIN tickets :
           /\ T = tickets
           /\ Begin(c, [at |-> "close", verdict |-> v, left |-> L, copies |-> T])
    <3>1. OpenTicketsAgainst("order") \in SUBSET DOMAIN tickets
      BY DEF OpenTicketsAgainst
    <3>2. tickets \in TicketTables
      BY DEF DeskInv, DeskRows
    <3> QED BY <1>8, <3>1, <3>2 DEF RecordRefundVerdict
  <2> DEFINE new == [at |-> "close", verdict |-> v, left |-> L, copies |-> T]
  <2>2. L \in SUBSET Nat
    BY <1>4
  <2>3. new \in DeskCalls
    BY <1>1, <2>2 DEF DeskCalls, Closing
  <2>4. DeskFits(new)
    BY <1>1, <2>1 DEF DeskFits
  <2>5. Begin(c, new)
    BY <2>1
  <2> HIDE DEF new
  <2> QED BY <1>1, <1>2, <1>8, <2>3, <2>4, <2>5, DeskRead DEF RecordRefundVerdict
<1>9. ASSUME NEW id \in DOMAIN tickets, GetTicket(c, id) PROVE DeskInv' /\ TicketVerdictStands
  <2>1. PICK t \in TicketRow : t = tickets[id]
    BY <1>4
  <2> DEFINE new == [at |-> "thread", id |-> id, copy |-> t]
  <2>2. new \in DeskCalls
    BY <1>4 DEF DeskCalls, Threading
  <2>3. DeskFits(new)
    BY <2>1 DEF DeskFits, CopyOf
  <2>4. Begin(c, new)
    BY <1>9, <2>1 DEF GetTicket
  <2> HIDE DEF new
  <2> QED BY <1>1, <1>2, <1>9, <2>2, <2>3, <2>4, DeskRead DEF GetTicket
<1>10. ASSUME NEW id \in DOMAIN tickets, NEW m \in Moderators, AdminClaimTicket(c, m, id)
       PROVE  DeskInv' /\ TicketVerdictStands
  <2>1. PICK t \in TicketRow : t = Claim(tickets[id], m) /\ t.status = "reviewing" /\ t.kind = tickets[id].kind
    <3>1. tickets[id] \in TicketRow
      BY <1>4
    <3>2. Claim(tickets[id], m) \in TicketRow
      BY <3>1 DEF Claim, TicketRow
    <3>3. Claim(tickets[id], m).status = "reviewing" /\ Claim(tickets[id], m).kind = tickets[id].kind
      BY <3>1 DEF Claim, TicketRow
    <3> QED BY <3>2, <3>3
  <2> DEFINE new == [at |-> "save", id |-> id, copy |-> t, from |-> {"open"}]
  <2>2. new \in DeskCalls
    BY <1>4 DEF DeskCalls, TicketSaving
  <2>3. DeskFits(new)
    BY <2>1 DEF DeskFits
  <2>4. Begin(c, new)
    BY <1>10, <2>1 DEF AdminClaimTicket
  <2> HIDE DEF new
  <2> QED BY <1>1, <1>2, <1>10, <2>2, <2>3, <2>4, DeskRead DEF AdminClaimTicket
<1>11. ASSUME NEW id \in DOMAIN tickets, NEW m \in Moderators, AdminResolveTicket(c, m, id)
       PROVE  DeskInv' /\ TicketVerdictStands
  <2>1. PICK t \in TicketRow : t = Resolve(tickets[id], m, "none") /\ t.kind = tickets[id].kind
    <3>1. tickets[id] \in TicketRow
      BY <1>4
    <3>2. Resolve(tickets[id], m, "none") \in TicketRow
      BY <3>1 DEF Resolve, TicketRow
    <3>3. Resolve(tickets[id], m, "none").kind = tickets[id].kind
      BY <3>1 DEF Resolve, TicketRow
    <3> QED BY <3>2, <3>3
  <2> DEFINE new == [at |-> "save", id |-> id, copy |-> t, from |-> openStatuses]
  <2>2. new \in DeskCalls
    BY <1>4 DEF DeskCalls, TicketSaving, openStatuses
  <2>3. DeskFits(new)
    BY <1>11, <2>1 DEF DeskFits, AdminResolveTicket, ResolvableByHand
  <2>4. Begin(c, new)
    BY <1>11, <2>1 DEF AdminResolveTicket
  <2> HIDE DEF new
  <2> QED BY <1>1, <1>2, <1>11, <2>2, <2>3, <2>4, DeskRead DEF AdminResolveTicket
<1> QED BY <1>5, <1>6, <1>7, <1>8, <1>9, <1>10, <1>11

\* A save lands under its guard: a claim on an open ticket, a hand's resolution on an
\* unresolved one that is no dispute, a thread on a ticket as it was read.
LEMMA TicketSaveKeeps ==
  ASSUME DeskInv, NEW c \in DeskCallers, Save(c)
  PROVE  DeskInv' /\ TicketVerdictStands
<1> USE DEF caseVars, eventVars
<1>1. PICK op \in DeskCalls : op = deskCall[c] /\ DeskFits(op) /\ op.at = "save"
  BY DEF Save, DeskInv, DeskRows
<1>2. op \in TicketSaving
  BY <1>1 DEF DeskCalls, IdleDesk, Inserting, Threading, Closing
<1>3. PICK t \in TicketRow, id \in DOMAIN tickets : t = op.copy /\ id = op.id
  BY <1>1, <1>2 DEF TicketSaving, DeskFits
<1>4. IdleDesk \in DeskCalls /\ DeskFits(IdleDesk) /\ DeskFits(IdleDesk)'
  BY DEF IdleDesk, DeskCalls, DeskFits
<1>5. /\ resolved' = resolved /\ rulings' = rulings /\ UNCHANGED <<refundCase, escalated, lapsed, lost, begun>>
      /\ deskCall' = [deskCall EXCEPT ![c] = IdleDesk]
  BY DEF Save, Step
<1>6. /\ refundCase' \in {"none", "awaiting-seller", "disputed", "returning", "returned", "accepted", "rejected"}
      /\ escalated' \in BOOLEAN /\ lapsed' \in BOOLEAN /\ lost' \in 0 .. MaxLost /\ begun' \in 0 .. MaxDeskCalls
  BY <1>5 DEF DeskInv, DeskRows
<1>7. CASE ~SaveTicketLands(op.id, op.from)
  <2>1. tickets' = tickets
    BY <1>1, <1>7 DEF Save
  <2> QED BY <1>4, <1>5, <1>6, <2>1, DeskRead
<1>8. CASE SaveTicketLands(op.id, op.from)
  <2>1. SaveTicket(id, t)
    BY <1>1, <1>3, <1>8 DEF Save
  <2>2. tickets[id].status \in op.from /\ t.kind = tickets[id].kind
    BY <1>1, <1>3, <1>8 DEF SaveTicketLands, DeskFits
  <2>3. \/ op.from = {t.status} /\ CopyOf(id, t)
        \/ op.from = {"open"} /\ t.status = "reviewing"
        \/ op.from = openStatuses /\ t.kind # "refund-dispute"
    BY <1>1, <1>3 DEF DeskFits
  <2>4. tickets[id].status = "resolved" =>
          t.status = "resolved" /\ t.action = tickets[id].action /\ t.by = tickets[id].by
    BY <2>2, <2>3 DEF CopyOf, openStatuses
  <2>5. t.kind = "refund-dispute" /\ t.status = "resolved" => t.action \in rulings
    <3> SUFFICES ASSUME t.kind = "refund-dispute", t.status = "resolved" PROVE t.action \in rulings
      OBVIOUS
    <3>1. tickets[id].status = "resolved" /\ tickets[id].action = t.action
      BY <2>3 DEF CopyOf
    <3> QED BY <1>3, <2>2, <3>1 DEF DeskInv, DisputeClosedByVerdict, Unresolved, openStatuses
  <2> QED BY <1>3, <1>4, <1>5, <1>6, <2>1, <2>2, <2>4, <2>5, TicketWritten, DeskStep
<1> QED BY <1>7, <1>8

\* Recording a verdict closes only tickets that are still unresolved, with the action
\* staff gave.
LEMMA CloseKeeps ==
  ASSUME DeskInv, NEW c \in DeskCallers, CloseNext(c)
  PROVE  DeskInv' /\ TicketVerdictStands
<1> USE DEF caseVars, eventVars
<1>1. PICK op \in DeskCalls : op = deskCall[c] /\ DeskFits(op) /\ op.at = "close"
  BY DEF CloseNext, DeskInv, DeskRows
<1>2. op \in Closing
  BY <1>1 DEF DeskCalls, IdleDesk, Inserting, Threading, TicketSaving
<1>3. PICK id \in op.left :
         IF SaveTicketLands(id, openStatuses)
         THEN /\ SaveTicket(id, Resolve(op.copies[id], op.verdict.by, op.verdict.action))
              /\ Step(c, [op EXCEPT !.left = @ \ {id}])
         ELSE Step(c, IdleDesk) /\ UNCHANGED tickets
  BY <1>1 DEF CloseNext
<1>4. /\ op.verdict \in Verdicts /\ op.verdict.action \in rulings /\ op.left \subseteq DOMAIN op.copies
      /\ id \in DOMAIN tickets /\ op.copies[id] \in TicketRow /\ op.copies[id].kind = tickets[id].kind
  BY <1>1, <1>2, TicketRows DEF DeskFits, Closing
<1>5. /\ resolved' = resolved /\ rulings' = rulings /\ UNCHANGED <<refundCase, escalated, lapsed, lost, begun>>
  BY DEF CloseNext
<1>6. /\ refundCase' \in {"none", "awaiting-seller", "disputed", "returning", "returned", "accepted", "rejected"}
      /\ escalated' \in BOOLEAN /\ lapsed' \in BOOLEAN /\ lost' \in 0 .. MaxLost /\ begun' \in 0 .. MaxDeskCalls
  BY <1>5 DEF DeskInv, DeskRows
<1>7. CASE ~SaveTicketLands(id, openStatuses)
  <2>1. IdleDesk \in DeskCalls /\ DeskFits(IdleDesk)
    BY DEF IdleDesk, DeskCalls, DeskFits
  <2>2. tickets' = tickets /\ deskCall' = [deskCall EXCEPT ![c] = IdleDesk]
    BY <1>3, <1>7 DEF Step
  <2> QED BY <1>5, <1>6, <2>1, <2>2, DeskRead
<1>8. CASE SaveTicketLands(id, openStatuses)
  <2>1. PICK t \in TicketRow :
           /\ t = Resolve(op.copies[id], op.verdict.by, op.verdict.action)
           /\ t.kind = tickets[id].kind /\ t.action = op.verdict.action
    <3> DEFINE r == Resolve(op.copies[id], op.verdict.by, op.verdict.action)
    <3>1. op.verdict.by \in Moderators /\ op.verdict.action \in {"refund-granted", "refund-refused"}
      BY <1>4 DEF Verdicts
    <3>2. r \in TicketRow
      BY <1>4, <3>1 DEF Resolve, TicketRow
    <3>3. r.kind = op.copies[id].kind /\ r.action = op.verdict.action
      BY <1>4 DEF Resolve, TicketRow
    <3> QED BY <1>4, <3>2, <3>3
  <2>2. SaveTicket(id, t) /\ tickets[id].status \in openStatuses
    BY <1>3, <1>8, <2>1 DEF SaveTicketLands
  <2>3. tickets[id].status # "resolved"
    BY <2>2 DEF openStatuses
  <2>4. /\ tickets' \in TicketTables /\ TicketsKeep
        /\ \A i \in DOMAIN tickets' :
             tickets'[i].kind = "refund-dispute" /\ tickets'[i].status \notin openStatuses =>
               tickets'[i].action \in rulings
    BY <1>4, <2>1, <2>2, <2>3, TicketWritten
  <2>5. PICK new \in DeskCalls : new = [op EXCEPT !.left = @ \ {id}] /\ DeskFits(new)
    <3> DEFINE x == [op EXCEPT !.left = @ \ {id}]
    <3>1. x \in Closing /\ x.at = "close" /\ x.verdict = op.verdict /\ x.copies = op.copies /\ x.left \subseteq op.left
      BY <1>2 DEF Closing
    <3> HIDE DEF x
    <3>2. DeskFits(x)
      BY <1>1, <3>1 DEF DeskFits
    <3>3. x \in DeskCalls
      BY <3>1 DEF DeskCalls
    <3> QED BY <3>2, <3>3 DEF x
  <2>6. DeskFits(new)'
    BY <1>5, <2>4, <2>5, FitsKeep
  <2>7. deskCall' = [deskCall EXCEPT ![c] = new]
    BY <1>3, <1>8, <2>5 DEF Step
  <2> QED BY <1>5, <1>6, <2>4, <2>6, <2>7, DeskStep
<1> QED BY <1>7, <1>8

\* Every step of the desk keeps the invariant, and a verdict stands.
LEMMA DeskInvKept ==
  ASSUME DeskInv, [DeskNext]_deskVars
  PROVE  DeskInv' /\ TicketVerdictStands
<1>1. CASE UNCHANGED deskVars
  <2>1. /\ resolved \subseteq Verdicts /\ \A v \in resolved : v.action \in rulings
        /\ rulings \subseteq {"refund-granted", "refund-refused"}
        /\ refundCase \in {"none", "awaiting-seller", "disputed", "returning", "returned", "accepted", "rejected"}
        /\ escalated \in BOOLEAN /\ lapsed \in BOOLEAN /\ lost \in 0 .. MaxLost /\ begun \in 0 .. MaxDeskCalls
    BY DEF DeskInv, DeskRows
  <2> QED BY <1>1, <2>1, OrderSideKeeps DEF deskVars, caseVars, eventVars
<1>2. ASSUME NEW c \in DeskCallers, OpenTicket(c) PROVE DeskInv' /\ TicketVerdictStands
  <2>1. PICK who \in {OrderBuyer, OrderSeller}, kind \in TicketKinds : BeginTicket(c, who, kind, "none")
    BY <1>2 DEF OpenTicket
  <2> QED BY <2>1, TicketRaised
<1>3. ASSUME NEW c \in DeskCallers, SubscribeEscalatedRefunds(c) \/ SubscribeUnconfirmedOrders(c)
      PROVE  DeskInv' /\ TicketVerdictStands
  BY <1>3, TicketRaised DEF SubscribeEscalatedRefunds, SubscribeUnconfirmedOrders
<1> QED BY <1>1, <1>2, <1>3, OrderSideSteps, InsertKeeps, DeskReads, TicketSaveKeeps, CloseKeeps DEF DeskNext

-----------------------------------------------------------------------------
\* The ratings.

TradeRoles == {"buyer", "seller"}
RatingRow == [is : {TRUE}, rating : Ratings, published : BOOLEAN]
FeedbackPairs == [Directions -> RatingRow \cup {NoRow}]
ReviewRow == [is : {TRUE}, rating : Ratings, replies : Int, helpful : Int, notHelpful : Int]
VoteRows == [Voters -> {-1, 0, 1}]
ReputationRow == [sum : Int, count : Int, reviewSum : Int, reviewCount : Int, completed : Int, cancelled : Int]

Revealing == [at : {"reveal"}, order : Sales, direction : Directions]
ReviewSaving == [at : {"save"}, order : Sales, rating : Ratings, read : Ratings, push : BOOLEAN]
Averaging == [at : {"average"}]
Pushing == [at : {"push"}, average : [sum : Nat, count : Nat]]
Unreplying == [at : {"unreply"}, order : Sales, reply : Voters]
RatingOps == {IdleRating} \cup Revealing \cup ReviewSaving \cup Averaging \cup Pushing \cup Unreplying

RatingRows ==
  /\ sale \in [Sales -> [state : {"open", "completed", "cancelled"}, counted : BOOLEAN]]
  /\ feedback \in [Sales -> FeedbackPairs]
  /\ windowOver \subseteq Sales
  /\ reviews \in [Sales -> ReviewRow \cup {NoRow}]
  /\ replies \in [Sales -> SUBSET Voters]
  /\ votes \in [Sales -> VoteRows]
  /\ reputation \in [TradeRoles -> ReputationRow]
  /\ ratingOp \in [RatingCallers -> RatingOps]
  /\ edits \in 0 .. MaxEdits

\* A rating waiting to be revealed is there to stay, and its window has run out.
RevealsFit ==
  \A c \in RatingCallers : ratingOp[c].at = "reveal" =>
    /\ feedback[ratingOp[c].order][ratingOp[c].direction] # NoRow
    /\ ratingOp[c].order \in windowOver

\* Only a sale that is settled is counted.
CountsFit == \A o \in Sales : sale[o].counted => sale[o].state # "open"

\* Nothing is left under a review that is gone.
NothingUnder(o) == replies[o] = {} /\ \A v \in Voters : votes[o][v] = 0
UnderFits == \A o \in Sales : ~Reviewed(o) => NothingUnder(o)

RatingInv ==
  /\ RatingRows /\ RevealsFit /\ CountsFit /\ UnderFits
  /\ ReputationAddsUp /\ TalliesMatchRows /\ BlindUntilAnswered

\* The invariant says all the property of the states says.
LEMMA RatingsAre == RatingInv => RatingTypeOK /\ ReputationAddsUp /\ TalliesMatchRows /\ BlindUntilAnswered
BY DEF RatingInv, RatingRows, RatingTypeOK

\* What the settled orders, the feedback and the reviews are summed from, as functions
\* of the rows alone.
Settled(S, state) == {o \in Sales : S[o].counted /\ S[o].state = state}
Out(F, r) == {od \in Sales \X Directions : F[od[1]][od[2]] # NoRow /\ F[od[1]][od[2]].published /\ RoleRated(od[2]) = r}
OutRatings(F, r) == [od \in Out(F, r) |-> F[od[1]][od[2]].rating]
Standing(R) == {o \in Sales : R[o] # NoRow}
StandingRatings(R) == [o \in Standing(R) |-> R[o].rating]

\* One role's row adds up over these rows.
RoleAddsUp(rep, r, S, F, R) ==
  /\ rep.count = Cardinality(Out(F, r))
  /\ rep.sum = SumFunction(OutRatings(F, r))
  /\ rep.completed = Cardinality(Settled(S, "completed"))
  /\ rep.cancelled = Cardinality(Settled(S, "cancelled"))
  /\ r = "seller" => /\ rep.reviewSum = SumFunction(StandingRatings(R))
                     /\ rep.reviewCount = Cardinality(Standing(R))

\* The property in those words, of a state and of the next.
LEMMA AddsUpInRows ==
  /\ ReputationAddsUp <=> \A r \in TradeRoles : RoleAddsUp(reputation[r], r, sale, feedback, reviews)
  /\ ReputationAddsUp' <=> \A r \in TradeRoles : RoleAddsUp(reputation'[r], r, sale', feedback', reviews')
<1>1. \A r : PublishedFor(r) = Out(feedback, r) /\ PublishedFor(r)' = Out(feedback', r)
  BY DEF PublishedFor, Out, Published, Written
<1>2. \A s : Outcomes(s) = Cardinality(Settled(sale, s)) /\ Outcomes(s)' = Cardinality(Settled(sale', s))
  BY DEF Outcomes, Settled
<1>3. {s \in Sales : Reviewed(s)} = Standing(reviews) /\ {s \in Sales : Reviewed(s)}' = Standing(reviews')
  BY DEF Standing, Reviewed
<1>4. /\ ReviewAverage.sum = SumFunction(StandingRatings(reviews))
      /\ ReviewAverage.count = Cardinality(Standing(reviews))
      /\ ReviewAverage'.sum = SumFunction(StandingRatings(reviews'))
      /\ ReviewAverage'.count = Cardinality(Standing(reviews'))
  BY <1>3 DEF ReviewAverage, StandingRatings
<1> QED BY <1>1, <1>2, <1>4 DEF ReputationAddsUp, RoleAddsUp, OutRatings, TradeRoles

\* The rows summed are finitely many, and what they hold is a rating.
LEMMA RowsSummed ==
  /\ \A F \in [Sales -> FeedbackPairs] : \A r \in TradeRoles :
       /\ IsFiniteSet(Out(F, r)) /\ Cardinality(Out(F, r)) \in Nat
       /\ OutRatings(F, r) \in [Out(F, r) -> 0 .. 5] /\ SumFunction(OutRatings(F, r)) \in Nat
  /\ \A R \in [Sales -> ReviewRow \cup {NoRow}] :
       /\ IsFiniteSet(Standing(R)) /\ Cardinality(Standing(R)) \in Nat
       /\ StandingRatings(R) \in [Standing(R) -> 0 .. 5] /\ SumFunction(StandingRatings(R)) \in Nat
  /\ \A S, state : IsFiniteSet(Settled(S, state)) /\ Cardinality(Settled(S, state)) \in Nat
<1>1. IsFiniteSet(Sales) /\ Ratings \subseteq 0 .. 5
  BY RatingAssumption
<1>2. IsFiniteSet(Directions)
  <2>1. IsFiniteSet({"buyer-to-seller"})
    BY FS_Singleton
  <2>2. Directions = {"buyer-to-seller"} \cup {"seller-to-buyer"}
    BY DEF Directions
  <2> QED BY <2>1, <2>2, FS_AddElement
<1>3. IsFiniteSet(Sales \X Directions)
  BY <1>1, <1>2, FS_Product
<1>4. ASSUME NEW F \in [Sales -> FeedbackPairs], NEW r \in TradeRoles
      PROVE  /\ IsFiniteSet(Out(F, r)) /\ Cardinality(Out(F, r)) \in Nat
             /\ OutRatings(F, r) \in [Out(F, r) -> 0 .. 5] /\ SumFunction(OutRatings(F, r)) \in Nat
  <2>1. Out(F, r) \in SUBSET (Sales \X Directions)
    BY DEF Out
  <2>2. IsFiniteSet(Out(F, r)) /\ Cardinality(Out(F, r)) \in Nat
    BY <1>3, <2>1, FS_Subset, FS_CardinalityType
  <2>3. \A od \in Out(F, r) : F[od[1]][od[2]].rating \in 0 .. 5
    <3> TAKE od \in Out(F, r)
    <3>1. od[1] \in Sales /\ od[2] \in Directions /\ F[od[1]][od[2]] # NoRow
      BY DEF Out
    <3>2. F[od[1]] \in FeedbackPairs
      BY <3>1
    <3>3. F[od[1]][od[2]] \in RatingRow
      BY <3>1, <3>2 DEF FeedbackPairs
    <3> QED BY <1>1, <3>3 DEF RatingRow
  <2>4. OutRatings(F, r) \in [Out(F, r) -> 0 .. 5]
    BY <2>3 DEF OutRatings
  <2> QED BY <2>2, <2>4, SumIsUnits
<1>5. ASSUME NEW R \in [Sales -> ReviewRow \cup {NoRow}]
      PROVE  /\ IsFiniteSet(Standing(R)) /\ Cardinality(Standing(R)) \in Nat
             /\ StandingRatings(R) \in [Standing(R) -> 0 .. 5] /\ SumFunction(StandingRatings(R)) \in Nat
  <2>1. Standing(R) \in SUBSET Sales
    BY DEF Standing
  <2>2. IsFiniteSet(Standing(R)) /\ Cardinality(Standing(R)) \in Nat
    BY <1>1, <2>1, FS_Subset, FS_CardinalityType
  <2>3. \A o \in Standing(R) : R[o].rating \in 0 .. 5
    BY <1>1 DEF Standing, ReviewRow
  <2>4. StandingRatings(R) \in [Standing(R) -> 0 .. 5]
    BY <2>3 DEF StandingRatings
  <2> QED BY <2>2, <2>4, SumIsUnits
<1>6. ASSUME NEW S, NEW state PROVE IsFiniteSet(Settled(S, state)) /\ Cardinality(Settled(S, state)) \in Nat
  <2>1. Settled(S, state) \in SUBSET Sales
    BY DEF Settled
  <2> QED BY <1>1, <2>1, FS_Subset, FS_CardinalityType
<1> QED BY <1>4, <1>5, <1>6

\* The rows of an order that are published at once, and what they are worth to a role.
Given(ds, r) == {d \in ds : RoleRated(d) = r}
Worth(G, o, ds, r) == [d \in Given(ds, r) |-> G[o][d].rating]

\* From F to G the rows ds of order o are published, and nothing else is.
Publishes(F, G, o, ds) ==
  /\ \A p \in Sales : p # o => G[p] = F[p]
  /\ \A d \in ds : /\ G[o][d] # NoRow /\ G[o][d].published
                   /\ F[o][d] = NoRow \/ ~F[o][d].published
  /\ \A d \in Directions \ ds :
       \/ G[o][d] = F[o][d]
       \/ /\ F[o][d] = NoRow \/ ~F[o][d].published
          /\ G[o][d] = NoRow \/ ~G[o][d].published

\* Publishing rows of one order adds, for each role, the rows that rate it.
LEMMA PublishAdds ==
  ASSUME NEW F \in [Sales -> FeedbackPairs], NEW G \in [Sales -> FeedbackPairs], NEW o \in Sales,
         NEW ds \in SUBSET Directions, NEW r \in TradeRoles, Publishes(F, G, o, ds)
  PROVE  /\ Cardinality(Out(G, r)) = Cardinality(Out(F, r)) + Cardinality(Given(ds, r))
         /\ SumFunction(OutRatings(G, r)) = SumFunction(OutRatings(F, r)) + SumFunction(Worth(G, o, ds, r))
<1>0. /\ \A p \in Sales : p # o => G[p] = F[p]
      /\ \A d \in ds : /\ G[o][d] # NoRow /\ G[o][d].published
                       /\ F[o][d] = NoRow \/ ~F[o][d].published
      /\ \A d \in Directions \ ds :
           \/ G[o][d] = F[o][d]
           \/ /\ F[o][d] = NoRow \/ ~F[o][d].published
              /\ G[o][d] = NoRow \/ ~G[o][d].published
  BY DEF Publishes
<1> DEFINE given == {d \in ds : RoleRated(d) = r}
           worth == [d \in given |-> G[o][d].rating]
<1>1. /\ IsFiniteSet(Out(F, r)) /\ Cardinality(Out(F, r)) \in Nat /\ SumFunction(OutRatings(F, r)) \in Nat
      /\ OutRatings(F, r) \in [Out(F, r) -> 0 .. 5] /\ OutRatings(G, r) \in [Out(G, r) -> 0 .. 5]
  BY RowsSummed
<1>2. PICK d \in Directions : RoleRated(d) = r /\ \A e \in Directions : RoleRated(e) = r => e = d
  BY DEF Directions, TradeRoles, RoleRated
<1>3. \A p \in Sales, e \in Directions : <<p, e>> # <<o, d>> =>
        /\ <<p, e>> \in Out(G, r) <=> <<p, e>> \in Out(F, r)
        /\ <<p, e>> \in Out(F, r) => G[p][e] = F[p][e]
  BY <1>0, <1>2 DEF Out
<1>4. CASE d \notin ds
  <2>1. given = {}
    BY <1>2, <1>4
  <2>2. <<o, d>> \in Out(G, r) <=> <<o, d>> \in Out(F, r)
    BY <1>0, <1>4 DEF Out
  <2>3. <<o, d>> \in Out(F, r) => G[o][d] = F[o][d]
    BY <1>0, <1>4 DEF Out
  <2>4. Out(G, r) = Out(F, r)
    <3>1. \A p \in Sales, e \in Directions : <<p, e>> \in Out(G, r) <=> <<p, e>> \in Out(F, r)
      BY <1>3, <2>2
    <3>2. \A od \in Out(G, r) \cup Out(F, r) : \E p \in Sales, e \in Directions : od = <<p, e>>
      BY DEF Out
    <3>3. \A od \in Out(G, r) : od \in Out(F, r)
      BY <3>1, <3>2
    <3>4. \A od \in Out(F, r) : od \in Out(G, r)
      BY <3>1, <3>2
    <3> QED BY <3>3, <3>4
  <2>10. ASSUME NEW od \in Out(F, r) PROVE G[od[1]][od[2]] = F[od[1]][od[2]]
    <3>1. PICK p \in Sales, e \in Directions : od = <<p, e>>
      BY DEF Out
    <3>2. CASE <<p, e>> = <<o, d>>
      BY <2>3, <3>1, <3>2
    <3>3. CASE <<p, e>> # <<o, d>>
      BY <1>3, <3>1, <3>3
    <3> QED BY <3>2, <3>3
  <2>5. OutRatings(G, r) = OutRatings(F, r)
    BY <2>4, <2>10 DEF OutRatings
  <2>6. Cardinality(given) = 0 /\ SumFunction(worth) = 0
    <3>1. worth \in [{} -> Nat]
      BY <2>1
    <3> QED BY <2>1, <3>1, SumOfNone, FS_EmptySet
  <2> HIDE DEF worth, given
  <2>7. /\ Cardinality(Out(G, r)) = Cardinality(Out(F, r)) + Cardinality(given)
        /\ SumFunction(OutRatings(G, r)) = SumFunction(OutRatings(F, r)) + SumFunction(worth)
    BY <1>1, <2>4, <2>5, <2>6
  <2> QED BY <2>7 DEF worth, given, Worth, Given
<1>5. CASE d \in ds
  <2>1. given = {d}
    BY <1>2, <1>5
  <2>2. <<o, d>> \in Out(G, r) /\ <<o, d>> \notin Out(F, r)
    BY <1>0, <1>2, <1>5 DEF Out
  <2>3. Out(G, r) = Out(F, r) \cup {<<o, d>>}
    <3>1. \A od \in Sales \X Directions : od # <<o, d>> => (od \in Out(G, r) <=> od \in Out(F, r))
      BY <1>3
    <3>2. \A od \in Out(F, r) \cup Out(G, r) : od \in Sales \X Directions
      BY DEF Out
    <3> QED BY <2>2, <3>1, <3>2
  <2>4. Cardinality(Out(G, r)) = Cardinality(Out(F, r)) + 1
    <3>1. PICK x : x = <<o, d>> /\ x \notin Out(F, r) /\ Out(G, r) = Out(F, r) \cup {x}
      BY <2>2, <2>3
    <3>2. Cardinality(Out(F, r) \cup {x}) = Cardinality(Out(F, r)) + 1
      BY <1>1, <3>1, FS_AddElement
    <3> QED BY <3>1, <3>2
  <2>5. \A od \in Out(F, r) : OutRatings(G, r)[od] = OutRatings(F, r)[od]
    <3>1. \A od \in Out(F, r) : od = <<od[1], od[2]>> /\ od[1] \in Sales /\ od[2] \in Directions /\ od # <<o, d>>
      BY <2>2 DEF Out
    <3>2. \A od \in Out(F, r) : G[od[1]][od[2]] = F[od[1]][od[2]]
      BY <1>3, <3>1
    <3> QED BY <2>3, <3>2 DEF OutRatings
  <2>6. OutRatings(G, r)[<<o, d>>] = G[o][d].rating
    BY <2>2 DEF OutRatings
  <2>8. SumFunction(OutRatings(G, r)) = SumFunction(OutRatings(F, r)) + G[o][d].rating
    <3>1. PICK x : x = <<o, d>> /\ x \notin Out(F, r) /\ Out(G, r) = Out(F, r) \cup {x}
      BY <2>2, <2>3
    <3>2. PICK S : S = Out(F, r)
      OBVIOUS
    <3>3. PICK T : T = Out(G, r)
      OBVIOUS
    <3>4. PICK M \in Nat : M = 5
      OBVIOUS
    <3>5. PICK f \in [S -> 0 .. M] : f = OutRatings(F, r)
      BY <1>1, <3>2, <3>4
    <3>6. PICK g \in [T -> 0 .. M] : g = OutRatings(G, r)
      BY <1>1, <3>3, <3>4
    <3>7. IsFiniteSet(S) /\ x \notin S /\ T = S \cup {x}
      BY <1>1, <3>1, <3>2, <3>3
    <3>8. \A y \in S : g[y] = f[y]
      BY <2>5, <3>2, <3>5, <3>6
    <3>9. SumFunction(g) = SumFunction(f) + g[x]
      BY <3>7, <3>8, SumAdds
    <3>10. g[x] = G[o][d].rating
      BY <2>6, <3>1, <3>6
    <3> QED BY <3>5, <3>6, <3>9, <3>10
  <2>9. SumFunction(worth) = G[o][d].rating /\ Cardinality(given) = 1
    <3>1. G[o][d].rating \in 0 .. 5
      BY <1>1, <2>2, <2>6
    <3>2. worth \in [{d} -> 0 .. 5] /\ worth[d] = G[o][d].rating
      BY <2>1, <3>1
    <3> HIDE DEF worth
    <3>3. SumFunction(worth) = worth[d]
      <4>1. PICK M \in Nat : M = 5
        OBVIOUS
      <4> QED BY <3>2, <4>1, SumOfOne
    <3> QED BY <2>1, <3>2, <3>3, FS_Singleton
  <2> HIDE DEF worth, given
  <2>10. /\ Cardinality(Out(G, r)) = Cardinality(Out(F, r)) + Cardinality(given)
         /\ SumFunction(OutRatings(G, r)) = SumFunction(OutRatings(F, r)) + SumFunction(worth)
    BY <2>4, <2>8, <2>9
  <2> QED BY <2>10 DEF worth, given, Worth, Given
<1> QED BY <1>4, <1>5

\* The reputation after rows of one order are published: both roles still add up.
LEMMA PublishKeeps ==
  ASSUME RatingRows, ReputationAddsUp, NEW f \in [Sales -> FeedbackPairs], NEW o \in Sales,
         NEW ds \in SUBSET Directions, PublishRows(f, o, ds), sale' = sale, reviews' = reviews,
         \A p \in Sales : p # o => f[p] = feedback[p],
         \A d \in Directions :
           \/ f[o][d] = feedback[o][d]
           \/ feedback[o][d] = NoRow /\ f[o][d] # NoRow /\ ~f[o][d].published,
         \A d \in ds : f[o][d] # NoRow /\ ~f[o][d].published
  PROVE  /\ feedback' \in [Sales -> FeedbackPairs]
         /\ \A p \in Sales : p # o => feedback'[p] = feedback[p]
         /\ \A d \in Directions :
              feedback'[o][d] = IF d \in ds THEN [f[o][d] EXCEPT !.published = TRUE] ELSE f[o][d]
         /\ reputation' \in [TradeRoles -> ReputationRow] /\ ReputationAddsUp'
<1> DEFINE pair == [d \in Directions |-> IF d \in ds THEN [f[o][d] EXCEPT !.published = TRUE] ELSE f[o][d]]
<1>1. feedback' = [f EXCEPT ![o] = pair] /\ feedback \in [Sales -> FeedbackPairs]
  BY DEF PublishRows, RatingRows
<1>2. \A d \in ds : f[o][d] \in RatingRow
  BY DEF FeedbackPairs
<1>3. \A d \in ds : /\ [f[o][d] EXCEPT !.published = TRUE] \in RatingRow
                    /\ [f[o][d] EXCEPT !.published = TRUE].published
                    /\ [f[o][d] EXCEPT !.published = TRUE].rating = f[o][d].rating
                    /\ [f[o][d] EXCEPT !.published = TRUE] # NoRow
  BY <1>2 DEF RatingRow, NoRow
<1>4. pair \in FeedbackPairs
  BY <1>3 DEF FeedbackPairs
<1>5. PICK G \in [Sales -> FeedbackPairs] : G = feedback' /\ G[o] = pair /\ \A p \in Sales : p # o => G[p] = feedback[p]
  <2> HIDE DEF pair
  <2>1. feedback' \in [Sales -> FeedbackPairs]
    BY <1>1, <1>4
  <2>2. feedback'[o] = pair /\ \A p \in Sales : p # o => feedback'[p] = feedback[p]
    BY <1>1
  <2> QED BY <2>1, <2>2
<1>6. PICK F \in [Sales -> FeedbackPairs] : F = feedback
  BY <1>1
<1>7. PICK rep \in [TradeRoles -> ReputationRow] : rep = reputation
  BY DEF RatingRows
<1>8. ASSUME NEW r \in TradeRoles
      PROVE  reputation'[r] \in ReputationRow /\ RoleAddsUp(reputation'[r], r, sale', feedback', reviews')
  <2> DEFINE given == Given(ds, r)
             worth == Worth(G, o, ds, r)
  <2>1. /\ Cardinality(Out(G, r)) = Cardinality(Out(F, r)) + Cardinality(given)
        /\ SumFunction(OutRatings(G, r)) = SumFunction(OutRatings(F, r)) + SumFunction(worth)
    <3>1. \A d \in ds : G[o][d] # NoRow /\ G[o][d].published /\ (F[o][d] = NoRow \/ ~F[o][d].published)
      BY <1>3, <1>5, <1>6
    <3>2. \A d \in Directions \ ds :
            \/ G[o][d] = F[o][d]
            \/ (F[o][d] = NoRow \/ ~F[o][d].published) /\ (G[o][d] = NoRow \/ ~G[o][d].published)
      BY <1>5, <1>6
    <3>3. \A p \in Sales : p # o => G[p] = F[p]
      BY <1>5, <1>6
    <3>4. Publishes(F, G, o, ds)
      BY <3>1, <3>2, <3>3 DEF Publishes
    <3> QED BY <3>4, PublishAdds
  <2>2. worth = [d \in given |-> f[o][d].rating]
    BY <1>3, <1>5 DEF Worth, Given
  <2>3. reputation'[r] = [rep[r] EXCEPT !.sum = @ + SumFunction([d \in given |-> f[o][d].rating]),
                                        !.count = @ + Cardinality(given)]
    BY <1>7 DEF PublishRows, Given
  <2>11. given \in SUBSET Directions /\ given \subseteq ds
    BY DEF Given
  <2> HIDE DEF worth, given
  <2>4. /\ Cardinality(given) \in Int /\ SumFunction(worth) \in Int
        /\ Cardinality(Out(F, r)) \in Nat /\ SumFunction(OutRatings(F, r)) \in Nat
        /\ Cardinality(Out(G, r)) \in Nat /\ SumFunction(OutRatings(G, r)) \in Nat
    <3>1. worth \in [given -> 0 .. 5]
      <4>1. \A d \in given : f[o][d].rating \in 0 .. 5
        <5> TAKE d \in given
        <5>1. f[o][d] \in RatingRow
          BY <1>2, <2>11
        <5>2. f[o][d].rating \in Ratings
          BY <5>1 DEF RatingRow
        <5>3. Ratings \subseteq 0 .. 5
          BY RatingAssumption
        <5> HIDE DEF pair
        <5> QED BY <5>2, <5>3
      <4> QED BY <2>2, <4>1
    <3>2. IsFiniteSet(Directions)
      <4>1. IsFiniteSet({"buyer-to-seller"})
        BY FS_Singleton
      <4>2. Directions = {"buyer-to-seller"} \cup {"seller-to-buyer"}
        BY DEF Directions
      <4> QED BY <4>1, <4>2, FS_AddElement
    <3>3. IsFiniteSet(given) /\ Cardinality(given) \in Nat
      BY <2>11, <3>2, FS_Subset, FS_CardinalityType
    <3>4. PICK M \in Nat : M = 5
      OBVIOUS
    <3>5. SumFunction(worth) \in Nat
      BY <3>1, <3>3, <3>4, SumIsUnits
    <3> QED BY <3>3, <3>5, RowsSummed
  <2>5. /\ reputation'[r].sum = rep[r].sum + SumFunction(worth)
        /\ reputation'[r].count = rep[r].count + Cardinality(given)
        /\ reputation'[r].completed = rep[r].completed /\ reputation'[r].cancelled = rep[r].cancelled
        /\ reputation'[r].reviewSum = rep[r].reviewSum /\ reputation'[r].reviewCount = rep[r].reviewCount
    BY <2>2, <2>3 DEF ReputationRow
  <2>6. reputation'[r] \in ReputationRow
    <3>1. rep[r].sum + SumFunction(worth) \in Int /\ rep[r].count + Cardinality(given) \in Int
      BY <2>4 DEF ReputationRow
    <3> QED BY <2>2, <2>3, <3>1 DEF ReputationRow
  <2>7. RoleAddsUp(rep[r], r, sale, F, reviews)
    BY <1>6, <1>7, AddsUpInRows
  <2>8. RoleAddsUp(reputation'[r], r, sale, G, reviews)
    BY <2>1, <2>4, <2>5, <2>7 DEF RoleAddsUp
  <2> QED BY <1>5, <2>6, <2>8
<1>9. reputation' \in [TradeRoles -> ReputationRow]
  <2>1. reputation' = [r \in TradeRoles |-> reputation'[r]]
    BY <1>7 DEF PublishRows
  <2> QED BY <1>8, <2>1
<1>10. ReputationAddsUp'
  BY <1>8, AddsUpInRows
<1>11. \A d \in Directions :
         feedback'[o][d] = IF d \in ds THEN [f[o][d] EXCEPT !.published = TRUE] ELSE f[o][d]
  BY <1>5
<1> QED BY <1>5, <1>9, <1>10, <1>11

\* Waiting reveals keep waiting for a row that is there, its window over.
LEMMA RevealsStay ==
  ASSUME RatingRows, RevealsFit, NEW c \in RatingCallers, NEW x \in RatingOps,
         ratingOp' = [ratingOp EXCEPT ![c] = x],
         x.at = "reveal" => feedback'[x.order][x.direction] # NoRow /\ x.order \in windowOver',
         \A o \in Sales, d \in Directions : feedback[o][d] # NoRow => feedback'[o][d] # NoRow,
         windowOver \subseteq windowOver'
  PROVE  ratingOp' \in [RatingCallers -> RatingOps] /\ RevealsFit'
<1>1. ratingOp \in [RatingCallers -> RatingOps]
  BY DEF RatingRows
<1>2. ASSUME NEW b \in RatingCallers, ratingOp'[b].at = "reveal"
      PROVE  feedback'[ratingOp'[b].order][ratingOp'[b].direction] # NoRow /\ ratingOp'[b].order \in windowOver'
  <2>1. CASE b = c
    BY <1>1, <1>2, <2>1
  <2>2. CASE b # c
    <3>1. PICK y \in RatingOps : y = ratingOp[b] /\ y = ratingOp'[b]
      BY <1>1, <2>2
    <3>2. y.order \in Sales /\ y.direction \in Directions
      BY <1>2, <3>1 DEF RatingOps, IdleRating, Revealing, ReviewSaving, Averaging, Pushing, Unreplying
    <3>3. feedback[y.order][y.direction] # NoRow /\ y.order \in windowOver
      BY <1>2, <3>1 DEF RevealsFit
    <3> QED BY <3>1, <3>2, <3>3
  <2> QED BY <2>1, <2>2
<1>3. ratingOp' \in [RatingCallers -> RatingOps]
  BY <1>1
<1> QED BY <1>2, <1>3 DEF RevealsFit

\* The same, of a step that moves no request.
LEMMA RevealsRest ==
  ASSUME RatingRows, RevealsFit, UNCHANGED ratingOp,
         \A o \in Sales, d \in Directions : feedback[o][d] # NoRow => feedback'[o][d] # NoRow,
         windowOver \subseteq windowOver'
  PROVE  ratingOp' \in [RatingCallers -> RatingOps] /\ RevealsFit'
<1>1. ratingOp \in [RatingCallers -> RatingOps]
  BY DEF RatingRows
<1>2. ASSUME NEW b \in RatingCallers, ratingOp'[b].at = "reveal"
      PROVE  feedback'[ratingOp'[b].order][ratingOp'[b].direction] # NoRow /\ ratingOp'[b].order \in windowOver'
  <2>1. PICK y \in RatingOps : y = ratingOp[b] /\ y = ratingOp'[b]
    BY <1>1
  <2>2. y.order \in Sales /\ y.direction \in Directions
    BY <1>2, <2>1 DEF RatingOps, IdleRating, Revealing, ReviewSaving, Averaging, Pushing, Unreplying
  <2>3. feedback[y.order][y.direction] # NoRow /\ y.order \in windowOver
    BY <1>2, <2>1 DEF RevealsFit
  <2> QED BY <2>1, <2>2, <2>3
<1> QED BY <1>1, <1>2 DEF RevealsFit

\* What a review counts for, in ratings and in reviews.
WorthOf(row) == IF row = NoRow THEN 0 ELSE row.rating
CountOf(row) == IF row = NoRow THEN 0 ELSE 1

\* What the standing reviews sum to, one of them taken apart.
LEMMA StandingApart ==
  ASSUME NEW R \in [Sales -> ReviewRow \cup {NoRow}], NEW o \in Sales,
         NEW P \in [Sales -> ReviewRow \cup {NoRow}], P[o] = NoRow, \A s \in Sales : s # o => P[s] = R[s]
  PROVE  /\ SumFunction(StandingRatings(R)) = SumFunction(StandingRatings(P)) + WorthOf(R[o])
         /\ Cardinality(Standing(R)) = Cardinality(Standing(P)) + CountOf(R[o])
<1>2. /\ IsFiniteSet(Standing(P)) /\ Cardinality(Standing(P)) \in Nat
      /\ StandingRatings(P) \in [Standing(P) -> 0 .. 5] /\ SumFunction(StandingRatings(P)) \in Nat
      /\ StandingRatings(R) \in [Standing(R) -> 0 .. 5]
  BY RowsSummed
<1>3. o \notin Standing(P) /\ \A s \in Sales : s # o => P[s] = R[s]
  BY DEF Standing
<1>4. CASE R[o] = NoRow
  <2>1. P = R
    BY <1>4
  <2>2. WorthOf(R[o]) = 0 /\ CountOf(R[o]) = 0
    BY <1>4 DEF WorthOf, CountOf
  <2>3. SumFunction(StandingRatings(R)) = SumFunction(StandingRatings(P)) + 0
    BY <1>2, <2>1
  <2>4. Cardinality(Standing(R)) = Cardinality(Standing(P)) + 0
    BY <1>2, <2>1
  <2> QED BY <2>2, <2>3, <2>4
<1>5. CASE R[o] # NoRow
  <2>1. Standing(R) = Standing(P) \cup {o}
    BY <1>3, <1>5 DEF Standing
  <2>2. Cardinality(Standing(R)) = Cardinality(Standing(P)) + 1
    BY <1>2, <1>3, <2>1, FS_AddElement
  <2>3. \A s \in Standing(P) : StandingRatings(R)[s] = StandingRatings(P)[s]
    BY <1>3, <2>1 DEF StandingRatings, Standing
  <2>4. StandingRatings(R)[o] = R[o].rating
    BY <2>1 DEF StandingRatings
  <2>5. PICK M \in Nat : M = 5
    OBVIOUS
  <2>6. SumFunction(StandingRatings(R)) = SumFunction(StandingRatings(P)) + StandingRatings(R)[o]
    <3>1. StandingRatings(P) \in [Standing(P) -> 0 .. M] /\ StandingRatings(R) \in [Standing(R) -> 0 .. M]
      BY <1>2, <2>5
    <3> QED BY <1>2, <1>3, <2>1, <2>3, <3>1, SumAdds
  <2> QED BY <1>5, <2>2, <2>4, <2>6 DEF WorthOf, CountOf
<1> QED BY <1>4, <1>5

\* The seller's reputation after one review is written, changed or removed.
LEMMA ReviewAdds ==
  ASSUME RatingRows, ReputationAddsUp, NEW o \in Sales, NEW row \in ReviewRow \cup {NoRow},
         NEW sum \in Int, NEW count \in Int, addReviewRating(sum, count),
         reviews' = [reviews EXCEPT ![o] = row], sale' = sale, feedback' = feedback,
         WorthOf(row) = WorthOf(reviews[o]) + sum, CountOf(row) = CountOf(reviews[o]) + count
  PROVE  reputation' \in [TradeRoles -> ReputationRow] /\ ReputationAddsUp'
<1>1. PICK R \in [Sales -> ReviewRow \cup {NoRow}] : R = reviews
  BY DEF RatingRows
<1>2. PICK Q \in [Sales -> ReviewRow \cup {NoRow}] : Q = reviews' /\ Q = [R EXCEPT ![o] = row]
  BY <1>1
<1>3. PICK P \in [Sales -> ReviewRow \cup {NoRow}] :
        P[o] = NoRow /\ \A s \in Sales : s # o => P[s] = R[s]
  <2> DEFINE without == [R EXCEPT ![o] = NoRow]
  <2>1. without \in [Sales -> ReviewRow \cup {NoRow}]
    OBVIOUS
  <2>2. without[o] = NoRow /\ \A s \in Sales : s # o => without[s] = R[s]
    OBVIOUS
  <2> HIDE DEF without
  <2> QED BY <2>1, <2>2
<1>4. \A s \in Sales : s # o => P[s] = Q[s]
  BY <1>2, <1>3
<1>5. /\ SumFunction(StandingRatings(R)) = SumFunction(StandingRatings(P)) + WorthOf(R[o])
      /\ Cardinality(Standing(R)) = Cardinality(Standing(P)) + CountOf(R[o])
  BY <1>3, StandingApart
<1>6. /\ SumFunction(StandingRatings(Q)) = SumFunction(StandingRatings(P)) + WorthOf(Q[o])
      /\ Cardinality(Standing(Q)) = Cardinality(Standing(P)) + CountOf(Q[o])
  BY <1>3, <1>4, StandingApart
<1>7. WorthOf(R[o]) \in Int /\ CountOf(R[o]) \in Int
  <2>1. R[o] \in ReviewRow \cup {NoRow}
    OBVIOUS
  <2>2. R[o] # NoRow => R[o].rating \in Ratings
    BY <2>1 DEF ReviewRow
  <2>3. Ratings \subseteq Int
    BY RatingAssumption
  <2>4. CountOf(R[o]) \in Int
    BY DEF CountOf
  <2>5. WorthOf(R[o]) \in Int
    <3>1. CASE R[o] = NoRow
      BY <3>1 DEF WorthOf
    <3>2. CASE R[o] # NoRow
      BY <2>2, <2>3, <3>2 DEF WorthOf
    <3> QED BY <3>1, <3>2
  <2> QED BY <2>4, <2>5
<1>8. /\ SumFunction(StandingRatings(Q)) = SumFunction(StandingRatings(R)) + sum
      /\ Cardinality(Standing(Q)) = Cardinality(Standing(R)) + count
  <2>1. WorthOf(Q[o]) = WorthOf(R[o]) + sum /\ CountOf(Q[o]) = CountOf(R[o]) + count
    BY <1>1, <1>2
  <2>2. SumFunction(StandingRatings(P)) \in Int /\ Cardinality(Standing(P)) \in Int
    BY RowsSummed
  <2> QED BY <1>5, <1>6, <1>7, <2>1, <2>2
<1>9. PICK rep \in [TradeRoles -> ReputationRow] : rep = reputation
  BY DEF RatingRows
<1>10. ASSUME NEW r \in TradeRoles
       PROVE  reputation'[r] \in ReputationRow /\ RoleAddsUp(reputation'[r], r, sale', feedback', reviews')
  <2>1. RoleAddsUp(rep[r], r, sale, feedback, R)
    BY <1>1, <1>9, AddsUpInRows
  <2>2. CASE r = "seller"
    <3> DEFINE new == [rep[r] EXCEPT !.reviewSum = @ + sum, !.reviewCount = @ + count]
    <3>1. reputation'[r] = new
      <4> DEFINE row1 == [rep["seller"] EXCEPT !.reviewSum = @ + sum, !.reviewCount = @ + count]
      <4>1. reputation' = [rep EXCEPT !["seller"] = row1]
        BY <1>9 DEF addReviewRating
      <4>2. row1 = new
        BY <2>2
      <4> HIDE DEF row1, new
      <4> QED BY <2>2, <4>1, <4>2
    <3>2. rep[r] \in ReputationRow
      OBVIOUS
    <3>3. new \in ReputationRow
      <4>1. rep[r].reviewSum + sum \in Int /\ rep[r].reviewCount + count \in Int
        BY <3>2 DEF ReputationRow
      <4> QED BY <3>2, <4>1 DEF ReputationRow
    <3>4. /\ new.reviewSum = rep[r].reviewSum + sum /\ new.reviewCount = rep[r].reviewCount + count
          /\ new.sum = rep[r].sum /\ new.count = rep[r].count
          /\ new.completed = rep[r].completed /\ new.cancelled = rep[r].cancelled
      BY <3>2 DEF ReputationRow
    <3> HIDE DEF new
    <3>5. RoleAddsUp(new, r, sale, feedback, Q)
      BY <1>8, <2>1, <3>4 DEF RoleAddsUp
    <3> QED BY <1>2, <3>1, <3>3, <3>5
  <2>3. CASE r # "seller"
    <3>1. reputation'[r] = rep[r]
      BY <1>9, <2>3 DEF addReviewRating
    <3>2. RoleAddsUp(rep[r], r, sale, feedback, Q)
      BY <2>1, <2>3 DEF RoleAddsUp
    <3> QED BY <1>2, <3>1, <3>2
  <2> QED BY <2>2, <2>3
<1>11. reputation' \in [TradeRoles -> ReputationRow]
  <2>1. reputation' = [r \in TradeRoles |-> reputation'[r]]
    BY <1>9 DEF addReviewRating
  <2> QED BY <1>10, <2>1
<1> QED BY <1>10, <1>11, AddsUpInRows

\* What lies under one review, as its row says; under no review, nothing.
ReviewFits(row, reps, vs) ==
  IF row = NoRow
  THEN reps = {} /\ \A v \in Voters : vs[v] = 0
  ELSE /\ row.replies = Cardinality(reps)
       /\ row.helpful = Cardinality({v \in Voters : vs[v] = 1})
       /\ row.notHelpful = Cardinality({v \in Voters : vs[v] = -1})

\* The tallies and the cascades, review by review.
LEMMA ReviewByReview ==
  /\ UnderFits /\ TalliesMatchRows <=> \A o \in Sales : ReviewFits(reviews[o], replies[o], votes[o])
  /\ UnderFits' /\ TalliesMatchRows' <=> \A o \in Sales : ReviewFits(reviews'[o], replies'[o], votes'[o])
BY DEF UnderFits, NothingUnder, TalliesMatchRows, ReviewFits, Reviewed

\* A step that writes one review and what lies under it, and counts the difference.
LEMMA OneReviewMoves ==
  ASSUME RatingInv, NEW o \in Sales, NEW row \in ReviewRow \cup {NoRow},
         NEW reps \in SUBSET Voters, NEW vs \in VoteRows,
         reviews' = [reviews EXCEPT ![o] = row], replies' = [replies EXCEPT ![o] = reps],
         votes' = [votes EXCEPT ![o] = vs], ReviewFits(row, reps, vs),
         NEW sum \in Int, NEW count \in Int, addReviewRating(sum, count),
         WorthOf(row) = WorthOf(reviews[o]) + sum, CountOf(row) = CountOf(reviews[o]) + count,
         UNCHANGED <<sale, feedback, windowOver>>,
         edits' \in 0 .. MaxEdits, ratingOp' \in [RatingCallers -> RatingOps], RevealsFit'
  PROVE  RatingInv'
<1>1. reputation' \in [TradeRoles -> ReputationRow] /\ ReputationAddsUp'
  BY ReviewAdds DEF RatingInv
<1>2. RatingRows'
  BY <1>1 DEF RatingInv, RatingRows
<1>3. UnderFits' /\ TalliesMatchRows'
  <2>1. \A p \in Sales : ReviewFits(reviews[p], replies[p], votes[p])
    BY ReviewByReview DEF RatingInv
  <2>2. \A p \in Sales : p # o => reviews'[p] = reviews[p] /\ replies'[p] = replies[p] /\ votes'[p] = votes[p]
    BY DEF RatingInv, RatingRows
  <2>3. reviews'[o] = row /\ replies'[o] = reps /\ votes'[o] = vs
    BY DEF RatingInv, RatingRows
  <2>4. \A p \in Sales : ReviewFits(reviews'[p], replies'[p], votes'[p])
    <3> TAKE p \in Sales
    <3>1. CASE p = o
      BY <2>3, <3>1
    <3>2. CASE p # o
      BY <2>1, <2>2, <3>2
    <3> QED BY <3>1, <3>2
  <2> QED BY <2>4, ReviewByReview
<1>4. CountsFit'
  BY DEF RatingInv, CountsFit
<1>5. BlindUntilAnswered'
  BY DEF RatingInv, BlindUntilAnswered, Published, Written
<1> QED BY <1>1, <1>2, <1>3, <1>4, <1>5 DEF RatingInv

\* Nothing to count leaves the reputation as it is.
LEMMA CountsNothing ==
  ASSUME RatingRows, UNCHANGED reputation
  PROVE  addReviewRating(0, 0)
<1>1. PICK rep \in [TradeRoles -> ReputationRow] : rep = reputation
  BY DEF RatingRows
<1>2. PICK q \in ReputationRow : q = rep["seller"]
  BY DEF TradeRoles
<1>3. q.reviewSum + 0 = q.reviewSum /\ q.reviewCount + 0 = q.reviewCount
  BY DEF ReputationRow
<1>4. [q EXCEPT !.reviewSum = q.reviewSum, !.reviewCount = q.reviewCount] = q
  BY DEF ReputationRow
<1>5. [rep EXCEPT !["seller"] = q] = rep
  BY <1>2
<1>6. [rep EXCEPT !["seller"] = [q EXCEPT !.reviewSum = q.reviewSum + 0, !.reviewCount = q.reviewCount + 0]] = rep
  BY <1>3, <1>4, <1>5
<1>7. reputation = [reputation EXCEPT !["seller"].reviewSum = @ + 0, !["seller"].reviewCount = @ + 0]
  BY <1>1, <1>2, <1>6
<1> QED BY <1>7 DEF addReviewRating

\* A vote moves the two tallies by what it adds and what it takes back.
LEMMA VotesCount ==
  ASSUME NEW vs \in VoteRows, NEW v \in Voters, NEW next \in {-1, 0, 1}, NEW w \in {-1, 1}
  PROVE  /\ [vs EXCEPT ![v] = next] \in VoteRows
         /\ Cardinality({u \in Voters : [vs EXCEPT ![v] = next][u] = w})
              = Cardinality({u \in Voters : vs[u] = w}) + (countOf(next, w) - countOf(vs[v], w))
<1> DEFINE After == [vs EXCEPT ![v] = next]
           Rest == {u \in Voters : vs[u] = w} \ {v}
<1>1. After \in VoteRows
  BY DEF VoteRows
<1>2. IsFiniteSet(Rest) /\ Cardinality(Rest) \in Nat
  <2>1. Rest \in SUBSET Voters
    OBVIOUS
  <2>2. IsFiniteSet(Voters)
    BY RatingAssumption
  <2> QED BY <2>1, <2>2, FS_Subset, FS_CardinalityType
<1>3. v \notin Rest
  OBVIOUS
<1>4. Cardinality({u \in Voters : vs[u] = w}) = Cardinality(Rest) + countOf(vs[v], w)
  <2> DEFINE Had == {u \in Voters : vs[u] = w}
  <2>1. CASE vs[v] = w
    <3>1. Had = Rest \cup {v}
      BY <2>1
    <3> HIDE DEF Had, Rest
    <3>2. Cardinality(Had) = Cardinality(Rest) + 1
      BY <1>2, <1>3, <3>1, FS_AddElement
    <3>3. countOf(vs[v], w) = 1
      BY <2>1 DEF countOf
    <3> QED BY <3>2, <3>3 DEF Had
  <2>2. CASE vs[v] # w
    <3>1. Had = Rest
      BY <2>2
    <3>2. countOf(vs[v], w) = 0
      BY <2>2 DEF countOf
    <3> HIDE DEF Had, Rest
    <3>3. Cardinality(Had) = Cardinality(Rest) + 0
      BY <1>2, <3>1
    <3> QED BY <3>2, <3>3 DEF Had
  <2> QED BY <2>1, <2>2
<1>5. Cardinality({u \in Voters : After[u] = w}) = Cardinality(Rest) + countOf(next, w)
  <2> DEFINE Has == {u \in Voters : After[u] = w}
  <2>1. After[v] = next /\ \A u \in Voters : u # v => After[u] = vs[u]
    BY DEF VoteRows
  <2>2. CASE next = w
    <3>1. Has = Rest \cup {v}
      BY <2>1, <2>2
    <3> HIDE DEF Has, Rest
    <3>2. Cardinality(Has) = Cardinality(Rest) + 1
      BY <1>2, <1>3, <3>1, FS_AddElement
    <3>3. countOf(next, w) = 1
      BY <2>2 DEF countOf
    <3> QED BY <3>2, <3>3 DEF Has
  <2>3. CASE next # w
    <3>1. Has = Rest
      BY <2>1, <2>3
    <3>2. countOf(next, w) = 0
      BY <2>3 DEF countOf
    <3> HIDE DEF Has, Rest
    <3>3. Cardinality(Has) = Cardinality(Rest) + 0
      BY <1>2, <3>1
    <3> QED BY <3>2, <3>3 DEF Has
  <2> QED BY <2>2, <2>3
<1>6. countOf(next, w) \in Int /\ countOf(vs[v], w) \in Int
  BY DEF countOf
<1> HIDE DEF Rest
<1> QED BY <1>1, <1>2, <1>4, <1>5, <1>6

\* What a rating request can be at.
LEMMA OpKinds ==
  /\ IdleRating \in RatingOps /\ [at |-> "average"] \in RatingOps
  /\ IdleRating.at # "reveal" /\ [at |-> "average"].at # "reveal"
  /\ \A op \in RatingOps :
       /\ op.at = "reveal" => op \in Revealing
       /\ op.at = "save" => op \in ReviewSaving
       /\ op.at = "push" => op \in Pushing
       /\ op.at = "unreply" => op \in Unreplying
BY DEF RatingOps, IdleRating, Revealing, ReviewSaving, Averaging, Pushing, Unreplying

\* A row is never the absence of one, and what it holds is a rating.
LEMMA RowsAreRows ==
  /\ NoRow \notin ReviewRow /\ NoRow \notin RatingRow
  /\ \A row \in ReviewRow \cup RatingRow : row.rating \in Ratings /\ row.rating \in Int
<1>1. Ratings \subseteq Int
  BY RatingAssumption
<1> QED BY <1>1 DEF ReviewRow, RatingRow, NoRow

\* A request moved to something that reveals nothing, by a step that leaves the
\* feedback alone.
LEMMA RequestMoves ==
  ASSUME RatingInv, NEW c \in RatingCallers, NEW x \in RatingOps, x.at # "reveal", StepRating(c, x),
         UNCHANGED <<feedback, windowOver>>
  PROVE  ratingOp' \in [RatingCallers -> RatingOps] /\ RevealsFit'
BY RevealsStay DEF RatingInv, StepRating

\* A reply or a vote: the row's tallies move with it, the rating does not.
LEMMA TallyMoves ==
  ASSUME RatingInv, NEW o \in Sales, NEW row \in ReviewRow, reviews[o] # NoRow,
         row.rating = reviews[o].rating,
         NEW reps \in SUBSET Voters, NEW vs \in VoteRows,
         reviews' = [reviews EXCEPT ![o] = row], replies' = [replies EXCEPT ![o] = reps],
         votes' = [votes EXCEPT ![o] = vs], ReviewFits(row, reps, vs),
         UNCHANGED <<sale, feedback, windowOver, reputation, edits>>,
         ratingOp' \in [RatingCallers -> RatingOps], RevealsFit'
  PROVE  RatingInv'
<1>1. addReviewRating(0, 0)
  BY CountsNothing DEF RatingInv
<1>2. row # NoRow /\ row.rating \in Int
  BY RowsAreRows
<1>3. PICK z \in Int : z = 0
  OBVIOUS
<1>4. addReviewRating(z, z)
  BY <1>1, <1>3
<1>5. WorthOf(row) = WorthOf(reviews[o]) + z /\ CountOf(row) = CountOf(reviews[o]) + z
  BY <1>2, <1>3 DEF WorthOf, CountOf
<1>6. edits' \in 0 .. MaxEdits
  BY DEF RatingInv, RatingRows
<1>7. row \in ReviewRow \cup {NoRow} /\ UNCHANGED <<sale, feedback, windowOver>>
  OBVIOUS
<1> QED BY <1>4, <1>5, <1>6, <1>7, OneReviewMoves

\* The review a step is about, and what lies under it.
LEMMA ReviewAt ==
  ASSUME RatingInv, NEW o \in Sales
  PROVE  /\ reviews[o] \in ReviewRow \cup {NoRow} /\ replies[o] \in SUBSET Voters /\ votes[o] \in VoteRows
         /\ ReviewFits(reviews[o], replies[o], votes[o])
         /\ replies = [replies EXCEPT ![o] = replies[o]] /\ votes = [votes EXCEPT ![o] = votes[o]]
<1>1. \A p \in Sales : ReviewFits(reviews[p], replies[p], votes[p])
  BY ReviewByReview DEF RatingInv
<1> QED BY <1>1 DEF RatingInv, RatingRows

\* A step that leaves every row alone.
LEMMA OnlyRequestsMove ==
  ASSUME RatingInv, UNCHANGED <<sale, feedback, windowOver, reviews, replies, votes, reputation>>,
         edits' \in 0 .. MaxEdits, ratingOp' \in [RatingCallers -> RatingOps], RevealsFit'
  PROVE  RatingInv'
<1>1. RatingRows'
  BY DEF RatingInv, RatingRows
<1>2. CountsFit' /\ BlindUntilAnswered'
  BY DEF RatingInv, CountsFit, BlindUntilAnswered, Published, Written
<1>3. UnderFits' /\ TalliesMatchRows'
  BY ReviewByReview DEF RatingInv
<1>4. ReputationAddsUp'
  BY AddsUpInRows DEF RatingInv
<1> QED BY <1>1, <1>2, <1>3, <1>4 DEF RatingInv

\* A reply is a row and one more in the tally.
LEMMA InsertReplyKeeps == ASSUME RatingInv, NEW o \in Sales, NEW v \in Voters, InsertReply(o, v) PROVE RatingInv'
<1>1. PICK rv \in ReviewRow : rv = reviews[o]
  BY ReviewAt DEF InsertReply, Reviewed
<1>2. PICK reps \in SUBSET Voters : reps = replies[o] /\ v \notin reps
  BY ReviewAt DEF InsertReply
<1>3. ReviewFits(rv, reps, votes[o]) /\ rv # NoRow
  BY <1>1, <1>2, ReviewAt, RowsAreRows
<1> DEFINE row == [rv EXCEPT !.replies = @ + 1]
           more == reps \cup {v}
<1>4. row \in ReviewRow /\ row.rating = rv.rating /\ row.replies = rv.replies + 1
      /\ row.helpful = rv.helpful /\ row.notHelpful = rv.notHelpful /\ row # NoRow
  <2>1. rv.replies + 1 \in Int
    BY DEF ReviewRow
  <2>2. row \in ReviewRow
    BY <2>1 DEF ReviewRow
  <2> QED BY <2>2, RowsAreRows DEF ReviewRow
<1>5. reviews' = [reviews EXCEPT ![o] = row] /\ replies' = [replies EXCEPT ![o] = more]
  BY <1>1, <1>2 DEF InsertReply, bumpReplyCount
<1>6. Cardinality(more) = Cardinality(reps) + 1
  <2>1. IsFiniteSet(reps)
    <3>1. IsFiniteSet(Voters)
      BY RatingAssumption
    <3> QED BY <3>1, FS_Subset
  <2> QED BY <1>2, <2>1, FS_AddElement
<1>7. more \in SUBSET Voters
  OBVIOUS
<1> HIDE DEF row, more
<1>8. ReviewFits(row, more, votes[o])
  BY <1>3, <1>4, <1>6 DEF ReviewFits
<1>9. votes' = [votes EXCEPT ![o] = votes[o]] /\ votes[o] \in VoteRows
  BY ReviewAt DEF InsertReply
<1>10. ratingOp' \in [RatingCallers -> RatingOps] /\ RevealsFit'
  BY RevealsRest DEF InsertReply, RatingInv
<1>11. UNCHANGED <<sale, feedback, windowOver, reputation, edits>>
  BY DEF InsertReply
<1>12. reviews[o] # NoRow /\ row.rating = reviews[o].rating
  BY <1>1, <1>3, <1>4
<1> QED BY <1>4, <1>5, <1>7, <1>8, <1>9, <1>10, <1>11, <1>12, TallyMoves

\* A vote given, flipped or withdrawn moves both tallies by the difference.
LEMMA PutVoteKeeps ==
  ASSUME RatingInv, NEW o \in Sales, NEW v \in Voters, NEW next \in {-1, 0, 1}, PutVote(o, v, next)
  PROVE  RatingInv'
<1>1. PICK rv \in ReviewRow : rv = reviews[o]
  BY ReviewAt DEF PutVote, Reviewed
<1>2. PICK vs \in VoteRows : vs = votes[o]
  BY ReviewAt
<1>3. ReviewFits(rv, replies[o], vs) /\ rv # NoRow
  BY <1>1, <1>2, ReviewAt, RowsAreRows
<1> DEFINE up == countOf(next, 1) - countOf(vs[v], 1)
           down == countOf(next, -1) - countOf(vs[v], -1)
           row == [rv EXCEPT !.helpful = @ + up, !.notHelpful = @ + down]
           after == [vs EXCEPT ![v] = next]
<1>4. up \in Int /\ down \in Int
  BY DEF countOf
<1>5. /\ after \in VoteRows
      /\ Cardinality({u \in Voters : after[u] = 1}) = Cardinality({u \in Voters : vs[u] = 1}) + up
      /\ Cardinality({u \in Voters : after[u] = -1}) = Cardinality({u \in Voters : vs[u] = -1}) + down
  <2>1. 1 \in {-1, 1} /\ -1 \in {-1, 1}
    OBVIOUS
  <2> QED BY <2>1, VotesCount
<1>6. votes' = [votes EXCEPT ![o] = after]
  BY <1>2 DEF PutVote
<1>7. reviews' = [reviews EXCEPT ![o] = row]
  BY <1>1, <1>2 DEF PutVote, VoteDelta
<1> HIDE DEF up, down
<1>8. row \in ReviewRow /\ row.rating = rv.rating /\ row.replies = rv.replies
      /\ row.helpful = rv.helpful + up /\ row.notHelpful = rv.notHelpful + down /\ row # NoRow
  <2>1. rv.helpful + up \in Int /\ rv.notHelpful + down \in Int
    BY <1>4 DEF ReviewRow
  <2>2. row \in ReviewRow
    BY <2>1 DEF ReviewRow
  <2> QED BY <2>2, RowsAreRows DEF ReviewRow
<1> HIDE DEF row, after
<1>9. ReviewFits(row, replies[o], after)
  BY <1>3, <1>5, <1>8 DEF ReviewFits
<1>10. replies' = [replies EXCEPT ![o] = replies[o]] /\ replies[o] \in SUBSET Voters
  BY ReviewAt DEF PutVote
<1>11. ratingOp' \in [RatingCallers -> RatingOps] /\ RevealsFit'
  BY RevealsRest DEF PutVote, RatingInv
<1>12. UNCHANGED <<sale, feedback, windowOver, reputation, edits>>
  BY DEF PutVote
<1>13. reviews[o] # NoRow /\ row.rating = reviews[o].rating
  BY <1>1, <1>3, <1>8
<1> QED BY <1>5, <1>6, <1>7, <1>8, <1>9, <1>10, <1>11, <1>12, <1>13, TallyMoves

\* A reply deleted twice is taken off the tally once.
LEMMA DropReplyKeeps == ASSUME RatingInv, NEW c \in RatingCallers, DropReply(c) PROVE RatingInv'
<1>1. PICK op \in Unreplying : op = ratingOp[c]
  BY OpKinds DEF RatingInv, RatingRows, DropReply
<1> DEFINE o == op.order
           v == op.reply
<1>2. o \in Sales /\ v \in Voters
  BY DEF Unreplying
<1>3. StepRating(c, IdleRating) /\ UNCHANGED <<sale, feedback, windowOver, votes, reputation, edits>>
  BY DEF DropReply
<1>4. ratingOp' \in [RatingCallers -> RatingOps] /\ RevealsFit'
  BY <1>3, OpKinds, RequestMoves
<1>5. IF v \in replies[o]
      THEN replies' = [replies EXCEPT ![o] = @ \ {v}] /\ bumpReplyCount(o, -1)
      ELSE UNCHANGED <<replies, reviews>>
  BY <1>1 DEF DropReply
<1> HIDE DEF o, v
<1>6. votes' = [votes EXCEPT ![o] = votes[o]] /\ votes[o] \in VoteRows
  BY <1>2, <1>3, ReviewAt
<1>7. CASE v \in replies[o]
  <2>1. PICK reps \in SUBSET Voters : reps = replies[o] /\ v \in reps
    BY <1>2, <1>7, ReviewAt
  <2>2. ReviewFits(reviews[o], reps, votes[o]) /\ reviews[o] \in ReviewRow \cup {NoRow}
    BY <1>2, <2>1, ReviewAt
  <2>3. reviews[o] # NoRow
    BY <2>1, <2>2 DEF ReviewFits
  <2>4. PICK rv \in ReviewRow : rv = reviews[o]
    BY <2>2, <2>3
  <2> DEFINE row == [rv EXCEPT !.replies = @ + -1]
             less == reps \ {v}
  <2>5. /\ row \in ReviewRow /\ row.rating = rv.rating /\ row.replies = rv.replies - 1
        /\ row.helpful = rv.helpful /\ row.notHelpful = rv.notHelpful /\ row # NoRow
    <3>1. rv.replies + -1 \in Int /\ rv.replies + -1 = rv.replies - 1
      BY DEF ReviewRow
    <3>2. row \in ReviewRow
      BY <3>1 DEF ReviewRow
    <3> QED BY <3>1, <3>2, RowsAreRows DEF ReviewRow
  <2>6. reviews' = [reviews EXCEPT ![o] = row] /\ replies' = [replies EXCEPT ![o] = less]
    BY <1>5, <1>7, <2>1, <2>4 DEF bumpReplyCount
  <2>7. Cardinality(less) = Cardinality(reps) - 1
    <3>1. IsFiniteSet(reps)
      <4>1. IsFiniteSet(Voters)
        BY RatingAssumption
      <4> QED BY <4>1, FS_Subset
    <3> QED BY <2>1, <3>1, FS_RemoveElement
  <2>8. less \in SUBSET Voters
    OBVIOUS
  <2> HIDE DEF row, less
  <2>9. ReviewFits(row, less, votes[o])
    BY <2>2, <2>3, <2>4, <2>5, <2>7 DEF ReviewFits
  <2>10. row.rating = reviews[o].rating
    BY <2>4, <2>5
  <2> QED BY <1>2, <1>3, <1>4, <1>6, <2>3, <2>5, <2>6, <2>8, <2>9, <2>10, TallyMoves
<1>8. CASE v \notin replies[o]
  <2>1. replies' = replies /\ reviews' = reviews
    BY <1>5, <1>8
  <2>2. edits' \in 0 .. MaxEdits
    BY <1>3 DEF RatingInv, RatingRows
  <2> QED BY <1>3, <1>4, <2>1, <2>2, OnlyRequestsMove
<1> QED BY <1>7, <1>8

\* An edit that begins moves its request and is counted.
LEMMA EditBegins ==
  ASSUME RatingInv, NEW c \in RatingCallers, NEW x \in RatingOps, x.at # "reveal", BeginEdit(c, x),
         UNCHANGED <<feedback, windowOver>>
  PROVE  edits' \in 0 .. MaxEdits /\ ratingOp' \in [RatingCallers -> RatingOps] /\ RevealsFit'
<1>1. edits \in 0 .. MaxEdits /\ edits < MaxEdits /\ edits' = edits + 1 /\ StepRating(c, x)
  BY DEF BeginEdit, RatingInv, RatingRows
<1>2. edits' \in 0 .. MaxEdits
  BY <1>1, RatingAssumption
<1> QED BY <1>1, <1>2, RequestMoves

\* A new review is counted with its row.
LEMMA SubmitReviewKeeps ==
  ASSUME RatingInv, NEW c \in RatingCallers, NEW o \in Sales, SubmitReview(c, o) PROVE RatingInv'
<1>1. reviews[o] = NoRow /\ UNCHANGED <<sale, feedback, windowOver, replies, votes>>
      /\ BeginEdit(c, [at |-> "average"])
  BY DEF SubmitReview, Reviewed
<1>2. PICK rating \in Ratings :
        /\ reviews' = [reviews EXCEPT ![o] =
             [is |-> TRUE, rating |-> rating, replies |-> 0, helpful |-> 0, notHelpful |-> 0]]
        /\ addReviewRating(rating, 1)
  BY DEF SubmitReview
<1> DEFINE row == [is |-> TRUE, rating |-> rating, replies |-> 0, helpful |-> 0, notHelpful |-> 0]
<1>3. row \in ReviewRow /\ row.rating = rating /\ row.replies = 0 /\ row.helpful = 0 /\ row.notHelpful = 0
  BY DEF ReviewRow
<1>4. reviews' = [reviews EXCEPT ![o] = row]
  BY <1>2
<1> HIDE DEF row
<1>5. row # NoRow /\ rating \in Int
  BY <1>3, RowsAreRows
<1>6. /\ edits' \in 0 .. MaxEdits /\ ratingOp' \in [RatingCallers -> RatingOps] /\ RevealsFit'
  BY <1>1, OpKinds, EditBegins
<1>7. replies[o] = {} /\ votes[o] \in VoteRows /\ \A v \in Voters : votes[o][v] = 0
  BY <1>1, ReviewAt DEF ReviewFits
<1>8. ReviewFits(row, {}, votes[o])
  <2>1. {v \in Voters : votes[o][v] = 1} = {} /\ {v \in Voters : votes[o][v] = -1} = {}
    BY <1>7
  <2>2. Cardinality({}) = 0
    BY FS_EmptySet
  <2> QED BY <1>3, <1>5, <2>1, <2>2 DEF ReviewFits
<1>9. WorthOf(row) = WorthOf(reviews[o]) + rating /\ CountOf(row) = CountOf(reviews[o]) + 1
  BY <1>1, <1>3, <1>5 DEF WorthOf, CountOf
<1>10. PICK one \in Int : one = 1
  OBVIOUS
<1>11. PICK none \in SUBSET Voters : none = {}
  OBVIOUS
<1>12. replies' = [replies EXCEPT ![o] = none] /\ votes' = [votes EXCEPT ![o] = votes[o]]
  BY <1>1, <1>7, <1>11, ReviewAt
<1>13. addReviewRating(rating, one) /\ CountOf(row) = CountOf(reviews[o]) + one
  BY <1>2, <1>9, <1>10
<1>14. ReviewFits(row, none, votes[o])
  BY <1>8, <1>11
<1> QED BY <1>1, <1>3, <1>4, <1>5, <1>6, <1>7, <1>9, <1>12, <1>13, <1>14, OneReviewMoves

\* A deleted review takes its rating, its replies and its votes with it.
LEMMA DeleteReviewKeeps ==
  ASSUME RatingInv, NEW c \in RatingCallers, NEW o \in Sales, DeleteReview(c, o) PROVE RatingInv'
<1>1. PICK rv \in ReviewRow : rv = reviews[o] /\ rv # NoRow /\ rv.rating \in Int
  BY ReviewAt, RowsAreRows DEF DeleteReview, Reviewed
<1>2. /\ addReviewRating(-rv.rating, -1) /\ BeginEdit(c, [at |-> "average"])
      /\ reviews' = [reviews EXCEPT ![o] = NoRow] /\ replies' = [replies EXCEPT ![o] = {}]
      /\ votes' = [votes EXCEPT ![o] = [v \in Voters |-> 0]]
      /\ UNCHANGED <<sale, feedback, windowOver>>
  BY <1>1 DEF DeleteReview
<1>3. PICK off \in Int : off = -rv.rating
  BY <1>1
<1>4. PICK one \in Int : one = -1
  OBVIOUS
<1>5. PICK none \in SUBSET Voters : none = {}
  OBVIOUS
<1>6. PICK vs \in VoteRows : vs = [v \in Voters |-> 0]
  BY DEF VoteRows
<1>7. PICK row : row = NoRow /\ row \in ReviewRow \cup {NoRow}
  OBVIOUS
<1>8. ReviewFits(row, none, vs)
  BY <1>5, <1>6, <1>7 DEF ReviewFits
<1>9. WorthOf(row) = WorthOf(reviews[o]) + off /\ CountOf(row) = CountOf(reviews[o]) + one
  BY <1>1, <1>3, <1>4, <1>7 DEF WorthOf, CountOf
<1>10. edits' \in 0 .. MaxEdits /\ ratingOp' \in [RatingCallers -> RatingOps] /\ RevealsFit'
  BY <1>2, OpKinds, EditBegins
<1>11. addReviewRating(off, one) /\ reviews' = [reviews EXCEPT ![o] = row]
       /\ replies' = [replies EXCEPT ![o] = none] /\ votes' = [votes EXCEPT ![o] = vs]
  BY <1>2, <1>3, <1>4, <1>5, <1>6, <1>7
<1> QED BY <1>2, <1>7, <1>8, <1>9, <1>10, <1>11, OneReviewMoves

\* An edit reads the review before it writes.
LEMMA UpdateReviewKeeps ==
  ASSUME RatingInv, NEW c \in RatingCallers, NEW o \in Sales, UpdateReview(c, o) PROVE RatingInv'
<1>1. UNCHANGED <<sale, feedback, windowOver, reviews, replies, votes, reputation>>
  BY DEF UpdateReview
<1>2. PICK rv \in ReviewRow : rv = reviews[o] /\ rv.rating \in Ratings
  BY ReviewAt, RowsAreRows DEF UpdateReview, Reviewed
<1>3. \E rating \in Ratings, push \in BOOLEAN :
        BeginEdit(c, [at |-> "save", order |-> o, rating |-> rating, read |-> rv.rating, push |-> push])
  BY <1>2 DEF UpdateReview
<1>4. PICK rating \in Ratings, push \in BOOLEAN :
        BeginEdit(c, [at |-> "save", order |-> o, rating |-> rating, read |-> rv.rating, push |-> push])
  BY <1>3
<1> DEFINE x == [at |-> "save", order |-> o, rating |-> rating, read |-> rv.rating, push |-> push]
<1>5. x \in RatingOps /\ x.at # "reveal"
  BY <1>2 DEF RatingOps, ReviewSaving
<1>6. BeginEdit(c, x)
  BY <1>4
<1> HIDE DEF x
<1> QED BY <1>1, <1>5, <1>6, EditBegins, OnlyRequestsMove

\* The difference of an edit is taken from the row as it is when it is written.
LEMMA SaveReviewKeeps == ASSUME RatingInv, NEW c \in RatingCallers, SaveReview(c) PROVE RatingInv'
<1>1. PICK op \in ReviewSaving : op = ratingOp[c]
  BY OpKinds DEF RatingInv, RatingRows, SaveReview
<1>2. op.order \in Sales /\ op.rating \in Ratings
  BY DEF ReviewSaving
<1>3. PICK o \in Sales : o = op.order
  BY <1>2
<1>4. UNCHANGED <<sale, feedback, windowOver, replies, votes, edits>> /\ edits' \in 0 .. MaxEdits
  BY DEF SaveReview, RatingInv, RatingRows
<1>5. PICK x \in RatingOps : x.at # "reveal" /\ StepRating(c, x)
  <2>1. \/ StepRating(c, [at |-> "average"])
        \/ StepRating(c, IdleRating)
    BY <1>1 DEF SaveReview
  <2> QED BY <2>1, OpKinds
<1>6. ratingOp' \in [RatingCallers -> RatingOps] /\ RevealsFit'
  BY <1>4, <1>5, RequestMoves
<1>7. CASE ~Reviewed(o)
  <2>1. UNCHANGED <<reviews, reputation>>
    BY <1>1, <1>3, <1>7 DEF SaveReview
  <2> QED BY <1>4, <1>6, <2>1, OnlyRequestsMove
<1>8. CASE Reviewed(o)
  <2>1. PICK rv \in ReviewRow : rv = reviews[o] /\ rv # NoRow /\ rv.rating \in Int
    BY <1>8, ReviewAt, RowsAreRows DEF Reviewed
  <2>2. PICK new \in Int : new = op.rating
    <3>1. Ratings \subseteq Int
      BY RatingAssumption
    <3> QED BY <1>2, <3>1
  <2>3. reviews' = [reviews EXCEPT ![o].rating = op.rating] /\ addReviewRating(op.rating - rv.rating, 0)
    BY <1>1, <1>3, <1>8, <2>1 DEF SaveReview, lockReview
  <2> DEFINE row == [rv EXCEPT !.rating = op.rating]
  <2>4. row \in ReviewRow /\ row.rating = op.rating /\ row.replies = rv.replies
        /\ row.helpful = rv.helpful /\ row.notHelpful = rv.notHelpful
    BY <1>2 DEF ReviewRow
  <2>5. reviews' = [reviews EXCEPT ![o] = row]
    BY <2>1, <2>3
  <2> HIDE DEF row
  <2>6. row # NoRow
    BY <2>4, RowsAreRows
  <2>7. ReviewFits(row, replies[o], votes[o])
    <3>1. ReviewFits(rv, replies[o], votes[o])
      BY <2>1, ReviewAt
    <3> QED BY <2>1, <2>4, <2>6, <3>1 DEF ReviewFits
  <2>8. PICK off \in Int : off = op.rating - rv.rating
    BY <2>1, <2>2
  <2>9. PICK z \in Int : z = 0
    OBVIOUS
  <2>10. WorthOf(row) = WorthOf(reviews[o]) + off /\ CountOf(row) = CountOf(reviews[o]) + z
    BY <2>1, <2>2, <2>4, <2>6, <2>8, <2>9 DEF WorthOf, CountOf
  <2>11. addReviewRating(off, z)
    BY <2>3, <2>8, <2>9
  <2>12. /\ replies' = [replies EXCEPT ![o] = replies[o]] /\ replies[o] \in SUBSET Voters
         /\ votes' = [votes EXCEPT ![o] = votes[o]] /\ votes[o] \in VoteRows
    BY <1>4, ReviewAt
  <2> QED BY <1>4, <1>6, <2>4, <2>5, <2>7, <2>10, <2>11, <2>12, OneReviewMoves
<1> QED BY <1>7, <1>8

\* The average is read from the rows.
LEMMA ReadAverageKeeps == ASSUME RatingInv, NEW c \in RatingCallers, ReadAverage(c) PROVE RatingInv'
<1>1. /\ UNCHANGED <<sale, feedback, windowOver, reviews, replies, votes, reputation, edits>>
      /\ StepRating(c, [at |-> "push", average |-> ReviewAverage]) /\ edits' \in 0 .. MaxEdits
  BY DEF ReadAverage, RatingInv, RatingRows
<1>2. ReviewAverage \in [sum : Nat, count : Nat]
  <2>1. reviews \in [Sales -> ReviewRow \cup {NoRow}]
    BY DEF RatingInv, RatingRows
  <2>2. SumFunction(StandingRatings(reviews)) \in Nat /\ Cardinality(Standing(reviews)) \in Nat
    BY <2>1, RowsSummed
  <2>3. {s \in Sales : Reviewed(s)} = Standing(reviews)
    BY DEF Standing, Reviewed
  <2>4. ReviewAverage = [sum |-> SumFunction(StandingRatings(reviews)), count |-> Cardinality(Standing(reviews))]
    BY <2>3 DEF ReviewAverage, StandingRatings
  <2> QED BY <2>2, <2>4
<1> DEFINE x == [at |-> "push", average |-> ReviewAverage]
<1>3. x \in RatingOps /\ x.at # "reveal"
  BY <1>2 DEF RatingOps, Pushing
<1>4. StepRating(c, x)
  BY <1>1
<1> HIDE DEF x
<1> QED BY <1>1, <1>3, <1>4, RequestMoves, OnlyRequestsMove

\* The average pushed to catalog touches nothing here.
LEMMA SyncListingRatingKeeps ==
  ASSUME RatingInv, NEW c \in RatingCallers, SyncListingRating(c) PROVE RatingInv'
<1>1. /\ UNCHANGED <<sale, feedback, windowOver, reviews, replies, votes, reputation, edits>>
      /\ StepRating(c, IdleRating) /\ edits' \in 0 .. MaxEdits
  BY DEF SyncListingRating, RatingInv, RatingRows
<1> QED BY <1>1, OpKinds, RequestMoves, OnlyRequestsMove

\* A reply is read before it is deleted.
LEMMA DeleteReplyKeeps ==
  ASSUME RatingInv, NEW c \in RatingCallers, NEW o \in Sales, NEW v \in Voters, DeleteReply(c, o, v)
  PROVE  RatingInv'
<1>1. UNCHANGED <<sale, feedback, windowOver, reviews, replies, votes, reputation>>
      /\ BeginEdit(c, [at |-> "unreply", order |-> o, reply |-> v])
  BY DEF DeleteReply
<1> DEFINE x == [at |-> "unreply", order |-> o, reply |-> v]
<1>2. x \in RatingOps /\ x.at # "reveal"
  BY DEF RatingOps, Unreplying
<1>3. BeginEdit(c, x)
  BY <1>1
<1> HIDE DEF x
<1> QED BY <1>1, <1>2, <1>3, EditBegins, OnlyRequestsMove

\* The sweep lists a row whose window has run out.
LEMMA RevealDueFeedbackKeeps ==
  ASSUME RatingInv, NEW c \in RatingCallers, RevealDueFeedback(c) PROVE RatingInv'
<1>1. PICK o \in Sales, d \in Directions :
        DueFeedback(o, d) /\ StepRating(c, [at |-> "reveal", order |-> o, direction |-> d])
  BY DEF RevealDueFeedback
<1>2. UNCHANGED <<sale, feedback, windowOver, reviews, replies, votes, reputation, edits>>
      /\ edits' \in 0 .. MaxEdits
  BY DEF RevealDueFeedback, RatingInv, RatingRows
<1> DEFINE x == [at |-> "reveal", order |-> o, direction |-> d]
<1>3. x \in RatingOps /\ x.order = o /\ x.direction = d
  BY DEF RatingOps, Revealing
<1>4. ratingOp' = [ratingOp EXCEPT ![c] = x]
  BY <1>1 DEF StepRating
<1>5. feedback'[o][d] # NoRow /\ o \in windowOver'
  BY <1>1, <1>2 DEF DueFeedback, Written
<1> HIDE DEF x
<1>6. ratingOp' \in [RatingCallers -> RatingOps] /\ RevealsFit'
  BY <1>2, <1>3, <1>4, <1>5, RevealsStay DEF RatingInv
<1> QED BY <1>2, <1>6, OnlyRequestsMove

\* A window that runs out publishes nothing by itself.
LEMMA BlindWindowClosesKeeps == ASSUME RatingInv, NEW o \in Sales, BlindWindowCloses(o) PROVE RatingInv'
<1>1. windowOver' = windowOver \cup {o}
      /\ UNCHANGED <<sale, feedback, reviews, replies, votes, reputation, ratingOp, edits>>
  BY DEF BlindWindowCloses
<1>2. ratingOp' \in [RatingCallers -> RatingOps] /\ RevealsFit'
  BY <1>1, RevealsRest DEF RatingInv
<1>3. RatingRows'
  BY <1>1 DEF RatingInv, RatingRows
<1>4. CountsFit' /\ BlindUntilAnswered'
  BY <1>1 DEF RatingInv, CountsFit, BlindUntilAnswered, Published, Written
<1>5. UnderFits' /\ TalliesMatchRows'
  BY <1>1, ReviewByReview DEF RatingInv
<1>6. ReputationAddsUp'
  BY <1>1, AddsUpInRows DEF RatingInv
<1> QED BY <1>2, <1>3, <1>4, <1>5, <1>6 DEF RatingInv

\* What is left of the invariant when the feedback of one order has moved.
LEMMA FeedbackMoves ==
  ASSUME RatingInv, NEW o \in Sales, UNCHANGED <<sale, windowOver, reviews, replies, votes, edits>>,
         feedback' \in [Sales -> FeedbackPairs], \A p \in Sales : p # o => feedback'[p] = feedback[p],
         reputation' \in [TradeRoles -> ReputationRow], ReputationAddsUp',
         \A d \in Directions :
           /\ feedback'[o][d] # NoRow /\ feedback'[o][d].published
                => feedback'[o][Opposite(d)] # NoRow \/ o \in windowOver
           /\ feedback'[o][d] # NoRow /\ feedback'[o][Opposite(d)] # NoRow => feedback'[o][d].published,
         ratingOp' \in [RatingCallers -> RatingOps], RevealsFit'
  PROVE  RatingInv'
<1>1. RatingRows'
  BY DEF RatingInv, RatingRows
<1>2. CountsFit'
  BY DEF RatingInv, CountsFit
<1>3. UnderFits' /\ TalliesMatchRows'
  BY ReviewByReview DEF RatingInv
<1>4. BlindUntilAnswered'
  <2> SUFFICES ASSUME NEW p \in Sales, NEW d \in Directions
               PROVE  /\ feedback'[p][d] # NoRow /\ feedback'[p][d].published
                           => feedback'[p][Opposite(d)] # NoRow \/ p \in windowOver'
                      /\ feedback'[p][d] # NoRow /\ feedback'[p][Opposite(d)] # NoRow
                           => feedback'[p][d] # NoRow /\ feedback'[p][d].published
    BY DEF BlindUntilAnswered, Published, Written, Opposite
  <2>1. CASE p = o
    BY <2>1
  <2>2. CASE p # o
    <3>1. /\ feedback[p][d] # NoRow /\ feedback[p][d].published
               => feedback[p][Opposite(d)] # NoRow \/ p \in windowOver
          /\ feedback[p][d] # NoRow /\ feedback[p][Opposite(d)] # NoRow
               => feedback[p][d] # NoRow /\ feedback[p][d].published
      BY DEF RatingInv, BlindUntilAnswered, Published, Written
    <3> QED BY <2>2, <3>1
  <2> QED BY <2>1, <2>2
<1> QED BY <1>1, <1>2, <1>3, <1>4 DEF RatingInv

\* The sweep publishes a listed row unless it is out already.
LEMMA PublishFeedbackKeeps == ASSUME RatingInv, NEW c \in RatingCallers, PublishFeedback(c) PROVE RatingInv'
<1>1. PICK op \in Revealing : op = ratingOp[c]
  BY OpKinds DEF RatingInv, RatingRows, PublishFeedback
<1>2. PICK o \in Sales, d \in Directions : o = op.order /\ d = op.direction
  BY DEF Revealing
<1>3. feedback[o][d] # NoRow /\ o \in windowOver
  BY <1>1, <1>2 DEF RatingInv, RevealsFit, PublishFeedback
<1>4. UNCHANGED <<sale, windowOver, reviews, replies, votes, edits>> /\ StepRating(c, IdleRating)
      /\ PublishRows(feedback, o, IF Published(o, d) THEN {} ELSE {d})
  BY <1>1, <1>2 DEF PublishFeedback
<1>5. PICK ds \in SUBSET Directions : ds = (IF Published(o, d) THEN {} ELSE {d})
  OBVIOUS
<1>6. feedback \in [Sales -> FeedbackPairs]
  BY DEF RatingInv, RatingRows
<1>7. \A e \in ds : feedback[o][e] # NoRow /\ ~feedback[o][e].published
  BY <1>3, <1>5 DEF Published, Written
<1>8. PICK f \in [Sales -> FeedbackPairs] : f = feedback /\ PublishRows(f, o, ds)
  BY <1>4, <1>5, <1>6
<1>9. /\ feedback' \in [Sales -> FeedbackPairs]
      /\ \A p \in Sales : p # o => feedback'[p] = feedback[p]
      /\ \A e \in Directions :
           feedback'[o][e] = IF e \in ds THEN [f[o][e] EXCEPT !.published = TRUE] ELSE f[o][e]
      /\ reputation' \in [TradeRoles -> ReputationRow] /\ ReputationAddsUp'
  <2>1. RatingRows /\ ReputationAddsUp
    BY DEF RatingInv
  <2>2. \A p \in Sales : p # o => f[p] = feedback[p]
    BY <1>8
  <2>3. \A e \in Directions : f[o][e] = feedback[o][e]
    BY <1>8
  <2>4. \A e \in ds : f[o][e] # NoRow /\ ~f[o][e].published
    BY <1>7, <1>8
  <2>5. sale' = sale /\ reviews' = reviews
    BY <1>4
  <2> QED BY <1>8, <2>1, <2>2, <2>3, <2>4, <2>5, PublishKeeps
<1>10. \A e \in Directions : f[o][e] \in RatingRow \cup {NoRow} /\ f[o][e] = feedback[o][e]
  BY <1>8 DEF FeedbackPairs
<1>11. \A e \in Directions : /\ e \in ds => feedback'[o][e] # NoRow /\ feedback'[o][e].published
                             /\ e \notin ds => feedback'[o][e] = feedback[o][e]
  <2> TAKE e \in Directions
  <2>1. CASE e \in ds
    <3>1. PICK row \in RatingRow : row = f[o][e]
      BY <1>7, <1>10, <2>1
    <3>2. [row EXCEPT !.published = TRUE] \in RatingRow /\ [row EXCEPT !.published = TRUE].published
      BY DEF RatingRow
    <3> QED BY <1>9, <2>1, <3>1, <3>2, RowsAreRows
  <2>2. CASE e \notin ds
    BY <1>9, <1>10, <2>2
  <2> QED BY <2>1, <2>2
<1>12. \A q \in Sales, e \in Directions : feedback[q][e] # NoRow => feedback'[q][e] # NoRow
  BY <1>9, <1>11
<1>13. ratingOp' \in [RatingCallers -> RatingOps] /\ RevealsFit'
  BY <1>4, <1>12, OpKinds, RevealsStay DEF RatingInv, StepRating
<1>14. \A e \in Directions :
         /\ feedback'[o][e] # NoRow /\ feedback'[o][e].published
              => feedback'[o][Opposite(e)] # NoRow \/ o \in windowOver
         /\ feedback'[o][e] # NoRow /\ feedback'[o][Opposite(e)] # NoRow => feedback'[o][e].published
  <2> TAKE e \in Directions
  <2>1. Opposite(e) \in Directions
    BY DEF Directions, Opposite
  <2>2. e \in ds => feedback[o][e] # NoRow
    BY <1>7
  <2>3. Opposite(e) \in ds => feedback[o][Opposite(e)] # NoRow
    BY <1>7
  <2>4. feedback[o][e] # NoRow /\ feedback[o][Opposite(e)] # NoRow => feedback[o][e].published
    BY DEF RatingInv, BlindUntilAnswered, Published, Written
  <2> QED BY <1>3, <1>11, <2>1, <2>2, <2>3, <2>4
<1> QED BY <1>4, <1>9, <1>13, <1>14, FeedbackMoves

\* A row nobody sees: none, or one not published.
Hidden(row) == row = NoRow \/ ~row.published

\* Feedback written blind counts for nothing yet.
LEMMA HiddenAdds ==
  ASSUME RatingRows, ReputationAddsUp, NEW o \in Sales, NEW F \in [Sales -> FeedbackPairs], feedback' = F,
         UNCHANGED reputation, sale' = sale, reviews' = reviews,
         \A p \in Sales : p # o => F[p] = feedback[p],
         \A d \in Directions : F[o][d] = feedback[o][d] \/ (Hidden(feedback[o][d]) /\ Hidden(F[o][d]))
  PROVE  ReputationAddsUp'
<1>1. PICK G \in [Sales -> FeedbackPairs] : G = feedback
  BY DEF RatingRows
<1>2. PICK ds \in SUBSET Directions : ds = {}
  OBVIOUS
<1>3. Publishes(G, F, o, ds)
  BY <1>1, <1>2 DEF Publishes, Hidden
<1>4. ASSUME NEW r \in TradeRoles PROVE RoleAddsUp(reputation[r], r, sale, F, reviews)
  <2>1. Given(ds, r) = {}
    BY <1>2 DEF Given
  <2>2. Worth(F, o, ds, r) \in [{} -> Nat]
    BY <2>1 DEF Worth
  <2>3. Cardinality(Given(ds, r)) = 0 /\ SumFunction(Worth(F, o, ds, r)) = 0
    BY <2>1, <2>2, SumOfNone, FS_EmptySet
  <2>4. /\ Cardinality(Out(F, r)) = Cardinality(Out(G, r)) + 0
        /\ SumFunction(OutRatings(F, r)) = SumFunction(OutRatings(G, r)) + 0
    BY <1>3, <2>3, PublishAdds
  <2>5. Cardinality(Out(G, r)) \in Nat /\ SumFunction(OutRatings(G, r)) \in Nat
    BY RowsSummed
  <2>6. RoleAddsUp(reputation[r], r, sale, G, reviews)
    BY <1>1, AddsUpInRows
  <2> QED BY <2>4, <2>5, <2>6 DEF RoleAddsUp
<1> QED BY <1>4, AddsUpInRows

\* Feedback stays hidden until it completes the pair, and then both rows come out.
LEMMA SubmitFeedbackKeeps ==
  ASSUME RatingInv, NEW o \in Sales, NEW d \in Directions, SubmitFeedback(o, d) PROVE RatingInv'
<1>1. feedback[o][d] = NoRow
      /\ UNCHANGED <<sale, windowOver, reviews, replies, votes, ratingOp, edits>>
  BY DEF SubmitFeedback, Written
<1>2. PICK rating \in Ratings :
        LET f == [feedback EXCEPT ![o][d] = [is |-> TRUE, rating |-> rating, published |-> FALSE]]
        IN  IF Written(o, Opposite(d))
            THEN PublishRows(f, o, BlindPair(f, o))
            ELSE feedback' = f /\ UNCHANGED reputation
  BY DEF SubmitFeedback
<1>3. feedback \in [Sales -> FeedbackPairs] /\ feedback[o] \in FeedbackPairs
  BY DEF RatingInv, RatingRows
<1> DEFINE new == [is |-> TRUE, rating |-> rating, published |-> FALSE]
           pair == [feedback[o] EXCEPT ![d] = new]
           f == [feedback EXCEPT ![o] = pair]
<1>4. new \in RatingRow /\ new # NoRow /\ ~new.published
  <2>1. new \in RatingRow
    BY DEF RatingRow
  <2> QED BY <2>1, RowsAreRows
<1>5. IF Written(o, Opposite(d)) THEN PublishRows(f, o, BlindPair(f, o)) ELSE feedback' = f /\ UNCHANGED reputation
  BY <1>2
<1> HIDE DEF new
<1>6. pair \in FeedbackPairs /\ pair[d] = new /\ \A e \in Directions : e # d => pair[e] = feedback[o][e]
  BY <1>3, <1>4 DEF FeedbackPairs
<1> HIDE DEF pair
<1>7. f \in [Sales -> FeedbackPairs] /\ f[o] = pair /\ \A p \in Sales : p # o => f[p] = feedback[p]
  BY <1>3, <1>6
<1> HIDE DEF f
<1>8. PICK F \in [Sales -> FeedbackPairs] : F = f
  BY <1>7
<1>9. Opposite(d) \in Directions /\ Opposite(d) # d /\ Opposite(Opposite(d)) = d
      /\ \A e \in Directions : e = d \/ e = Opposite(d)
  BY DEF Directions, Opposite
<1>10. PICK a \in Directions : a = Opposite(d)
  BY <1>9
<1>11. F[o][d] = new /\ F[o][a] = feedback[o][a] /\ \A p \in Sales : p # o => F[p] = feedback[p]
  BY <1>6, <1>7, <1>8, <1>9, <1>10
<1>12. feedback[o][a] # NoRow => feedback[o][a] \in RatingRow
  BY <1>3 DEF FeedbackPairs
<1>13. RatingRows /\ ReputationAddsUp
  BY DEF RatingInv
<1>14. PICK ds \in SUBSET Directions : ds = BlindPair(F, o)
  BY DEF BlindPair
\* The pair as the step leaves it.
<1>15. /\ feedback' \in [Sales -> FeedbackPairs]
       /\ \A p \in Sales : p # o => feedback'[p] = feedback[p]
       /\ reputation' \in [TradeRoles -> ReputationRow] /\ ReputationAddsUp'
       /\ feedback'[o][d] # NoRow
       /\ feedback[o][a] # NoRow => /\ feedback'[o][a] # NoRow
                                    /\ feedback'[o][d].published /\ feedback'[o][a].published
       /\ feedback[o][a] = NoRow => feedback'[o][a] = NoRow /\ ~feedback'[o][d].published
  <2>1. CASE feedback[o][a] # NoRow
    <3>1. PublishRows(F, o, ds)
      BY <1>5, <1>8, <1>10, <1>14, <2>1 DEF Written
    <3>2. \A e \in Directions :
            \/ F[o][e] = feedback[o][e]
            \/ feedback[o][e] = NoRow /\ F[o][e] # NoRow /\ ~F[o][e].published
      BY <1>1, <1>4, <1>9, <1>10, <1>11
    <3>3. \A e \in ds : F[o][e] # NoRow /\ ~F[o][e].published
      BY <1>4, <1>9, <1>10, <1>11, <1>14, <2>1 DEF BlindPair
    <3>4. sale' = sale /\ reviews' = reviews
      BY <1>1
    <3>5. /\ feedback' \in [Sales -> FeedbackPairs]
          /\ \A p \in Sales : p # o => feedback'[p] = feedback[p]
          /\ \A e \in Directions :
               feedback'[o][e] = IF e \in ds THEN [F[o][e] EXCEPT !.published = TRUE] ELSE F[o][e]
          /\ reputation' \in [TradeRoles -> ReputationRow] /\ ReputationAddsUp'
      BY <1>11, <1>13, <3>1, <3>2, <3>3, <3>4, PublishKeeps
    <3>6. \A e \in Directions : feedback'[o][e] # NoRow /\ feedback'[o][e].published
      <4> TAKE e \in Directions
      <4>1. PICK row \in RatingRow : row = F[o][e] /\ row # NoRow
        BY <1>4, <1>9, <1>10, <1>11, <1>12, <2>1, RowsAreRows
      <4>2. CASE e \in ds
        <5>1. [row EXCEPT !.published = TRUE] \in RatingRow /\ [row EXCEPT !.published = TRUE].published
          BY DEF RatingRow
        <5> QED BY <3>5, <4>1, <4>2, <5>1, RowsAreRows
      <4>3. CASE e \notin ds
        BY <1>14, <3>5, <4>1, <4>3 DEF BlindPair
      <4> QED BY <4>2, <4>3
    <3> QED BY <2>1, <3>5, <3>6
  <2>2. CASE feedback[o][a] = NoRow
    <3>1. feedback' = F /\ reputation' = reputation
      BY <1>5, <1>8, <1>10, <2>2 DEF Written
    <3>2. /\ \A p \in Sales : p # o => F[p] = feedback[p]
          /\ \A e \in Directions : F[o][e] = feedback[o][e] \/ (Hidden(feedback[o][e]) /\ Hidden(F[o][e]))
      BY <1>1, <1>4, <1>9, <1>10, <1>11 DEF Hidden
    <3>3. sale' = sale /\ reviews' = reviews
      BY <1>1
    <3>4. ReputationAddsUp'
      BY <1>13, <3>1, <3>2, <3>3, HiddenAdds
    <3>5. reputation \in [TradeRoles -> ReputationRow]
      BY <1>13 DEF RatingRows
    <3> QED BY <1>4, <1>11, <2>2, <3>1, <3>4, <3>5
  <2> QED BY <2>1, <2>2
<1>16. \A p \in Sales, e \in Directions : feedback[p][e] # NoRow => feedback'[p][e] # NoRow
  BY <1>1, <1>9, <1>10, <1>15
<1>17. ratingOp' \in [RatingCallers -> RatingOps] /\ RevealsFit'
  BY <1>1, <1>13, <1>16, RevealsRest DEF RatingInv
<1>18. \A e \in Directions :
         /\ feedback'[o][e] # NoRow /\ feedback'[o][e].published
              => feedback'[o][Opposite(e)] # NoRow \/ o \in windowOver
         /\ feedback'[o][e] # NoRow /\ feedback'[o][Opposite(e)] # NoRow => feedback'[o][e].published
  BY <1>9, <1>10, <1>15
<1> QED BY <1>1, <1>15, <1>17, <1>18, FeedbackMoves

\* A settled sale not counted yet counts for nothing yet.
LEMMA SaleSettlesKeeps == ASSUME RatingInv, NEW o \in Sales, SaleSettles(o) PROVE RatingInv'
<1>1. PICK state \in {"completed", "cancelled"} : sale' = [sale EXCEPT ![o].state = state]
  BY DEF SaleSettles
<1>2. UNCHANGED <<feedback, windowOver, reviews, replies, votes, reputation, ratingOp, edits>>
  BY DEF SaleSettles
<1>3. PICK S \in [Sales -> [state : {"open", "completed", "cancelled"}, counted : BOOLEAN]] : S = sale
  BY DEF RatingInv, RatingRows
<1>4. S[o].state = "open" /\ ~S[o].counted
  BY <1>3 DEF SaleSettles, RatingInv, CountsFit
<1> DEFINE row == [S[o] EXCEPT !.state = state]
<1>5. row \in [state : {"open", "completed", "cancelled"}, counted : BOOLEAN]
      /\ row.state = state /\ ~row.counted
  BY <1>4
<1>6. PICK T \in [Sales -> [state : {"open", "completed", "cancelled"}, counted : BOOLEAN]] :
        T = sale' /\ T[o] = row /\ \A p \in Sales : p # o => T[p] = S[p]
  <2>1. sale' = [S EXCEPT ![o] = row]
    BY <1>1, <1>3
  <2> HIDE DEF row
  <2> QED BY <1>5, <2>1
<1> HIDE DEF row
<1>7. \A s : Settled(T, s) = Settled(S, s)
  BY <1>4, <1>5, <1>6 DEF Settled
<1>8. ReputationAddsUp'
  <2>1. ASSUME NEW r \in TradeRoles PROVE RoleAddsUp(reputation'[r], r, sale', feedback', reviews')
    <3>1. RoleAddsUp(reputation[r], r, S, feedback, reviews)
      BY <1>3, AddsUpInRows DEF RatingInv
    <3>2. RoleAddsUp(reputation[r], r, T, feedback, reviews)
      BY <1>7, <3>1 DEF RoleAddsUp
    <3> QED BY <1>2, <1>6, <3>2
  <2> QED BY <2>1, AddsUpInRows
<1>9. RatingRows'
  BY <1>2, <1>6 DEF RatingInv, RatingRows
<1>10. CountsFit'
  BY <1>1, <1>3, <1>5, <1>6 DEF RatingInv, CountsFit
<1>11. RevealsFit' /\ BlindUntilAnswered'
  BY <1>2 DEF RatingInv, RevealsFit, BlindUntilAnswered, Published, Written
<1>12. UnderFits' /\ TalliesMatchRows'
  BY <1>2, ReviewByReview DEF RatingInv
<1> QED BY <1>8, <1>9, <1>10, <1>11, <1>12 DEF RatingInv

\* A settled sale is counted by the first delivery of its event.
LEMMA RecordOrderOutcomeKeeps == ASSUME RatingInv, NEW o \in Sales, RecordOrderOutcome(o) PROVE RatingInv'
<1>1. UNCHANGED <<feedback, windowOver, reviews, replies, votes, ratingOp, edits>>
  BY DEF RecordOrderOutcome
<1>3. RevealsFit' /\ BlindUntilAnswered'
  BY <1>1 DEF RatingInv, RevealsFit, BlindUntilAnswered, Published, Written
<1>4. UnderFits' /\ TalliesMatchRows'
  BY <1>1, ReviewByReview DEF RatingInv
<1>5. PICK S \in [Sales -> [state : {"open", "completed", "cancelled"}, counted : BOOLEAN]] : S = sale
  BY DEF RatingInv, RatingRows
<1>6. CASE S[o].counted
  <2>1. UNCHANGED <<sale, reputation>>
    BY <1>5, <1>6 DEF RecordOrderOutcome, AddOrderOutcome, ClaimOrderOutcome
  <2>2. RatingRows'
    BY <1>1, <2>1 DEF RatingInv, RatingRows
  <2>3. CountsFit'
    BY <2>1 DEF RatingInv, CountsFit
  <2>4. ReputationAddsUp'
    BY <1>1, <2>1, AddsUpInRows DEF RatingInv
  <2> QED BY <1>3, <1>4, <2>2, <2>3, <2>4 DEF RatingInv
<1>7. CASE ~S[o].counted
  <2>1. sale' = [sale EXCEPT ![o].counted = TRUE]
        /\ reputation' = [r \in DOMAIN reputation |->
             IF sale[o].state = "completed"
             THEN [reputation[r] EXCEPT !.completed = @ + 1]
             ELSE [reputation[r] EXCEPT !.cancelled = @ + 1]]
    BY <1>5, <1>7 DEF RecordOrderOutcome, AddOrderOutcome, ClaimOrderOutcome
  <2>2. S[o].state \in {"completed", "cancelled"}
    BY <1>5 DEF RecordOrderOutcome
  <2> DEFINE row == [S[o] EXCEPT !.counted = TRUE]
  <2>3. /\ row \in [state : {"open", "completed", "cancelled"}, counted : BOOLEAN]
        /\ row.state = S[o].state /\ row.counted
    OBVIOUS
  <2>4. PICK T \in [Sales -> [state : {"open", "completed", "cancelled"}, counted : BOOLEAN]] :
          T = sale' /\ T[o] = row /\ \A p \in Sales : p # o => T[p] = S[p]
    <3>1. sale' = [S EXCEPT ![o] = row]
      BY <1>5, <2>1
    <3> HIDE DEF row
    <3> QED BY <2>3, <3>1
  <2> HIDE DEF row
  <2>5. PICK done \in {"completed", "cancelled"} : done = S[o].state
    BY <2>2
  <2>6. o \notin Settled(S, done) /\ Settled(T, done) = Settled(S, done) \cup {o}
    BY <1>7, <2>3, <2>4, <2>5 DEF Settled
  <2>7. \A s : s # done => Settled(T, s) = Settled(S, s)
    BY <1>7, <2>3, <2>4, <2>5 DEF Settled
  <2>8. Cardinality(Settled(T, done)) = Cardinality(Settled(S, done)) + 1
    <3>1. PICK A : A = Settled(S, done) /\ IsFiniteSet(A)
      BY RowsSummed
    <3>2. Cardinality(A \cup {o}) = Cardinality(A) + 1
      BY <2>6, <3>1, FS_AddElement
    <3> QED BY <2>6, <3>1, <3>2
  <2>9. PICK rep \in [TradeRoles -> ReputationRow] : rep = reputation
    BY DEF RatingInv, RatingRows
  <2>10. ASSUME NEW r \in TradeRoles
         PROVE  reputation'[r] \in ReputationRow /\ RoleAddsUp(reputation'[r], r, sale', feedback', reviews')
    <3>1. PICK q \in ReputationRow : q = rep[r]
      OBVIOUS
    <3>2. RoleAddsUp(q, r, S, feedback, reviews)
      BY <1>5, <2>9, <3>1, AddsUpInRows DEF RatingInv
    <3>3. reputation'[r] = IF done = "completed" THEN [q EXCEPT !.completed = @ + 1]
                                                 ELSE [q EXCEPT !.cancelled = @ + 1]
      BY <1>5, <2>1, <2>5, <2>9, <3>1
    <3>4. CASE done = "completed"
      <4>1. q.completed + 1 \in Int
        BY DEF ReputationRow
      <4> DEFINE more == [q EXCEPT !.completed = @ + 1]
      <4>2. /\ more \in ReputationRow /\ more.completed = q.completed + 1 /\ more.cancelled = q.cancelled
            /\ more.sum = q.sum /\ more.count = q.count
            /\ more.reviewSum = q.reviewSum /\ more.reviewCount = q.reviewCount
        BY <4>1 DEF ReputationRow
      <4>3. reputation'[r] = more
        BY <3>3, <3>4
      <4> HIDE DEF more
      <4>4. RoleAddsUp(more, r, T, feedback, reviews)
        BY <2>7, <2>8, <3>2, <3>4, <4>2 DEF RoleAddsUp
      <4> QED BY <1>1, <2>4, <4>2, <4>3, <4>4
    <3>5. CASE done = "cancelled"
      <4>1. q.cancelled + 1 \in Int
        BY DEF ReputationRow
      <4> DEFINE more == [q EXCEPT !.cancelled = @ + 1]
      <4>2. /\ more \in ReputationRow /\ more.completed = q.completed /\ more.cancelled = q.cancelled + 1
            /\ more.sum = q.sum /\ more.count = q.count
            /\ more.reviewSum = q.reviewSum /\ more.reviewCount = q.reviewCount
        BY <4>1 DEF ReputationRow
      <4>3. reputation'[r] = more
        BY <3>3, <3>5
      <4> HIDE DEF more
      <4>4. RoleAddsUp(more, r, T, feedback, reviews)
        BY <2>7, <2>8, <3>2, <3>5, <4>2 DEF RoleAddsUp
      <4> QED BY <1>1, <2>4, <4>2, <4>3, <4>4
    <3> QED BY <3>4, <3>5
  <2>11. reputation' \in [TradeRoles -> ReputationRow]
    <3>1. reputation' = [r \in TradeRoles |-> reputation'[r]]
      BY <2>1, <2>9
    <3> QED BY <2>10, <3>1
  <2>12. ReputationAddsUp'
    BY <2>10, AddsUpInRows
  <2>13. RatingRows'
    BY <1>1, <2>4, <2>11 DEF RatingInv, RatingRows
  <2>14. CountsFit'
    BY <1>5, <2>2, <2>3, <2>4 DEF RatingInv, CountsFit
  <2> QED BY <1>3, <1>4, <2>12, <2>13, <2>14 DEF RatingInv
<1> QED BY <1>6, <1>7

\* The invariant of the first state.
LEMMA RatingInvFirst == RatingInit => RatingInv
<1> SUFFICES ASSUME RatingInit PROVE RatingInv
  OBVIOUS
<1>1. RatingRows
  <2>1. reputation \in [TradeRoles -> ReputationRow]
    BY DEF RatingInit, TradeRoles, ReputationRow
  <2>2. ratingOp \in [RatingCallers -> RatingOps]
    BY DEF RatingInit, RatingOps
  <2>3. edits \in 0 .. MaxEdits
    BY RatingAssumption DEF RatingInit
  <2>4. feedback \in [Sales -> FeedbackPairs] /\ votes \in [Sales -> VoteRows]
    BY DEF RatingInit, FeedbackPairs, VoteRows
  <2> QED BY <2>1, <2>2, <2>3, <2>4 DEF RatingInit, RatingRows
<1>2. RevealsFit /\ CountsFit
  BY DEF RatingInit, RevealsFit, CountsFit, IdleRating
<1>3. UnderFits /\ TalliesMatchRows /\ BlindUntilAnswered
  BY DEF RatingInit, UnderFits, NothingUnder, Reviewed, TalliesMatchRows, BlindUntilAnswered, Published, Written
<1>4. ASSUME NEW r \in TradeRoles PROVE RoleAddsUp(reputation[r], r, sale, feedback, reviews)
  <2>1. Out(feedback, r) = {} /\ Standing(reviews) = {} /\ \A s : Settled(sale, s) = {}
    BY DEF RatingInit, Out, Standing, Settled
  <2>2. OutRatings(feedback, r) \in [{} -> Nat] /\ StandingRatings(reviews) \in [{} -> Nat]
    BY <2>1 DEF OutRatings, StandingRatings
  <2>3. SumFunction(OutRatings(feedback, r)) = 0 /\ SumFunction(StandingRatings(reviews)) = 0
        /\ Cardinality(Out(feedback, r)) = 0 /\ Cardinality(Standing(reviews)) = 0
        /\ Cardinality(Settled(sale, "completed")) = 0 /\ Cardinality(Settled(sale, "cancelled")) = 0
    BY <2>1, <2>2, SumOfNone, FS_EmptySet
  <2>4. reputation[r] = [sum |-> 0, count |-> 0, reviewSum |-> 0, reviewCount |-> 0, completed |-> 0, cancelled |-> 0]
    BY DEF RatingInit, TradeRoles
  <2> QED BY <2>3, <2>4 DEF RoleAddsUp
<1> QED BY <1>1, <1>2, <1>3, <1>4, AddsUpInRows DEF RatingInv

\* Every step of the ratings keeps the invariant.
LEMMA RatingInvKept == RatingInv /\ [RatingNext]_ratingVars => RatingInv'
<1> SUFFICES ASSUME RatingInv, [RatingNext]_ratingVars PROVE RatingInv'
  OBVIOUS
<1>1. CASE UNCHANGED ratingVars
  <2>1. edits' \in 0 .. MaxEdits /\ ratingOp' \in [RatingCallers -> RatingOps] /\ RevealsFit'
    BY <1>1, RevealsRest DEF ratingVars, RatingInv, RatingRows
  <2> QED BY <1>1, <2>1, OnlyRequestsMove DEF ratingVars
<1>2. ASSUME NEW o \in Sales,
             \/ SaleSettles(o) \/ RecordOrderOutcome(o) \/ BlindWindowCloses(o)
             \/ \E d \in Directions : SubmitFeedback(o, d)
             \/ \E v \in Voters :
                  InsertReply(o, v) \/ (\E next \in {-1, 0, 1} : PutVote(o, v, next))
      PROVE  RatingInv'
  BY <1>2, SaleSettlesKeeps, RecordOrderOutcomeKeeps, BlindWindowClosesKeeps, SubmitFeedbackKeeps,
     InsertReplyKeeps, PutVoteKeeps
<1>3. ASSUME NEW c \in RatingCallers,
             \/ RevealDueFeedback(c) \/ PublishFeedback(c) \/ SaveReview(c)
             \/ ReadAverage(c) \/ SyncListingRating(c) \/ DropReply(c)
             \/ \E o \in Sales :
                  \/ SubmitReview(c, o) \/ UpdateReview(c, o) \/ DeleteReview(c, o)
                  \/ \E v \in Voters : DeleteReply(c, o, v)
      PROVE  RatingInv'
  BY <1>3, RevealDueFeedbackKeeps, PublishFeedbackKeeps, SaveReviewKeeps, ReadAverageKeeps,
     SyncListingRatingKeeps, DropReplyKeeps, SubmitReviewKeeps, UpdateReviewKeeps, DeleteReviewKeeps,
     DeleteReplyKeeps
<1> QED BY <1>1, <1>2, <1>3 DEF RatingNext

-----------------------------------------------------------------------------
\* The part that runs never changes, and a step of the platform is a step of it.
LEMMA ServiceRuns ==
  ASSUME [Next]_platformVars
  PROVE  /\ part' = part
         /\ part = "hub" => [HubNext]_hubVars
         /\ part = "uploads" => [UploadNext]_uploadVars
         /\ part = "chat" => [ChatNext]_chatVars
         /\ part = "tickets" => [DeskNext]_deskVars
         /\ part = "ratings" => [RatingNext]_ratingVars
BY DEF Next, platformVars

\* The hub's property: whatever races Join, Leave and dispatch run, the sockets that
\* are up are in the entry, the entry has its subscription, and every subscription
\* on the bus is someone's to cancel (hub.go).
THEOREM HubsStaySound == Spec => []HubHolds
<1> DEFINE I == part = "hub" => HubInv
<1>1. Init => I
  BY HubInvFirst DEF Init
<1>2. I /\ [Next]_platformVars => I'
  <2> SUFFICES ASSUME I, [Next]_platformVars PROVE I'
    OBVIOUS
  <2> QED BY ServiceRuns, HubInvKept
<1>3. I => HubHolds
  BY HubIs DEF HubHolds
<1> HIDE DEF I
<1> QED BY <1>1, <1>2, <1>3, PTL DEF Spec

\* The uploads' property: a row that can be found has its object, a link leads to an
\* object unless its row was withdrawn, and the reaper never takes an upload confirmed
\* in time (resource.go, uploads.go).
THEOREM UploadsStaySound == Spec => []UploadsHold
<1> DEFINE I == part = "uploads" => UploadInv
<1>1. Init => I
  BY UploadInvFirst DEF Init
<1>2. I /\ [Next]_platformVars => I'
  <2> SUFFICES ASSUME I, [Next]_platformVars PROVE I'
    OBVIOUS
  <2> QED BY ServiceRuns, UploadInvKept
<1>3. I => UploadsHold
  BY UploadsAre DEF UploadsHold
<1> HIDE DEF I
<1> QED BY <1>1, <1>2, <1>3, PTL DEF Spec

\* The threads' property: the pages, the inbox row and the pushes of a ticket thread
\* never name the moderator who answered, the requester's own sends and edits name only
\* whom they reply to, and no quote crosses threads, whatever requests overlap; and what
\* a side has read stays read (hideSupport, SendMessage, UpdateMessage, replyTarget,
\* SaveConversation).
THEOREM ThreadsStaySound == Spec => ThreadsHold
<1> DEFINE I == part = "chat" => ChatInv
<1>1. Init => I
  BY ChatInvFirst DEF Init
<1>2. I /\ [Next]_platformVars => I' /\ [part = "chat" => ReadStaysRead]_platformVars
  <2> SUFFICES ASSUME I, [Next]_platformVars PROVE I' /\ (part = "chat" => ReadStaysRead)
    OBVIOUS
  <2> QED BY ServiceRuns, ChatInvKept
<1>3. I => (part = "chat" => ChatTypeOK /\ ThreadsKeepTheirSecrets)
  BY ThreadsAre
<1> HIDE DEF I
<1> QED BY <1>1, <1>2, <1>3, PTL DEF Spec, ThreadsHold

\* The desk's property: a refund dispute is closed by staff's verdict on the money
\* alone, and no stale copy reopens a ticket or rewords its verdict, however claims,
\* repairs, verdict events and their redeliveries interleave (service_ticket.go,
\* SaveTicket's guard).
THEOREM TicketsStaySound == Spec => TicketsHold
<1> DEFINE I == part = "tickets" => DeskInv
<1>1. Init => I
  BY DeskInvFirst DEF Init
<1>2. I /\ [Next]_platformVars => I' /\ [part = "tickets" => TicketVerdictStands]_platformVars
  <2> SUFFICES ASSUME I, [Next]_platformVars PROVE I' /\ (part = "tickets" => TicketVerdictStands)
    OBVIOUS
  <2> QED BY ServiceRuns, DeskInvKept
<1>3. I => (part = "tickets" => DeskTypeOK /\ DisputeClosedByVerdict)
  BY DeskIs
<1> HIDE DEF I
<1> QED BY <1>1, <1>2, <1>3, PTL DEF Spec, TicketsHold

\* The ratings' property: whatever submissions, sweeps, stale edits, double deletions and
\* redelivered events interleave, each reputation is the sum of the published feedback,
\* the standing reviews and the settled sales, each review's tallies are its rows, and no
\* rating is out while its counterpart may still answer it (feedback.go, review.go,
\* reputation.go).
THEOREM RatingsStaySound == Spec => []RatingsHold
<1> DEFINE I == part = "ratings" => RatingInv
<1>1. Init => I
  BY RatingInvFirst DEF Init
<1>2. I /\ [Next]_platformVars => I'
  <2> SUFFICES ASSUME I, [Next]_platformVars PROVE I'
    OBVIOUS
  <2> QED BY ServiceRuns, RatingInvKept
<1>3. I => RatingsHold
  BY RatingsAre DEF RatingsHold
<1> HIDE DEF I
<1> QED BY <1>1, <1>2, <1>3, PTL DEF Spec
==============================================================================
