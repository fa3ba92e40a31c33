---------------------------- MODULE AccountProofs ----------------------------
(***************************************************************************)
(* Who may sign in and act: the properties of the HTTP edge and of the     *)
(* account's own parts of the platform, for any sessions, accounts,        *)
(* documents and callers.                                                  *)
(***************************************************************************)
EXTENDS MCPlatform, FiniteSetTheorems, TLAPS

\* A step of the platform is a step of the part that runs, and the part stays.
LEMMA PartRuns ==
  ASSUME [Next]_platformVars
  PROVE  /\ part' = part
         /\ part = "sessions" => [SessionNext]_sessionVars
         /\ part = "accounts" => [AccountNext]_accountVars
         /\ part = "identity" => [IdentityNext]_identityVars
         /\ part = "contacts" => [ContactNext]_contactVars
         /\ part = "http" => [HttpNext]_httpVars
BY DEF Next, platformVars

-----------------------------------------------------------------------------
(* Sessions *)

SessionCall ==
  [op : {"none", "create", "rotate", "revoke-all"},
   at : {"idle", "set", "issue", "drop", "extend", "bump", "restamp"},
   sid : Sids \cup {NoKey}, tok : Tokens \cup {NoKey}, stamp : -1 .. MaxEpoch]

\* The calls that will write a session with the stamp they carry.
Carrying == {"set", "drop", "extend"}

\* What a call relies on: a bulk revocation carries an epoch, and the session it
\* keeps is one.
CallFits(g) ==
  /\ g.at = "bump" => g.stamp \in 0 .. MaxEpoch
  /\ g.at = "restamp" => g.sid \in Sids
  /\ g.sid \in drawn \cup {NoKey}

\* Until a password change keeps it a session has one stamp: the one in its
\* record, if it has one, and in every call that will write it.
OneStamp(g) == g.at \in Carrying /\ g.sid \in Sids \ kept => session[g.sid] \in {Absent, g.stamp}
SameStamp(g, h) == g.at \in Carrying /\ h.at \in Carrying /\ g.sid = h.sid /\ g.sid \in Sids \ kept => g.stamp = h.stamp

SessionInv ==
  /\ SessionTypeOK
  /\ \A s \in Sids : session[s] # Absent => s \in drawn
  /\ \A t \in Tokens : refresh[t] \in drawn \cup {NoKey}
  /\ \A c \in SessionCallers : CallFits(call[c]) /\ OneStamp(call[c])
  /\ \A b, c \in SessionCallers : SameStamp(call[b], call[c])

\* A call moves.  It writes the stamp it carries, takes a session away or writes
\* none; what it carries from now on it carried before, has just read, or is the
\* first to carry.
LEMMA CallStep ==
  ASSUME SessionInv, NEW c \in SessionCallers, NEW g \in SessionCall, g = call[c],
         NEW h \in SessionCall, call' = [call EXCEPT ![c] = h],
         session' \in [Sids -> -1 .. MaxEpoch], refresh' \in [Tokens -> Sids \cup {NoKey}],
         epoch' \in 0 .. MaxEpoch, drawn \subseteq drawn', drawn' \subseteq Sids \cup Tokens,
         kept \subseteq kept', kept' \subseteq Sids,
         \A s \in Sids : session'[s] # Absent => s \in drawn',
         \A t \in Tokens : refresh'[t] \in drawn' \cup {NoKey},
         h.at = "bump" => h.stamp \in 0 .. MaxEpoch,
         h.at = "restamp" => h.sid \in Sids,
         h.sid \in drawn' \cup {NoKey},
         \A s \in Sids \ kept' : \/ session'[s] \in {Absent, session[s]}
                                 \/ g.at \in Carrying /\ g.sid = s /\ session'[s] = g.stamp,
         h.at \in Carrying => \/ g.at \in Carrying /\ h.sid = g.sid /\ h.stamp = g.stamp
                              \/ h.sid \notin drawn /\ session' = session
                              \/ session' = session /\ h.stamp = session[h.sid] /\ h.stamp # Absent
  PROVE  SessionInv'
<1>1. call \in [SessionCallers -> SessionCall] /\ SessionTypeOK
  BY DEF SessionInv, SessionTypeOK, SessionCall
<1>2. SessionTypeOK'
  BY <1>1 DEF SessionTypeOK, SessionCall
<1>3. ASSUME NEW b \in SessionCallers \ {c}
      PROVE  \E k \in SessionCall : /\ call[b] = k /\ call'[b] = k
                                    /\ CallFits(k) /\ OneStamp(k) /\ SameStamp(g, k)
  BY <1>1 DEF SessionInv
<1>4. call'[c] = h
  BY <1>1
<1>5. OneStamp(g) /\ CallFits(g)
  BY DEF SessionInv
<1>6. ASSUME NEW b \in SessionCallers PROVE CallFits(call[b])' /\ OneStamp(call[b])'
  <2>1. CASE b = c
    <3>1. CallFits(h)'
      BY DEF CallFits
    <3>2. OneStamp(h)'
      <4> SUFFICES ASSUME h.at \in Carrying, h.sid \in Sids \ kept' PROVE session'[h.sid] \in {Absent, h.stamp}
        BY DEF OneStamp, Carrying
      <4>1. session[h.sid] \in {Absent, h.stamp}
        BY <1>5 DEF OneStamp, SessionInv
      <4> QED BY <4>1
    <3> QED BY <1>4, <2>1, <3>1, <3>2 DEF CallFits, OneStamp
  <2>2. CASE b # c
    <3>1. PICK k \in SessionCall : /\ call[b] = k /\ call'[b] = k
                                   /\ CallFits(k) /\ OneStamp(k) /\ SameStamp(g, k)
      BY <1>3, <2>2
    <3>2. CallFits(k)'
      BY <3>1 DEF CallFits
    <3>3. OneStamp(k)'
      BY <3>1 DEF OneStamp, SameStamp, Carrying
    <3> QED BY <3>1, <3>2, <3>3 DEF CallFits, OneStamp
  <2> QED BY <2>1, <2>2
<1>7. ASSUME NEW b \in SessionCallers \ {c} PROVE SameStamp(h, call[b])' /\ SameStamp(call[b], h)'
  <2>1. PICK k \in SessionCall : /\ call[b] = k /\ call'[b] = k
                                 /\ CallFits(k) /\ OneStamp(k) /\ SameStamp(g, k)
    BY <1>3
  <2>2. ASSUME h.at \in Carrying, k.at \in Carrying, h.sid = k.sid, h.sid \in Sids \ kept'
        PROVE  h.stamp = k.stamp
    <3>1. k.sid \in drawn
      BY <2>1, <2>2, SessionAssumption DEF CallFits
    <3> QED BY <2>1, <2>2, <3>1 DEF OneStamp, SameStamp
  <2> QED BY <2>1, <2>2 DEF SameStamp, Carrying
<1>8. ASSUME NEW a \in SessionCallers, NEW b \in SessionCallers PROVE SameStamp(call[a], call[b])'
  <2>1. CASE a = c /\ b = c
    BY <2>1 DEF SameStamp
  <2>2. CASE a = c /\ b # c
    BY <1>4, <1>7, <2>2 DEF SameStamp
  <2>3. CASE a # c /\ b = c
    BY <1>4, <1>7, <2>3 DEF SameStamp
  <2>4. CASE a # c /\ b # c
    <3>1. call'[a] = call[a] /\ call'[b] = call[b] /\ SameStamp(call[a], call[b])
      BY <1>1, <2>4 DEF SessionInv
    <3> QED BY <3>1 DEF SameStamp, Carrying
  <2> QED BY <2>1, <2>2, <2>3, <2>4
<1> QED BY <1>2, <1>6, <1>8 DEF SessionInv

\* No call moves: keys run out or are taken away.
LEMMA KeysLapse ==
  ASSUME SessionInv, UNCHANGED <<epoch, drawn, kept, call>>,
         session' \in [Sids -> -1 .. MaxEpoch], refresh' \in [Tokens -> Sids \cup {NoKey}],
         \A s \in Sids : session'[s] \in {Absent, session[s]},
         \A t \in Tokens : refresh'[t] \in {NoKey, refresh[t]}
  PROVE  SessionInv'
<1>1. SessionTypeOK'
  BY DEF SessionInv, SessionTypeOK
<1>2. ASSUME NEW b \in SessionCallers PROVE CallFits(call[b])' /\ OneStamp(call[b])'
  <2>1. PICK k : call[b] = k /\ CallFits(k) /\ OneStamp(k)
    BY DEF SessionInv
  <2> QED BY <2>1 DEF CallFits, OneStamp
<1>3. ASSUME NEW a \in SessionCallers, NEW b \in SessionCallers PROVE SameStamp(call[a], call[b])'
  BY DEF SessionInv, SameStamp
<1> QED BY <1>1, <1>2, <1>3 DEF SessionInv

\* The calls of the store, one by one.
LEMMA SessionCallKeeps ==
  ASSUME SessionInv, NEW c \in SessionCallers,
         \/ \E s \in Sids : CreateSession(c, s)
         \/ \E t \in Tokens : issueRefresh(c, t) \/ Rotate(c, t)
         \/ \E keep \in {s \in Sids : LiveSession(s)} \cup {NoKey} : RevokeAll(c, keep)
         \/ SetSession(c) \/ DropToken(c) \/ ExtendSession(c) \/ BumpEpoch(c) \/ Restamp(c) \/ FailCall(c)
  PROVE  SessionInv'
<1>1. PICK g \in SessionCall : g = call[c]
  BY DEF SessionInv, SessionTypeOK, SessionCall
<1>2. /\ session \in [Sids -> -1 .. MaxEpoch] /\ refresh \in [Tokens -> Sids \cup {NoKey}]
      /\ epoch \in 0 .. MaxEpoch /\ drawn \subseteq Sids \cup Tokens /\ kept \subseteq Sids
      /\ call \in [SessionCallers -> SessionCall] /\ MaxEpoch \in Nat
      /\ \A s \in Sids : session[s] # Absent => s \in drawn
      /\ \A t \in Tokens : refresh[t] \in drawn \cup {NoKey}
  BY SessionAssumption DEF SessionInv, SessionTypeOK, SessionCall
<1>3. CallFits(g) /\ OneStamp(g)
  BY <1>1 DEF SessionInv
<1>4. NoCall \in SessionCall /\ NoCall.at = "idle" /\ NoCall.sid = NoKey
  BY <1>2 DEF NoCall, SessionCall, Absent
<1>5. ASSUME NEW s \in Sids, CreateSession(c, s) PROVE SessionInv'
  <2> DEFINE h == [op |-> "create", at |-> "set", sid |-> s, tok |-> NoKey, stamp |-> epoch]
  <2>1. h \in SessionCall /\ h.at = "set" /\ h.sid = s
    BY <1>2 DEF SessionCall
  <2>2. call' = [call EXCEPT ![c] = h] /\ UNCHANGED <<session, refresh, epoch, kept>>
        /\ s \notin drawn /\ drawn' = drawn \cup {s}
    BY <1>5 DEF CreateSession, Calling
  <2> HIDE DEF h
  <2> QED BY <1>1, <1>2, <2>1, <2>2, CallStep
<1>6. ASSUME NEW t \in Tokens, issueRefresh(c, t) PROVE SessionInv'
  <2>1. call' = [call EXCEPT ![c] = NoCall] /\ UNCHANGED <<session, epoch, kept>>
        /\ drawn' = drawn \cup {t} /\ refresh' = [refresh EXCEPT ![t] = g.sid]
    BY <1>1, <1>6 DEF issueRefresh, Return
  <2>2. g.sid \in Sids \cup {NoKey} /\ g.sid \in drawn \cup {NoKey}
    BY <1>3 DEF SessionCall, CallFits
  <2>3. refresh' \in [Tokens -> Sids \cup {NoKey}] /\ \A u \in Tokens : refresh'[u] \in drawn' \cup {NoKey}
    BY <1>2, <2>1, <2>2
  <2> QED BY <1>1, <1>2, <1>4, <2>1, <2>3, CallStep DEF Carrying
<1>7. ASSUME NEW t \in Tokens, Rotate(c, t) PROVE SessionInv'
  <2> DEFINE s == refresh[t]
             h == [op |-> "rotate", at |-> "drop", sid |-> s, tok |-> t, stamp |-> session[s]]
  <2>1. s \in Sids /\ UNCHANGED <<refresh, epoch, drawn, kept>>
    BY <1>2, <1>7 DEF Rotate
  <2>2. CASE LiveSession(s) /\ Calling(c, "rotate", "drop", s, t, session[s]) /\ UNCHANGED session
    <3>1. h \in SessionCall /\ h.at = "drop" /\ h.sid = s /\ h.stamp = session[s]
      BY <1>2, <2>1 DEF SessionCall
    <3>2. call' = [call EXCEPT ![c] = h] /\ session[s] # Absent /\ s \in drawn
      BY <1>2, <2>1, <2>2 DEF Calling, LiveSession
    <3> HIDE DEF h
    <3> QED BY <1>1, <1>2, <2>1, <2>2, <3>1, <3>2, CallStep
  <2>3. CASE DropSuperseded(s) /\ UNCHANGED call
    <3>1. session' = session \/ session' = [session EXCEPT ![s] = Absent]
      BY <2>3 DEF DropSuperseded
    <3>2. Absent \in -1 .. MaxEpoch
      BY <1>2 DEF Absent
    <3>3. session' \in [Sids -> -1 .. MaxEpoch] /\ \A u \in Sids : session'[u] \in {Absent, session[u]}
      BY <1>2, <3>1, <3>2
    <3> QED BY <1>2, <2>1, <2>3, <3>3, KeysLapse
  <2> QED BY <1>7, <2>2, <2>3 DEF Rotate
<1>8. ASSUME NEW keep \in {s \in Sids : LiveSession(s)} \cup {NoKey}, RevokeAll(c, keep) PROVE SessionInv'
  <2> DEFINE h == [op |-> "revoke-all", at |-> "bump", sid |-> keep, tok |-> NoKey, stamp |-> epoch + 1]
  <2>1. h \in SessionCall /\ h.at = "bump" /\ h.sid = keep /\ h.stamp = epoch + 1 /\ epoch + 1 \in 0 .. MaxEpoch
    BY <1>2, <1>8 DEF SessionCall, RevokeAll
  <2>2. call' = [call EXCEPT ![c] = h] /\ UNCHANGED <<session, refresh, epoch, drawn, kept>>
    BY <1>8 DEF RevokeAll, Calling
  <2>3. keep \in drawn \cup {NoKey}
    BY <1>2 DEF LiveSession
  <2> HIDE DEF h
  <2> QED BY <1>1, <1>2, <2>1, <2>2, <2>3, CallStep DEF Carrying
<1>9. ASSUME NEW step \in {"issue", "extend", "restamp"}, NextStep(c, step)
      PROVE  \E h \in SessionCall : /\ call' = [call EXCEPT ![c] = h]
                                    /\ h.at = step /\ h.sid = g.sid /\ h.stamp = g.stamp
  <2> DEFINE h == [g EXCEPT !.at = step]
  <2>1. h \in SessionCall /\ h.at = step /\ h.sid = g.sid /\ h.stamp = g.stamp
    BY DEF SessionCall
  <2>2. call' = [call EXCEPT ![c] = h]
    BY <1>1, <1>2, <1>9 DEF NextStep
  <2> HIDE DEF h
  <2> QED BY <2>1, <2>2
<1>10. CASE SetSession(c) \/ ExtendSession(c)
  <2>1. /\ g.at \in Carrying /\ UNCHANGED <<refresh, epoch, drawn, kept>>
        /\ session' = [session EXCEPT ![g.sid] = g.stamp] /\ NextStep(c, "issue")
    BY <1>1, <1>10 DEF SetSession, ExtendSession, Carrying
  <2>2. PICK h \in SessionCall : /\ call' = [call EXCEPT ![c] = h]
                                 /\ h.at = "issue" /\ h.sid = g.sid /\ h.stamp = g.stamp
    BY <1>9, <2>1
  <2>3. g.stamp \in -1 .. MaxEpoch /\ g.sid \in drawn \cup {NoKey}
    BY <1>3 DEF SessionCall, CallFits
  <2>4. /\ session' \in [Sids -> -1 .. MaxEpoch]
        /\ \A s \in Sids : session'[s] = IF s = g.sid THEN g.stamp ELSE session[s]
    BY <1>2, <2>1, <2>3
  <2>5. \A s \in Sids : session'[s] # Absent => s \in drawn
    BY <1>2, <2>3, <2>4, SessionAssumption
  <2> QED BY <1>1, <1>2, <2>1, <2>2, <2>3, <2>4, <2>5, CallStep DEF Carrying
<1>11. CASE DropToken(c)
  <2>1. /\ g.at = "drop" /\ UNCHANGED <<session, epoch, drawn, kept>>
        /\ refresh' = [refresh EXCEPT ![g.tok] = NoKey] /\ NextStep(c, "extend")
    BY <1>1, <1>11 DEF DropToken
  <2>2. PICK h \in SessionCall : /\ call' = [call EXCEPT ![c] = h]
                                 /\ h.at = "extend" /\ h.sid = g.sid /\ h.stamp = g.stamp
    BY <1>9, <2>1
  <2>3. refresh' \in [Tokens -> Sids \cup {NoKey}] /\ \A t \in Tokens : refresh'[t] \in drawn \cup {NoKey}
    BY <1>2, <2>1
  <2>4. g.sid \in drawn \cup {NoKey}
    BY <1>3 DEF CallFits
  <2> QED BY <1>1, <1>2, <2>1, <2>2, <2>3, <2>4, CallStep DEF Carrying
<1>12. CASE BumpEpoch(c)
  <2>1. /\ g.at = "bump" /\ UNCHANGED <<session, refresh, drawn, kept>> /\ epoch' = g.stamp
        /\ IF g.sid = NoKey THEN Return(c) ELSE NextStep(c, "restamp")
    BY <1>1, <1>12 DEF BumpEpoch
  <2>2. g.stamp \in 0 .. MaxEpoch /\ g.sid \in Sids \cup {NoKey} /\ g.sid \in drawn \cup {NoKey}
    BY <1>3, <2>1 DEF SessionCall, CallFits
  <2>3. CASE g.sid = NoKey
    BY <1>1, <1>2, <1>4, <2>1, <2>2, <2>3, CallStep DEF Carrying, Return
  <2>4. CASE g.sid # NoKey
    <3>1. PICK h \in SessionCall : /\ call' = [call EXCEPT ![c] = h]
                                   /\ h.at = "restamp" /\ h.sid = g.sid /\ h.stamp = g.stamp
      BY <1>9, <2>1, <2>4
    <3> QED BY <1>1, <1>2, <2>1, <2>2, <2>4, <3>1, CallStep DEF Carrying
  <2> QED BY <2>3, <2>4
<1>13. CASE Restamp(c)
  <2>1. /\ g.at = "restamp" /\ UNCHANGED <<refresh, epoch, drawn>>
        /\ session' = [session EXCEPT ![g.sid] = g.stamp] /\ kept' = kept \cup {g.sid}
        /\ call' = [call EXCEPT ![c] = NoCall]
    BY <1>1, <1>13 DEF Restamp, Return
  <2>2. g.stamp \in -1 .. MaxEpoch /\ g.sid \in Sids /\ g.sid \in drawn
    BY <1>3, <2>1, SessionAssumption DEF SessionCall, CallFits
  <2>3. /\ session' \in [Sids -> -1 .. MaxEpoch]
        /\ \A s \in Sids : session'[s] = IF s = g.sid THEN g.stamp ELSE session[s]
    BY <1>2, <2>1, <2>2
  <2> QED BY <1>1, <1>2, <1>4, <2>1, <2>2, <2>3, CallStep DEF Carrying
<1>14. CASE FailCall(c)
  <2>1. UNCHANGED <<session, refresh, epoch, drawn, kept>> /\ call' = [call EXCEPT ![c] = NoCall]
    BY <1>14 DEF FailCall, Return
  <2> QED BY <1>1, <1>2, <1>4, <2>1, CallStep DEF Carrying
<1> QED BY <1>5, <1>6, <1>7, <1>8, <1>10, <1>11, <1>12, <1>13, <1>14

\* Every step of the store keeps the invariant.
LEMMA SessionInvKept == SessionInv /\ [SessionNext]_sessionVars => SessionInv'
<1> SUFFICES ASSUME SessionInv, [SessionNext]_sessionVars PROVE SessionInv'
  OBVIOUS
<1>1. session \in [Sids -> -1 .. MaxEpoch] /\ refresh \in [Tokens -> Sids \cup {NoKey}] /\ MaxEpoch \in Nat
  BY SessionAssumption DEF SessionInv, SessionTypeOK
<1>2. CASE UNCHANGED sessionVars
  BY <1>1, <1>2, KeysLapse DEF sessionVars
<1>3. ASSUME NEW s \in Sids, Lookup(s) \/ Revoke(s) \/ ExpireSession(s) PROVE SessionInv'
  <2>1. UNCHANGED <<refresh, epoch, drawn, call, kept>>
        /\ (session' = session \/ session' = [session EXCEPT ![s] = Absent])
    BY <1>3 DEF Lookup, Revoke, ExpireSession, DropSuperseded
  <2>2. session' \in [Sids -> -1 .. MaxEpoch] /\ \A u \in Sids : session'[u] \in {Absent, session[u]}
    BY <1>1, <2>1 DEF Absent
  <2> QED BY <1>1, <2>1, <2>2, KeysLapse
<1>4. ASSUME NEW t \in Tokens, ExpireToken(t) PROVE SessionInv'
  <2>1. UNCHANGED <<session, epoch, drawn, call, kept>> /\ refresh' = [refresh EXCEPT ![t] = NoKey]
    BY <1>4 DEF ExpireToken
  <2> QED BY <1>1, <2>1, KeysLapse
<1> QED BY <1>2, <1>3, <1>4, SessionCallKeeps DEF SessionNext

\* Nobody has signed in yet.
LEMMA SessionInvFirst == SessionInit => SessionInv
<1> SUFFICES ASSUME SessionInit PROVE SessionInv
  OBVIOUS
<1>1. MaxEpoch \in Nat /\ NoCall \in SessionCall /\ NoCall.at = "idle" /\ NoCall.sid = NoKey
  BY SessionAssumption DEF NoCall, SessionCall, Absent
<1>2. SessionTypeOK
  BY <1>1 DEF SessionInit, SessionTypeOK, SessionCall, Absent
<1>3. \A c \in SessionCallers : call[c] = NoCall
  BY DEF SessionInit
<1>4. CallFits(NoCall) /\ OneStamp(NoCall) /\ SameStamp(NoCall, NoCall)
  BY <1>1 DEF CallFits, OneStamp, SameStamp, Carrying
<1> QED BY <1>2, <1>3, <1>4 DEF SessionInit, SessionInv

\* Of the steps that write a session only the re-stamp of a kept one brings it back.
LEMMA NoSessionReturns == SessionInv /\ [SessionNext]_sessionVars => RefreshCannotResurrect
<1> SUFFICES ASSUME SessionInv, [SessionNext]_sessionVars, NEW s \in Sids,
                    session[s] \notin {Absent, epoch}, epoch' = epoch, s \notin kept'
             PROVE  session'[s] # epoch
  BY DEF RefreshCannotResurrect
<1>1. session \in [Sids -> -1 .. MaxEpoch] /\ epoch \in 0 .. MaxEpoch /\ Absent # epoch /\ MaxEpoch \in Nat
  BY SessionAssumption DEF SessionInv, SessionTypeOK, Absent
<1>2. ASSUME session' = session PROVE session'[s] # epoch
  BY <1>2
<1>3. ASSUME NEW u, session' = [session EXCEPT ![u] = Absent] PROVE session'[s] # epoch
  BY <1>1, <1>3
<1>4. ASSUME NEW u, DropSuperseded(u) PROVE session'[s] # epoch
  BY <1>2, <1>3, <1>4 DEF DropSuperseded
<1>5. ASSUME NEW c \in SessionCallers,
             \/ \E u \in Sids : CreateSession(c, u)
             \/ \E t \in Tokens : issueRefresh(c, t) \/ Rotate(c, t)
             \/ \E keep \in {u \in Sids : LiveSession(u)} \cup {NoKey} : RevokeAll(c, keep)
             \/ DropToken(c) \/ BumpEpoch(c) \/ FailCall(c)
      PROVE  session'[s] # epoch
  <2>1. session' = session \/ \E u : DropSuperseded(u)
    BY <1>5 DEF CreateSession, issueRefresh, Rotate, RevokeAll, DropToken, BumpEpoch, FailCall
  <2> QED BY <1>2, <1>4, <2>1
<1>6. ASSUME NEW c \in SessionCallers, SetSession(c) \/ ExtendSession(c) PROVE session'[s] # epoch
  <2>1. PICK g : g = call[c] /\ OneStamp(g)
    BY DEF SessionInv
  <2>2. /\ g.at \in Carrying /\ session' = [session EXCEPT ![g.sid] = g.stamp] /\ kept' = kept
    BY <1>6, <2>1 DEF SetSession, ExtendSession, Carrying
  <2>3. g.sid = s => g.stamp = session[s]
    BY <2>1, <2>2 DEF OneStamp
  <2> QED BY <1>1, <2>2, <2>3
<1>7. ASSUME NEW c \in SessionCallers, Restamp(c) PROVE session'[s] # epoch
  <2>1. session' = [session EXCEPT ![call[c].sid] = call[c].stamp] /\ call[c].sid \in kept'
    BY <1>7 DEF Restamp
  <2> QED BY <1>1, <2>1
<1>8. ASSUME NEW u \in Sids, Lookup(u) \/ Revoke(u) \/ ExpireSession(u) PROVE session'[s] # epoch
  BY <1>3, <1>4, <1>8 DEF Lookup, Revoke, ExpireSession
<1>9. ASSUME NEW t \in Tokens, ExpireToken(t) PROVE session'[s] # epoch
  BY <1>2, <1>9 DEF ExpireToken
<1>10. CASE UNCHANGED sessionVars
  BY <1>2, <1>10 DEF sessionVars
<1> QED BY <1>5, <1>6, <1>7, <1>8, <1>9, <1>10 DEF SessionNext

\* While the sessions run, their invariant holds.
LEMMA SessionPart == Spec => [](part = "sessions" => SessionInv)
<1>1. Init => (part = "sessions" => SessionInv)
  BY SessionInvFirst DEF Init
<1>2. (part = "sessions" => SessionInv) /\ [Next]_platformVars => (part = "sessions" => SessionInv)'
  BY PartRuns, SessionInvKept
<1> QED BY <1>1, <1>2, PTL DEF Spec

\* A refresh in flight never revives a session the account's epoch has left
\* behind, whatever the sessions, tokens and calls that race.
THEOREM SessionsStayRevoked == Spec => SessionsHold
<1>1. (part = "sessions" => SessionInv) => (part = "sessions" => SessionTypeOK)
  BY DEF SessionInv
<1>2. (part = "sessions" => SessionInv) /\ [Next]_platformVars
      => [part = "sessions" => RefreshCannotResurrect]_platformVars
  BY PartRuns, NoSessionReturns
<1> QED BY <1>1, <1>2, SessionPart, PTL DEF Spec, SessionsHold

-----------------------------------------------------------------------------
(* The account and everything that writes it *)

AccountWork ==
  [op : Saves \cup {"none", "login", "request-reset", "request-verify", "greet"},
   at : {"idle", "save", "revoke", "session", "take", "load", "throttle", "mint"},
   row : Account, secret : Secrets \cup {NoSecret}]

\* A copy that will be saved differs from the row it was read at, while that is
\* still the row, in what the request is about alone.
OnlyItsPart(row, op) == \A f \in DOMAIN Touches : row[f] # account[f] => op \in Touches[f]

WorkFits(g) ==
  /\ g.at = "save" =>
       /\ g.op \in Saves
       /\ g.row.version < MaxVersion /\ g.row.version <= account.version
       /\ g.row.version = account.version => OnlyItsPart(g.row, g.op)
  /\ g.at \in {"take", "load"} => g.op \in {"reset-password", "verify-email"}

AccountInv ==
  /\ AccountTypeOK /\ AlwaysAWayIn
  /\ \A c \in AccountCallers : WorkFits(work[c])

\* The columns WritesOnlyItsPart speaks of.
LEMMA Columns ==
  DOMAIN Touches = {"password", "email", "phone", "verified", "providers", "suspended", "moderator"}
BY DEF Touches

\* A request moves; the row stays or becomes its next version, valid.
LEMMA WorkMoves ==
  ASSUME AccountInv, NEW c \in AccountCallers, NEW h \in AccountWork, work' = [work EXCEPT ![c] = h],
         \/ account' = account
         \/ account' \in Account /\ account'.version = account.version + 1 /\ AlwaysAWayIn',
         secret' \in [Secrets -> [for : Scopes \cup {"none"}, to : Emails \cup {NoEmail}]],
         minted' \subseteq Secrets, throttled' \subseteq Scopes, signedIn' \in BOOLEAN,
         WorkFits(h)'
  PROVE  AccountInv'
<1>1. work \in [AccountCallers -> AccountWork] /\ account \in Account
  BY DEF AccountInv, AccountTypeOK, AccountWork
<1>2. AccountTypeOK'
  <2>1. account' \in Account
    BY <1>1
  <2>2. work' \in [AccountCallers -> AccountWork]
    BY <1>1
  <2> QED BY <2>1, <2>2 DEF AccountTypeOK, AccountWork, Account
<1>3. AlwaysAWayIn'
  BY DEF AccountInv, AlwaysAWayIn, Exists, HasIdentifier, SignInMethods
<1>4. ASSUME NEW b \in AccountCallers PROVE WorkFits(work[b])'
  <2>1. CASE b = c
    <3>1. work'[b] = h
      BY <1>1, <2>1
    <3> QED BY <3>1 DEF WorkFits, OnlyItsPart
  <2>2. CASE b # c
    <3>1. PICK k \in AccountWork : k = work[b]
      BY <1>1
    <3>2. work'[b] = k /\ WorkFits(k)
      BY <1>1, <2>2, <3>1 DEF AccountInv
    <3>3. WorkFits(k)'
      <4>1. CASE account' = account
        BY <3>2, <4>1 DEF WorkFits, OnlyItsPart
      <4>2. CASE account'.version = account.version + 1
        <5>1. k.row.version \in Int /\ account.version \in Int
          BY <1>1 DEF Account, AccountWork
        <5> QED BY <3>2, <4>2, <5>1 DEF WorkFits
      <4> QED BY <4>1, <4>2
    <3> QED BY <3>2, <3>3 DEF WorkFits, OnlyItsPart
  <2> QED BY <2>1, <2>2
<1> QED BY <1>2, <1>3, <1>4 DEF AccountInv

\* The types of the account's variables, and of the copies that stand for none.
LEMMA AccountTypes ==
  ASSUME AccountInv
  PROVE  /\ account \in Account /\ work \in [AccountCallers -> AccountWork]
         /\ secret \in [Secrets -> [for : Scopes \cup {"none"}, to : Emails \cup {NoEmail}]]
         /\ minted \subseteq Secrets /\ throttled \subseteq Scopes /\ signedIn \in BOOLEAN
         /\ NoAccount \in Account /\ NoWork \in AccountWork
         /\ \A a \in Account : AddressOf(a) \in Account /\ AddressOf(a).email = a.email
         /\ MaxVersion \in Nat
<1>1. /\ account \in Account /\ work \in [AccountCallers -> AccountWork]
      /\ secret \in [Secrets -> [for : Scopes \cup {"none"}, to : Emails \cup {NoEmail}]]
      /\ minted \subseteq Secrets /\ throttled \subseteq Scopes /\ signedIn \in BOOLEAN
  BY DEF AccountInv, AccountTypeOK, AccountWork
<1>2. MaxVersion \in Nat /\ NoAccount \in Account
  BY AccountAssumption DEF NoAccount, Account
<1>3. NoWork \in AccountWork
  BY <1>2 DEF NoWork, AccountWork
<1>4. \A a \in Account : AddressOf(a) \in Account /\ AddressOf(a).email = a.email
  BY <1>2 DEF AddressOf, Account, NoAccount
<1> QED BY <1>1, <1>2, <1>3, <1>4

\* A request goes on to a step at which it has no copy to save.
LEMMA LightWork ==
  ASSUME AccountInv, NEW c \in AccountCallers, NEW h \in AccountWork, work' = [work EXCEPT ![c] = h],
         h.at \notin {"save", "take", "load"},
         \/ account' = account
         \/ account' \in Account /\ account'.version = account.version + 1 /\ AlwaysAWayIn',
         secret' \in [Secrets -> [for : Scopes \cup {"none"}, to : Emails \cup {NoEmail}]],
         minted' \subseteq Secrets, throttled' \subseteq Scopes, signedIn' \in BOOLEAN
  PROVE  AccountInv'
<1>1. WorkFits(h)'
  BY DEF WorkFits
<1> QED BY <1>1, WorkMoves

\* A request changes its copy of the row in what it is about.
LEMMA WritingKeeps ==
  ASSUME AccountInv, NEW c \in AccountCallers, NEW op \in Saves, NEW a \in Account, Writing(c, op, a),
         a.version = account.version, OnlyItsPart(a, op)
  PROVE  AccountInv'
<1> DEFINE h == [op |-> op, at |-> "save", row |-> a, secret |-> NoSecret]
<1>1. h \in AccountWork /\ h.at = "save" /\ h.op = op /\ h.row = a
  BY DEF AccountWork
<1>2. /\ UNCHANGED <<account, secret, minted, throttled, signedIn>>
      /\ work' = [work EXCEPT ![c] = h] /\ account.version < MaxVersion
  BY DEF Writing, Working
<1> HIDE DEF h
<1>3. account.version \in Int
  BY AccountTypes DEF Account
<1>4. WorkFits(h)'
  BY <1>1, <1>2, <1>3 DEF WorkFits, OnlyItsPart
<1> QED BY <1>1, <1>2, <1>4, WorkMoves, AccountTypes

\* The requests that go on to Save.
LEMMA WritersKeep ==
  ASSUME AccountInv, NEW c \in AccountCallers,
         \/ ChangePassword(c)
         \/ \E e \in Emails \cup {NoEmail}, ph \in BOOLEAN : UpdateMe(c, e, ph)
         \/ \E p \in Providers : UnlinkOAuthIdentity(c, p)
         \/ AdminSuspendAccount(c) \/ AdminLiftSuspension(c) \/ AdminRevokeModerator(c)
         \/ \E p \in Providers : Writing(c, "link", [account EXCEPT !.providers = @ \cup {p}])
  PROVE  AccountInv'
<1> DEFINE Copy(a, op) == a \in Account /\ a.version = account.version /\ OnlyItsPart(a, op)
<1>1. account \in Account
  BY AccountTypes
<1>2. Copy([account EXCEPT !.password = TRUE], "change-password")
  <2> DEFINE b == [account EXCEPT !.password = TRUE]
  <2>1. b \in Account
    BY <1>1 DEF Account
  <2>2. /\ b.version = account.version /\ b.email = account.email /\ b.phone = account.phone /\ b.verified = account.verified
        /\ b.providers = account.providers /\ b.suspended = account.suspended /\ b.moderator = account.moderator
    BY <1>1 DEF Account
  <2> HIDE DEF b
  <2>3. OnlyItsPart(b, "change-password")
    BY <2>2, Columns DEF OnlyItsPart, Touches
  <2> QED BY <2>1, <2>2, <2>3 DEF b
<1>3. ASSUME NEW e \in Emails \cup {NoEmail}, NEW ph \in BOOLEAN
      PROVE  Copy([SetEmail(account, e) EXCEPT !.phone = ph], "update-me")
  <2> DEFINE a == SetEmail(account, e)
             b == [a EXCEPT !.phone = ph]
  <2>1. a = account \/ a = [account EXCEPT !.email = e, !.verified = FALSE]
    BY DEF SetEmail
  <2>2. /\ a \in Account
        /\ a.version = account.version /\ a.password = account.password
        /\ a.providers = account.providers /\ a.suspended = account.suspended /\ a.moderator = account.moderator
    BY <1>1, <2>1 DEF Account
  <2> HIDE DEF a
  <2>3. /\ b \in Account
        /\ b.version = account.version /\ b.password = account.password
        /\ b.providers = account.providers /\ b.suspended = account.suspended /\ b.moderator = account.moderator
    BY <2>2 DEF Account
  <2> HIDE DEF b
  <2>4. OnlyItsPart(b, "update-me")
    BY <2>3, Columns DEF OnlyItsPart, Touches
  <2> QED BY <2>3, <2>4 DEF a, b
<1>4. ASSUME NEW p \in Providers PROVE Copy([account EXCEPT !.providers = @ \ {p}], "unlink")
  BY <1>1, Columns DEF Account, OnlyItsPart, Touches
<1>5. ASSUME NEW p \in Providers PROVE Copy([account EXCEPT !.providers = @ \cup {p}], "link")
  BY <1>1, Columns DEF Account, OnlyItsPart, Touches
<1>6. Copy([account EXCEPT !.suspended = TRUE], "suspend")
  <2> DEFINE b == [account EXCEPT !.suspended = TRUE]
  <2>1. b \in Account
    BY <1>1 DEF Account
  <2>2. /\ b.version = account.version /\ b.password = account.password /\ b.email = account.email /\ b.phone = account.phone
        /\ b.verified = account.verified /\ b.providers = account.providers /\ b.moderator = account.moderator
    BY <1>1 DEF Account
  <2> HIDE DEF b
  <2>3. OnlyItsPart(b, "suspend")
    BY <2>2, Columns DEF OnlyItsPart, Touches
  <2> QED BY <2>1, <2>2, <2>3 DEF b
<1>7. Copy([account EXCEPT !.suspended = FALSE], "lift")
  <2> DEFINE b == [account EXCEPT !.suspended = FALSE]
  <2>1. b \in Account
    BY <1>1 DEF Account
  <2>2. /\ b.version = account.version /\ b.password = account.password /\ b.email = account.email /\ b.phone = account.phone
        /\ b.verified = account.verified /\ b.providers = account.providers /\ b.moderator = account.moderator
    BY <1>1 DEF Account
  <2> HIDE DEF b
  <2>3. OnlyItsPart(b, "lift")
    BY <2>2, Columns DEF OnlyItsPart, Touches
  <2> QED BY <2>1, <2>2, <2>3 DEF b
<1>8. Copy([account EXCEPT !.moderator = FALSE], "revoke-moderator")
  <2> DEFINE b == [account EXCEPT !.moderator = FALSE]
  <2>1. b \in Account
    BY <1>1 DEF Account
  <2>2. /\ b.version = account.version /\ b.password = account.password /\ b.email = account.email /\ b.phone = account.phone
        /\ b.verified = account.verified /\ b.providers = account.providers /\ b.suspended = account.suspended
    BY <1>1 DEF Account
  <2> HIDE DEF b
  <2>3. OnlyItsPart(b, "revoke-moderator")
    BY <2>2, Columns DEF OnlyItsPart, Touches
  <2> QED BY <2>1, <2>2, <2>3 DEF b
<1>9. ASSUME NEW op \in Saves, NEW a, Copy(a, op), Writing(c, op, a) PROVE AccountInv'
  BY <1>9, WritingKeeps
<1> HIDE DEF Copy
<1>10. {"change-password", "update-me", "unlink", "link", "suspend", "lift", "revoke-moderator"} \subseteq Saves
  BY DEF Saves
<1> QED BY <1>2, <1>3, <1>4, <1>5, <1>6, <1>7, <1>8, <1>9, <1>10
        DEF ChangePassword, UpdateMe, UnlinkOAuthIdentity, AdminSuspendAccount, AdminLiftSuspension,
            AdminRevokeModerator

\* A request's copy at its next step.
LEMMA WorkOnCopy ==
  ASSUME AccountInv, NEW c \in AccountCallers, NEW step \in {"revoke", "session", "mint"}, NEW a \in Account,
         WorkOn(c, step, a)
  PROVE  \E h \in AccountWork : work' = [work EXCEPT ![c] = h] /\ h.at \notin {"save", "take", "load"}
<1>1. PICK g \in AccountWork : g = work[c]
  BY AccountTypes
<1> DEFINE h == [g EXCEPT !.at = step, !.row = a, !.secret = NoSecret]
<1>2. h \in AccountWork /\ h.at = step
  BY DEF AccountWork
<1>3. work' = [work EXCEPT ![c] = h]
  BY <1>1, AccountTypes DEF WorkOn
<1> HIDE DEF h
<1> QED BY <1>2, <1>3

\* A handler that moves to its next step keeps everything else of what it loaded.
LEMMA WorkStepCopy ==
  ASSUME AccountInv, NEW c \in AccountCallers, NEW step \in {"load", "mint"}, WorkStep(c, step)
  PROVE  \E h \in AccountWork : /\ work' = [work EXCEPT ![c] = h]
                                /\ h.at = step /\ h.op = work[c].op
<1>1. PICK g \in AccountWork : g = work[c]
  BY AccountTypes
<1> DEFINE h == [g EXCEPT !.at = step]
<1>2. h \in AccountWork /\ h.at = step /\ h.op = g.op
  BY DEF AccountWork
<1>3. work' = [work EXCEPT ![c] = h]
  BY <1>1, AccountTypes DEF WorkStep
<1> HIDE DEF h
<1> QED BY <1>1, <1>2, <1>3

\* A request ends.
LEMMA WorkDoneCopy ==
  ASSUME AccountInv, NEW c \in AccountCallers, WorkDone(c)
  PROVE  \E h \in AccountWork : work' = [work EXCEPT ![c] = h] /\ h.at \notin {"save", "take", "load"}
<1>1. NoWork \in AccountWork /\ NoWork.at = "idle"
  BY AccountTypes DEF NoWork
<1> QED BY <1>1 DEF WorkDone

\* A request begins at a step with no copy to save.
LEMMA WorkingCopy ==
  ASSUME AccountInv, NEW c \in AccountCallers,
         NEW op \in {"login", "request-reset", "request-verify", "greet", "reset-password", "verify-email"},
         NEW step \in {"session", "take", "throttle", "mint"}, NEW a \in Account,
         NEW s \in Secrets \cup {NoSecret}, Working(c, op, step, a, s)
  PROVE  \E h \in AccountWork : work' = [work EXCEPT ![c] = h] /\ h.at = step /\ h.op = op
<1> DEFINE h == [op |-> op, at |-> step, row |-> a, secret |-> s]
<1>1. h \in AccountWork /\ h.at = step /\ h.op = op
  BY DEF AccountWork, Saves
<1>2. work' = [work EXCEPT ![c] = h]
  BY DEF Working
<1> HIDE DEF h
<1> QED BY <1>1, <1>2

\* The save lands on the version it was read at, and Validate has passed it.
LEMMA SaveAccountKeeps ==
  ASSUME AccountInv, NEW c \in AccountCallers, SaveAccount(c)
  PROVE  AccountInv'
<1>1. PICK g \in AccountWork : g = work[c] /\ WorkFits(g)
  BY AccountTypes DEF AccountInv
<1> DEFINE a == g.row
<1>2. g.at = "save" /\ UNCHANGED <<secret, minted, throttled, signedIn>> /\ a \in Account
  BY <1>1 DEF SaveAccount, AccountWork
<1>3. CASE SaveLands(a) /\ ValidAccount(a)
  <2>1. account' = [a EXCEPT !.version = account.version + 1]
    BY <1>1, <1>3 DEF SaveAccount
  <2>2. account.version \in 0 .. MaxVersion /\ account.version < MaxVersion /\ MaxVersion \in Nat
    BY <1>1, <1>2, <1>3, AccountTypes DEF WorkFits, SaveLands, Account
  <2>3. account' \in Account /\ account'.version = account.version + 1
    BY <1>2, <2>1, <2>2 DEF Account
  <2>4. account'.email = a.email /\ account'.phone = a.phone /\ account'.providers = a.providers
        /\ account'.password = a.password
    BY <1>2, <2>1 DEF Account
  <2>5. AlwaysAWayIn'
    BY <1>3, <2>4 DEF ValidAccount, AlwaysAWayIn, HasIdentifier, SignInMethods
  <2>6. \/ WorkOn(c, "revoke", NoAccount) \/ WorkOn(c, "mint", AddressOf(a))
        \/ WorkOn(c, "session", NoAccount) \/ WorkDone(c)
    BY <1>1, <1>3 DEF SaveAccount
  <2>7. PICK h \in AccountWork : work' = [work EXCEPT ![c] = h] /\ h.at \notin {"save", "take", "load"}
    BY <1>2, <2>6, WorkOnCopy, WorkDoneCopy, AccountTypes
  <2> QED BY <1>2, <2>3, <2>5, <2>7, LightWork, AccountTypes
<1>4. CASE ~(SaveLands(a) /\ ValidAccount(a))
  <2>1. WorkDone(c) /\ account' = account
    BY <1>1, <1>4 DEF SaveAccount
  <2>2. PICK h \in AccountWork : work' = [work EXCEPT ![c] = h] /\ h.at \notin {"save", "take", "load"}
    BY <2>1, WorkDoneCopy
  <2> QED BY <1>2, <2>1, <2>2, LightWork, AccountTypes
<1> QED BY <1>3, <1>4

\* The row of a new account, by its fields.
LEMMA NewRow ==
  ASSUME NoAccount \in Account, 1 \in 0 .. MaxVersion, NEW e \in Emails \cup {NoEmail}, NEW a, a = NewAccount(e)
  PROVE  /\ a \in Account /\ a.version = 1 /\ HasIdentifier(a)
         /\ a.password = TRUE /\ a.providers = {}
<1>1. a \in Account
  BY DEF NewAccount, Account
<1>2. a.version = 1
  BY DEF NewAccount, Account
<1>3. HasIdentifier(a)
  BY DEF NewAccount, Account, HasIdentifier
<1>4. a.password = TRUE
  BY DEF NewAccount, Account
<1>5. a.providers = {}
  BY DEF NewAccount, Account, NoAccount
<1> QED BY <1>1, <1>2, <1>3, <1>4, <1>5

\* A row that can be named and signed in to.
LEMMA WayIn ==
  ASSUME NEW a, account' = a, HasIdentifier(a), SignInMethods(a) > 0
  PROVE  AlwaysAWayIn'
BY DEF AlwaysAWayIn, HasIdentifier, SignInMethods

\* One way to sign in is enough.
LEMMA OneMethod ==
  ASSUME NEW a, \/ a.password = TRUE /\ a.providers = {}
                \/ \E p : a.providers = {p}
  PROVE  SignInMethods(a) > 0
<1>1. Cardinality({}) = 0 /\ \A p : Cardinality({p}) = 1
  BY FS_EmptySet, FS_Singleton
<1>2. CASE a.password = TRUE /\ a.providers = {}
  BY <1>1, <1>2 DEF SignInMethods
<1>3. ASSUME NEW p, a.providers = {p} PROVE SignInMethods(a) > 0
  <2>1. Cardinality(a.providers) = 1
    BY <1>1, <1>3
  <2>2. (IF a.password THEN 1 ELSE 0) \in {0, 1}
    OBVIOUS
  <2> QED BY <2>1, <2>2 DEF SignInMethods
<1> QED BY <1>2, <1>3

\* An account begins as a valid row.
LEMMA AccountBegins ==
  ASSUME AccountInv, ~Exists, NEW e \in Emails \cup {NoEmail},
         \/ account' = NewAccount(e)
         \/ account' = [NewAccount(e) EXCEPT !.moderator = TRUE]
         \/ \E v \in BOOLEAN, p \in Providers : account' = NewOAuthAccount(e, v, p)
  PROVE  account' \in Account /\ account'.version = account.version + 1 /\ AlwaysAWayIn'
<1>1. account.version = 0 /\ 1 \in 0 .. MaxVersion /\ NoAccount \in Account
  BY AccountAssumption, AccountTypes DEF Exists, Account
<1>2. ASSUME NEW a, account' = a, a \in Account, a.version = 1, HasIdentifier(a), SignInMethods(a) > 0
      PROVE  account' \in Account /\ account'.version = account.version + 1 /\ AlwaysAWayIn'
  BY <1>1, <1>2, WayIn
<1>3. CASE account' = NewAccount(e)
  <2>1. PICK a : a = NewAccount(e)
    OBVIOUS
  <2>2. a \in Account /\ a.version = 1 /\ HasIdentifier(a) /\ SignInMethods(a) > 0
    BY <1>1, <2>1, NewRow, OneMethod
  <2> QED BY <1>2, <1>3, <2>1, <2>2
<1>4. CASE account' = [NewAccount(e) EXCEPT !.moderator = TRUE]
  <2>1. PICK a : a = NewAccount(e)
    OBVIOUS
  <2>2. a \in Account /\ a.version = 1 /\ HasIdentifier(a) /\ a.password = TRUE /\ a.providers = {}
    BY <1>1, <2>1, NewRow
  <2>3. PICK b : b = [a EXCEPT !.moderator = TRUE]
    OBVIOUS
  <2>4. b \in Account
    BY <2>2, <2>3 DEF Account
  <2>5. b.version = 1 /\ b.email = a.email /\ b.phone = a.phone
    BY <2>2, <2>3 DEF Account
  <2>6. b.password = TRUE /\ b.providers = {}
    BY <2>2, <2>3 DEF Account
  <2>7. HasIdentifier(b)
    BY <2>2, <2>5 DEF HasIdentifier
  <2>8. SignInMethods(b) > 0
    BY <2>6, OneMethod
  <2>9. account' = b
    BY <1>4, <2>1, <2>3
  <2> QED BY <1>2, <2>4, <2>5, <2>7, <2>8, <2>9
<1>5. ASSUME NEW v \in BOOLEAN, NEW p \in Providers, account' = NewOAuthAccount(e, v, p)
      PROVE  account' \in Account /\ account'.version = account.version + 1 /\ AlwaysAWayIn'
  <2>1. PICK a : a = NewOAuthAccount(e, v, p)
    OBVIOUS
  <2>2. a \in Account
    BY <1>1, <2>1 DEF NewOAuthAccount, Account
  <2>3. a.version = 1
    BY <1>1, <2>1 DEF NewOAuthAccount, Account
  <2>4. HasIdentifier(a)
    BY <1>1, <2>1 DEF NewOAuthAccount, Account, HasIdentifier
  <2>5. a.providers = {p}
    BY <1>1, <2>1 DEF NewOAuthAccount, Account
  <2>6. SignInMethods(a) > 0
    BY <2>5, OneMethod
  <2> QED BY <1>2, <1>5, <2>1, <2>2, <2>3, <2>4, <2>6
<1> QED BY <1>3, <1>4, <1>5

\* No request moves.
LEMMA NoWorkMoves ==
  ASSUME AccountInv, work' = work,
         \/ account' = account
         \/ account' \in Account /\ account'.version = account.version + 1 /\ AlwaysAWayIn',
         secret' \in [Secrets -> [for : Scopes \cup {"none"}, to : Emails \cup {NoEmail}]],
         minted' \subseteq Secrets, throttled' \subseteq Scopes, signedIn' \in BOOLEAN
  PROVE  AccountInv'
<1>1. AccountTypeOK'
  BY DEF AccountInv, AccountTypeOK
<1>2. AlwaysAWayIn'
  BY DEF AccountInv, AlwaysAWayIn, Exists, HasIdentifier, SignInMethods
<1>3. ASSUME NEW b \in AccountCallers PROVE WorkFits(work[b])'
  <2>1. PICK k \in AccountWork : k = work[b] /\ WorkFits(k)
    BY AccountTypes DEF AccountInv
  <2>2. WorkFits(k)'
    <3>1. CASE account' = account
      BY <2>1, <3>1 DEF WorkFits, OnlyItsPart
    <3>2. CASE account'.version = account.version + 1
      <4>1. k.row.version \in Int /\ account.version \in Int
        BY AccountTypes DEF Account, AccountWork
      <4> QED BY <2>1, <3>2, <4>1 DEF WorkFits
    <3> QED BY <3>1, <3>2
  <2> QED BY <2>1, <2>2 DEF WorkFits, OnlyItsPart
<1> QED BY <1>1, <1>2, <1>3 DEF AccountInv

\* The requests that begin, end or go on with nothing to save.
LEMMA LightRequests ==
  ASSUME AccountInv, NEW c \in AccountCallers,
         \/ DropSessions(c) \/ OpenSession(c) \/ Login(c) \/ Throttle(c) \/ AccountCrash(c)
         \/ \E s \in Secrets : putSecret(c, s)
         \/ \E kind \in Scopes : RequestSecret(c, kind)
  PROVE  AccountInv'
<1>1. CASE DropSessions(c) \/ OpenSession(c) \/ AccountCrash(c)
  <2>1. WorkDone(c) /\ UNCHANGED <<account, secret, minted, throttled>>
    BY <1>1 DEF DropSessions, OpenSession, AccountCrash
  <2>2. signedIn' \in BOOLEAN
    BY <1>1, AccountTypes DEF DropSessions, OpenSession, AccountCrash
  <2>3. PICK h \in AccountWork : work' = [work EXCEPT ![c] = h] /\ h.at \notin {"save", "take", "load"}
    BY <2>1, WorkDoneCopy
  <2> QED BY <2>1, <2>2, <2>3, LightWork, AccountTypes
<1>2. CASE Login(c)
  <2>1. PICK h \in AccountWork : work' = [work EXCEPT ![c] = h] /\ h.at = "session"
    BY <1>2, WorkingCopy, AccountTypes DEF Login
  <2> QED BY <1>2, <2>1, LightWork, AccountTypes DEF Login
<1>3. CASE Throttle(c)
  <2>1. PICK h \in AccountWork : work' = [work EXCEPT ![c] = h] /\ h.at = "mint"
    BY <1>3, WorkStepCopy DEF Throttle
  <2>2. throttled' \subseteq Scopes
    BY <1>3, AccountTypes DEF Throttle, Scopes
  <2> QED BY <1>3, <2>1, <2>2, LightWork, AccountTypes DEF Throttle
<1>4. ASSUME NEW s \in Secrets, putSecret(c, s) PROVE AccountInv'
  <2>1. work[c].row.email \in Emails \cup {NoEmail}
    BY AccountTypes DEF AccountWork, Account
  <2>2. secret' \in [Secrets -> [for : Scopes \cup {"none"}, to : Emails \cup {NoEmail}]]
    <3> DEFINE kind == IF work[c].op = "request-reset" THEN "password-reset" ELSE "email-verify"
    <3>1. secret' = [secret EXCEPT ![s] = [for |-> kind, to |-> work[c].row.email]] /\ kind \in Scopes
      BY <1>4 DEF putSecret, Scopes
    <3> QED BY <2>1, <3>1, AccountTypes
  <2>3. WorkOn(c, "session", NoAccount) \/ WorkDone(c)
    BY <1>4 DEF putSecret
  <2>4. PICK h \in AccountWork : work' = [work EXCEPT ![c] = h] /\ h.at \notin {"save", "take", "load"}
    BY <2>3, WorkOnCopy, WorkDoneCopy, AccountTypes
  <2>5. minted' \subseteq Secrets /\ UNCHANGED <<account, throttled, signedIn>>
    BY <1>4, AccountTypes DEF putSecret
  <2> QED BY <2>2, <2>4, <2>5, LightWork, AccountTypes
<1>5. ASSUME NEW kind \in Scopes, RequestSecret(c, kind) PROVE AccountInv'
  <2>1. /\ Working(c, IF kind = "password-reset" THEN "request-reset" ELSE "request-verify",
                   "throttle", AddressOf(account), NoSecret)
        /\ UNCHANGED <<account, secret, minted, throttled, signedIn>>
    BY <1>5 DEF RequestSecret
  <2>2. PICK h \in AccountWork : work' = [work EXCEPT ![c] = h] /\ h.at = "throttle"
    BY <2>1, WorkingCopy, AccountTypes
  <2> QED BY <2>1, <2>2, LightWork, AccountTypes
<1> QED BY <1>1, <1>2, <1>3, <1>4, <1>5

\* The requests that write a new account, and the sign-in of a known one.
LEMMA SignUps ==
  ASSUME AccountInv, NEW c \in AccountCallers, NEW e \in Emails \cup {NoEmail},
         \/ Register(c, e)
         \/ \E p \in Providers, v \in BOOLEAN : LoginOAuth(c, p, e, v)
  PROVE  AccountInv'
<1>1. CASE Register(c, e)
  <2>1. /\ ~Exists /\ account' = NewAccount(e) /\ UNCHANGED <<secret, minted, throttled, signedIn>>
        /\ Working(c, "greet", IF e = NoEmail THEN "session" ELSE "mint", AddressOf(NewAccount(e)), NoSecret)
    BY <1>1 DEF Register
  <2>2. account' \in Account /\ account'.version = account.version + 1 /\ AlwaysAWayIn'
    BY <2>1, AccountBegins
  <2>3. AddressOf(NewAccount(e)) \in Account
    BY <2>1, <2>2, AccountTypes
  <2>4. PICK h \in AccountWork : work' = [work EXCEPT ![c] = h] /\ h.at \in {"session", "mint"}
    BY <2>1, <2>3, WorkingCopy
  <2> QED BY <2>1, <2>2, <2>4, LightWork, AccountTypes
<1>2. ASSUME NEW p \in Providers, NEW v \in BOOLEAN, LoginOAuth(c, p, e, v) PROVE AccountInv'
  <2>1. CASE /\ Working(c, "login", "session", NoAccount, NoSecret)
             /\ UNCHANGED <<account, secret, minted, throttled, signedIn>>
    <3>1. PICK h \in AccountWork : work' = [work EXCEPT ![c] = h] /\ h.at = "session"
      BY <2>1, WorkingCopy, AccountTypes
    <3> QED BY <2>1, <3>1, LightWork, AccountTypes
  <2>2. CASE Writing(c, "link", [account EXCEPT !.providers = @ \cup {p}])
    BY <2>2, WritersKeep
  <2>3. CASE /\ ~Exists /\ account' = NewOAuthAccount(e, v, p)
             /\ Working(c, "login", "session", NoAccount, NoSecret)
             /\ UNCHANGED <<secret, minted, throttled, signedIn>>
    <3>1. \E u \in BOOLEAN, q \in Providers : account' = NewOAuthAccount(e, u, q)
      BY <2>3
    <3>2. account' \in Account /\ account'.version = account.version + 1 /\ AlwaysAWayIn'
      BY <2>3, <3>1, AccountBegins
    <3>3. PICK h \in AccountWork : work' = [work EXCEPT ![c] = h] /\ h.at = "session"
      BY <2>3, WorkingCopy, AccountTypes
    <3> QED BY <2>3, <3>2, <3>3, LightWork, AccountTypes
  <2> QED BY <1>2, <2>1, <2>2, <2>3 DEF LoginOAuth
<1> QED BY <1>1, <1>2

\* A one-time secret is redeemed: the account it names is read and changed in the
\* password or the flag.
LEMMA RedeemKeeps ==
  ASSUME AccountInv, NEW c \in AccountCallers,
         takeSecret(c) \/ LoadRedeemed(c) \/ \E s \in Secrets : RedeemSecret(c, s)
  PROVE  AccountInv'
<1>1. PICK g \in AccountWork : g = work[c] /\ WorkFits(g)
  BY AccountTypes DEF AccountInv
<1>2. ASSUME NEW s \in Secrets, RedeemSecret(c, s) PROVE AccountInv'
  <2>1. /\ Working(c, IF secret[s].for = "password-reset" THEN "reset-password" ELSE "verify-email",
                   "take", NoAccount, s)
        /\ UNCHANGED <<account, secret, minted, throttled, signedIn>>
    BY <1>2 DEF RedeemSecret
  <2>2. PICK h \in AccountWork : /\ work' = [work EXCEPT ![c] = h]
                                 /\ h.at = "take" /\ h.op \in {"reset-password", "verify-email"}
    BY <2>1, WorkingCopy, AccountTypes
  <2>3. WorkFits(h)'
    BY <2>2 DEF WorkFits
  <2> QED BY <2>1, <2>2, <2>3, WorkMoves, AccountTypes
<1>3. CASE takeSecret(c)
  <2>1. /\ g.at = "take" /\ WorkStep(c, "load") /\ UNCHANGED <<account, minted, throttled, signedIn>>
        /\ secret' = [secret EXCEPT ![g.secret] = Unminted]
    BY <1>1, <1>3 DEF takeSecret
  <2>2. PICK h \in AccountWork : work' = [work EXCEPT ![c] = h] /\ h.at = "load" /\ h.op = g.op
    BY <1>1, <2>1, WorkStepCopy
  <2>3. WorkFits(h)'
    BY <1>1, <2>1, <2>2 DEF WorkFits
  <2>4. secret' \in [Secrets -> [for : Scopes \cup {"none"}, to : Emails \cup {NoEmail}]]
    BY <2>1, AccountTypes DEF Unminted
  <2> QED BY <2>1, <2>2, <2>3, <2>4, WorkMoves, AccountTypes
<1>4. CASE LoadRedeemed(c)
  <2> DEFINE a == IF g.op = "reset-password" THEN [account EXCEPT !.password = TRUE]
                  ELSE [account EXCEPT !.verified = TRUE]
  <2>1. g.at = "load" /\ account.version < MaxVersion /\ UNCHANGED <<account, secret, minted, throttled, signedIn>>
    BY <1>1, <1>4 DEF LoadRedeemed
  <2>2. account \in Account
    BY AccountTypes
  <2>3. g.op \in {"reset-password", "verify-email"}
    BY <1>1, <2>1 DEF WorkFits
  <2>4. /\ a \in Account /\ a.version = account.version /\ a.email = account.email /\ a.phone = account.phone
        /\ a.providers = account.providers /\ a.suspended = account.suspended /\ a.moderator = account.moderator
        /\ g.op = "reset-password" => a.verified = account.verified
        /\ g.op = "verify-email" => a.password = account.password
    <3>1. CASE g.op = "reset-password"
      <4>1. a = [account EXCEPT !.password = TRUE]
        BY <3>1
      <4> HIDE DEF a
      <4> QED BY <2>2, <3>1, <4>1 DEF Account
    <3>2. CASE g.op = "verify-email"
      <4>1. a = [account EXCEPT !.verified = TRUE]
        BY <3>2
      <4> HIDE DEF a
      <4> QED BY <2>2, <3>2, <4>1 DEF Account
    <3> QED BY <2>3, <3>1, <3>2
  <2>5. PICK h : h = [g EXCEPT !.at = "save", !.row = a] /\ work' = [work EXCEPT ![c] = h]
    BY <1>1, <1>4, AccountTypes DEF LoadRedeemed
  <2> HIDE DEF a
  <2>6. h \in AccountWork /\ h.at = "save" /\ h.op = g.op /\ h.row = a
    BY <2>4, <2>5 DEF AccountWork
  <2>7. OnlyItsPart(a, g.op)
    BY <2>3, <2>4, Columns DEF OnlyItsPart, Touches
  <2>8. account.version \in Int /\ g.op \in Saves
    BY <2>2, <2>3 DEF Account, Saves
  <2>9. account' = account /\ secret' = secret /\ minted' = minted /\ throttled' = throttled
        /\ signedIn' = signedIn
    BY <2>1
  <2>10. WorkFits(h)
    BY <2>1, <2>4, <2>6, <2>7, <2>8 DEF WorkFits
  <2>11. WorkFits(h)'
    BY <2>9, <2>10 DEF WorkFits, OnlyItsPart
  <2> QED BY <2>5, <2>6, <2>9, <2>11, WorkMoves, AccountTypes
<1> QED BY <1>2, <1>3, <1>4

\* Every step on the account keeps the invariant.
LEMMA AccountInvKept == AccountInv /\ [AccountNext]_accountVars => AccountInv'
<1> SUFFICES ASSUME AccountInv, [AccountNext]_accountVars PROVE AccountInv'
  OBVIOUS
<1>1. CASE UNCHANGED accountVars
  BY <1>1, NoWorkMoves, AccountTypes DEF accountVars
<1>2. ASSUME NEW c \in AccountCallers, SaveAccount(c) PROVE AccountInv'
  BY <1>2, SaveAccountKeeps
<1>3. ASSUME NEW c \in AccountCallers, NEW e \in Emails \cup {NoEmail}, Register(c, e) PROVE AccountInv'
  BY <1>3, SignUps
<1>4. ASSUME NEW c \in AccountCallers, NEW e \in Emails \cup {NoEmail},
             \E p \in Providers, v \in BOOLEAN : LoginOAuth(c, p, e, v)
      PROVE  AccountInv'
  BY <1>4, SignUps
<1>5. ASSUME NEW c \in AccountCallers, NEW e \in Emails \cup {NoEmail}, \E ph \in BOOLEAN : UpdateMe(c, e, ph)
      PROVE  AccountInv'
  BY <1>5, WritersKeep
<1>6. ASSUME NEW e \in Emails, AdminCreateModerator(e) PROVE AccountInv'
  <2>1. /\ ~Exists /\ account' = [NewAccount(e) EXCEPT !.moderator = TRUE]
        /\ UNCHANGED <<secret, minted, throttled, signedIn, work>>
    BY <1>6 DEF AdminCreateModerator
  <2>2. account' \in Account /\ account'.version = account.version + 1 /\ AlwaysAWayIn'
    BY <2>1, AccountBegins
  <2> QED BY <2>1, <2>2, NoWorkMoves, AccountTypes
<1>7. ASSUME NEW kind \in Scopes, ThrottleLapses(kind) PROVE AccountInv'
  <2>1. throttled' \subseteq Scopes /\ UNCHANGED <<account, secret, minted, signedIn, work>>
    BY <1>7, AccountTypes DEF ThrottleLapses
  <2> QED BY <2>1, NoWorkMoves, AccountTypes
<1>8. ASSUME NEW s \in Secrets, SecretExpires(s) PROVE AccountInv'
  <2>1. secret' = [secret EXCEPT ![s] = Unminted] /\ UNCHANGED <<account, minted, throttled, signedIn, work>>
    BY <1>8 DEF SecretExpires
  <2>2. secret' \in [Secrets -> [for : Scopes \cup {"none"}, to : Emails \cup {NoEmail}]]
    BY <2>1, AccountTypes DEF Unminted
  <2> QED BY <2>1, <2>2, NoWorkMoves, AccountTypes
<1>9. ASSUME NEW c \in AccountCallers,
             \/ DropSessions(c) \/ OpenSession(c) \/ Login(c) \/ Throttle(c) \/ AccountCrash(c)
             \/ \E s \in Secrets : putSecret(c, s)
             \/ \E kind \in Scopes : RequestSecret(c, kind)
      PROVE  AccountInv'
  BY <1>9, LightRequests
<1>10. ASSUME NEW c \in AccountCallers,
              takeSecret(c) \/ LoadRedeemed(c) \/ \E s \in Secrets : RedeemSecret(c, s)
       PROVE  AccountInv'
  BY <1>10, RedeemKeeps
<1>11. ASSUME NEW c \in AccountCallers,
              \/ ChangePassword(c) \/ AdminSuspendAccount(c) \/ AdminLiftSuspension(c)
              \/ AdminRevokeModerator(c) \/ \E p \in Providers : UnlinkOAuthIdentity(c, p)
       PROVE  AccountInv'
  BY <1>11, WritersKeep
<1> QED BY <1>1, <1>2, <1>3, <1>4, <1>5, <1>6, <1>7, <1>8, <1>9, <1>10, <1>11 DEF AccountNext

\* There is no account yet.
LEMMA AccountInvFirst == AccountInit => AccountInv
<1> SUFFICES ASSUME AccountInit PROVE AccountInv
  OBVIOUS
<1>1. NoAccount \in Account /\ NoAccount.version = 0
  BY AccountAssumption DEF NoAccount, Account
<1>2. NoWork \in AccountWork /\ NoWork.at = "idle"
  BY <1>1 DEF NoWork, AccountWork
<1>3. account \in Account /\ account.version = 0 /\ work \in [AccountCallers -> AccountWork]
  BY <1>1, <1>2 DEF AccountInit
<1>4. secret \in [Secrets -> [for : Scopes \cup {"none"}, to : Emails \cup {NoEmail}]]
  BY DEF AccountInit, Unminted
<1>5. minted \subseteq Secrets /\ throttled \subseteq Scopes /\ signedIn \in BOOLEAN
  BY DEF AccountInit
<1>6. AccountTypeOK
  BY <1>3, <1>4, <1>5 DEF AccountTypeOK, AccountWork
<1>7. AlwaysAWayIn
  BY <1>3 DEF AlwaysAWayIn, Exists
<1>8. \A c \in AccountCallers : work[c].at = "idle"
  BY <1>2 DEF AccountInit
<1> QED BY <1>6, <1>7, <1>8 DEF AccountInv, WorkFits

\* The row changes as a request is about, or when it is first written; whoever
\* writes it then had no copy to save.
LEMMA SavesItsPart == AccountInv /\ [AccountNext]_accountVars => WritesOnlyItsPart
<1> SUFFICES ASSUME AccountInv, [AccountNext]_accountVars, NEW c \in AccountCallers,
                    work[c].at = "save", work'[c] # work[c], account' # account, NEW f \in DOMAIN Touches
             PROVE  account'[f] # account[f] => work[c].op \in Touches[f]
  BY DEF WritesOnlyItsPart
<1>1. PICK g \in AccountWork : g = work[c] /\ WorkFits(g)
  BY AccountTypes DEF AccountInv
<1>2. g.op \in Saves /\ g.op # "none" /\ work \in [AccountCallers -> AccountWork]
  BY <1>1, AccountTypes DEF WorkFits, Saves
<1>3. ASSUME NEW b \in AccountCallers, \E h : work' = [work EXCEPT ![b] = h] PROVE b = c
  BY <1>2, <1>3
<1>4. \A b \in AccountCallers : ~(Idling(b) /\ \E h : work' = [work EXCEPT ![b] = h])
  BY <1>1, <1>2, <1>3 DEF Idling
<1>5. ASSUME NEW b \in AccountCallers, SaveAccount(b)
      PROVE  account'[f] # account[f] => g.op \in Touches[f]
  <2>1. \E h : work' = [work EXCEPT ![b] = h]
    BY <1>5 DEF SaveAccount, WorkOn, WorkDone
  <2>2. b = c
    BY <1>3, <2>1
  <2>3. g.row.version = account.version /\ account' = [g.row EXCEPT !.version = account.version + 1]
    BY <1>1, <1>5, <2>2 DEF SaveAccount, SaveLands
  <2>4. OnlyItsPart(g.row, g.op)
    BY <1>1, <2>3 DEF WorkFits
  <2>5. g.row \in Account /\ account \in Account
    BY AccountTypes DEF AccountWork
  <2>6. account'[f] = g.row[f]
    BY <2>3, <2>5, Columns DEF Account
  <2> QED BY <2>4, <2>6 DEF OnlyItsPart
<1>6. ASSUME NEW b \in AccountCallers, NEW e \in Emails \cup {NoEmail},
             Register(b, e) \/ \E p \in Providers, v \in BOOLEAN : LoginOAuth(b, p, e, v)
      PROVE  FALSE
  BY <1>4, <1>6 DEF Register, LoginOAuth, Writing, Working
<1>7. ASSUME NEW e \in Emails, AdminCreateModerator(e) PROVE FALSE
  BY <1>7 DEF AdminCreateModerator
<1>8. ASSUME NEW b \in AccountCallers, NEW op, NEW a, Writing(b, op, a) PROVE FALSE
  BY <1>8 DEF Writing
<1>9. ASSUME NEW b \in AccountCallers,
             \/ DropSessions(b) \/ OpenSession(b) \/ Login(b) \/ Throttle(b) \/ AccountCrash(b)
             \/ \E s \in Secrets : putSecret(b, s) \/ RedeemSecret(b, s)
             \/ \E kind \in Scopes : RequestSecret(b, kind)
             \/ takeSecret(b) \/ LoadRedeemed(b)
      PROVE  FALSE
  BY <1>9 DEF DropSessions, OpenSession, Login, Throttle, AccountCrash, putSecret, RedeemSecret,
              RequestSecret, takeSecret, LoadRedeemed
<1>10. ASSUME NEW b \in AccountCallers,
              \/ ChangePassword(b) \/ AdminSuspendAccount(b) \/ AdminLiftSuspension(b)
              \/ AdminRevokeModerator(b) \/ \E p \in Providers : UnlinkOAuthIdentity(b, p)
              \/ \E e \in Emails \cup {NoEmail}, ph \in BOOLEAN : UpdateMe(b, e, ph)
       PROVE  FALSE
  BY <1>8, <1>10 DEF ChangePassword, AdminSuspendAccount, AdminLiftSuspension, AdminRevokeModerator,
                     UnlinkOAuthIdentity, UpdateMe
<1>11. ASSUME NEW x, ThrottleLapses(x) \/ SecretExpires(x) PROVE FALSE
  BY <1>11 DEF ThrottleLapses, SecretExpires
<1>12. account'[f] # account[f] => g.op \in Touches[f]
  <2> DEFINE Goal == account'[f] # account[f] => g.op \in Touches[f]
  <2>1. ASSUME NEW b \in AccountCallers, SaveAccount(b) PROVE Goal
    BY <1>5, <2>1
  <2>2. ASSUME NEW b \in AccountCallers, NEW e \in Emails \cup {NoEmail}, Register(b, e) PROVE Goal
    BY <1>6, <2>2
  <2>3. ASSUME NEW b \in AccountCallers, NEW e \in Emails \cup {NoEmail},
               \E p \in Providers, v \in BOOLEAN : LoginOAuth(b, p, e, v)
        PROVE  Goal
    BY <1>6, <2>3
  <2>4. ASSUME NEW b \in AccountCallers, NEW e \in Emails \cup {NoEmail}, \E ph \in BOOLEAN : UpdateMe(b, e, ph)
        PROVE  Goal
    BY <1>10, <2>4
  <2>5. ASSUME NEW e \in Emails, AdminCreateModerator(e) PROVE Goal
    BY <1>7, <2>5
  <2>6. ASSUME NEW kind \in Scopes, ThrottleLapses(kind) PROVE Goal
    BY <1>11, <2>6
  <2>7. ASSUME NEW s \in Secrets, SecretExpires(s) PROVE Goal
    BY <1>11, <2>7
  <2>8. ASSUME UNCHANGED accountVars PROVE Goal
    BY <2>8 DEF accountVars
  <2>9. ASSUME NEW b \in AccountCallers,
               \/ DropSessions(b) \/ OpenSession(b) \/ Login(b) \/ Throttle(b) \/ AccountCrash(b)
               \/ \E s \in Secrets : putSecret(b, s) \/ RedeemSecret(b, s)
               \/ \E kind \in Scopes : RequestSecret(b, kind)
               \/ takeSecret(b) \/ LoadRedeemed(b)
        PROVE  Goal
    BY <1>9, <2>9
  <2>10. ASSUME NEW b \in AccountCallers,
                \/ ChangePassword(b) \/ AdminSuspendAccount(b) \/ AdminLiftSuspension(b)
                \/ AdminRevokeModerator(b) \/ \E p \in Providers : UnlinkOAuthIdentity(b, p)
         PROVE  Goal
    BY <1>10, <2>10
  <2> HIDE DEF Goal
  <2>11. ASSUME AccountNext PROVE Goal
    BY <2>1, <2>2, <2>3, <2>4, <2>5, <2>6, <2>7, <2>9, <2>10, <2>11, ZenonT(60) DEF AccountNext
  <2>12. Goal
    BY <2>8, <2>11
  <2> QED BY <2>12 DEF Goal
<1> QED BY <1>1, <1>12

\* While the account's part runs, its invariant holds.
LEMMA AccountPart == Spec => [](part = "accounts" => AccountInv)
<1>1. Init => (part = "accounts" => AccountInv)
  BY AccountInvFirst DEF Init
<1>2. (part = "accounts" => AccountInv) /\ [Next]_platformVars => (part = "accounts" => AccountInv)'
  BY PartRuns, AccountInvKept
<1> QED BY <1>1, <1>2, PTL DEF Spec

\* Whatever requests overlap on one account, it can be named and signed in to, and
\* a write of the whole row changes what its request is about alone.
THEOREM AccountsStaySound == Spec => AccountsHold
<1>1. (part = "accounts" => AccountInv) => (part = "accounts" => AccountTypeOK /\ AlwaysAWayIn)
  BY DEF AccountInv
<1>2. (part = "accounts" => AccountInv) /\ [Next]_platformVars
      => [part = "accounts" => WritesOnlyItsPart]_platformVars
  BY PartRuns, SavesItsPart
<1> QED BY <1>1, <1>2, AccountPart, PTL DEF Spec, AccountsHold
-----------------------------------------------------------------------------
(* Identity verification *)

IdentityInv == IdentityTypeOK /\ OneVerifiedIdentity

Check == [op : {"none", "start", "read", "decide"}, id : Documents \cup {NoDocument}, row : Document]
Told == {"nothing", "done", "already-verified", "already-decided", "refused"}

\* The variables of the identity checks, by their kinds, and what no request is.
LEMMA IdentityTypes ==
  /\ IdentityTypeOK <=> /\ document \in [Documents -> Document]
                        /\ checking \in [IdentityCallers -> Check]
                        /\ answered \in [IdentityCallers -> Told]
  /\ IdentityTypeOK' <=> /\ document' \in [Documents -> Document]
                         /\ checking' \in [IdentityCallers -> Check]
                         /\ answered' \in [IdentityCallers -> Told]
  /\ NotFiled \in Document /\ NotFiled.status = "none"
  /\ NoCheck \in Check
<1>1. NotFiled \in Document /\ NotFiled.status = "none"
  BY DEF NotFiled, Document, DocTypes
<1> QED BY <1>1 DEF IdentityTypeOK, Check, Told, NoCheck

\* A request that is answered, or goes on with a row, keeps the kinds of both.
LEMMA AnswersKeepKinds ==
  ASSUME IdentityTypeOK, NEW c \in IdentityCallers
  PROVE  /\ \A a \in Told : Answer(c, a) => /\ checking' \in [IdentityCallers -> Check]
                                            /\ answered' \in [IdentityCallers -> Told]
         /\ \A op \in {"start", "read", "decide"}, d \in Documents \cup {NoDocument}, row \in Document :
              Checking(c, op, d, row) => /\ checking' \in [IdentityCallers -> Check]
                                         /\ answered' \in [IdentityCallers -> Told]
<1>1. checking \in [IdentityCallers -> Check] /\ answered \in [IdentityCallers -> Told] /\ NoCheck \in Check
  BY IdentityTypes
<1>2. ASSUME NEW a \in Told, Answer(c, a)
      PROVE  checking' \in [IdentityCallers -> Check] /\ answered' \in [IdentityCallers -> Told]
  BY <1>1, <1>2 DEF Answer
<1>3. ASSUME NEW op \in {"start", "read", "decide"}, NEW d \in Documents \cup {NoDocument}, NEW row \in Document,
             Checking(c, op, d, row)
      PROVE  checking' \in [IdentityCallers -> Check] /\ answered' \in [IdentityCallers -> Told]
  <2>1. [op |-> op, id |-> d, row |-> row] \in Check
    BY DEF Check
  <2> QED BY <1>1, <1>3, <2>1 DEF Checking, Told
<1> QED BY <1>2, <1>3

\* The verdicts give documents.
LEMMA VerdictRows ==
  /\ \A row \in Document, x \in BOOLEAN : Verify(row, x) \in Document
  /\ \A row \in Document : Reject(row) \in Document
  /\ \A type \in DocTypes : NewIdentityDocument(type) \in Document
BY IdentityTypes DEF Verify, Reject, NewIdentityDocument, Document

\* What a step may write to the documents: a row not filed yet or still pending
\* takes a row the index admits, or a document runs out.
RowWritten(d, row) == /\ document[d].status \in {"none", "pending"} /\ row \in Document
                   /\ ~VerifiedTaken(d, row) /\ document' = [document EXCEPT ![d] = row]
DocumentsStep ==
  \/ UNCHANGED document
  \/ \E d \in Documents, row \in Document : RowWritten(d, row)
  \/ \E d \in Documents : RunOut(d)

\* Every step of a request and of the calendar is one of those.
LEMMA IdentityStep ==
  ASSUME IdentityTypeOK, [IdentityNext]_identityVars
  PROVE  /\ checking' \in [IdentityCallers -> Check]
         /\ answered' \in [IdentityCallers -> Told]
         /\ DocumentsStep
<1> DEFINE Kinds == checking' \in [IdentityCallers -> Check] /\ answered' \in [IdentityCallers -> Told]
<1>1. /\ document \in [Documents -> Document] /\ checking \in [IdentityCallers -> Check]
      /\ answered \in [IdentityCallers -> Told]
  BY IdentityTypes
<1>2. CASE UNCHANGED identityVars
  BY <1>1, <1>2 DEF identityVars, DocumentsStep
<1>3. ASSUME NEW c \in IdentityCallers, NEW x \in BOOLEAN, NEW type \in DocTypes,
             NEW v \in {"pending", "verified", "rejected"}, StartIdentityVerification(c, type, v, x)
      PROVE  Kinds /\ DocumentsStep
  <2>1. NewIdentityDocument(type) \in Document
    BY VerdictRows
  <2>2. Verify(NewIdentityDocument(type), x) \in Document /\ Reject(NewIdentityDocument(type)) \in Document
    BY <2>1, VerdictRows
  <2> QED BY <1>3, <2>1, <2>2, AnswersKeepKinds DEF StartIdentityVerification, DocumentsStep, Told
<1>4. ASSUME NEW c \in IdentityCallers, NEW x \in BOOLEAN, NEW v \in {"verified", "rejected"},
             AdminRecordIdentityVerdict(c, v, x)
      PROVE  Kinds /\ DocumentsStep
  <2>1. checking[c].row \in Document /\ checking[c].id \in Documents \cup {NoDocument}
    BY <1>1 DEF Check
  <2>2. Verify(checking[c].row, x) \in Document /\ Reject(checking[c].row) \in Document
    BY <2>1, VerdictRows
  <2> QED BY <1>4, <2>1, <2>2, AnswersKeepKinds DEF AdminRecordIdentityVerdict, DocumentsStep, Told
<1>5. ASSUME NEW c \in IdentityCallers, NEW d \in Documents, InsertIdentityDocument(c, d)
      PROVE  Kinds /\ DocumentsStep
  <2>1. checking[c].row \in Document
    BY <1>1 DEF Check
  <2>2. Kinds
    BY <1>5, AnswersKeepKinds DEF InsertIdentityDocument, Told
  <2>3. UNCHANGED document \/ RowWritten(d, checking[c].row)
    BY <1>5, <2>1, IdentityTypes DEF InsertIdentityDocument, RowWritten
  <2> QED BY <2>1, <2>2, <2>3 DEF DocumentsStep
<1>6. ASSUME NEW c \in IdentityCallers, NEW d \in Documents, FindIdentityDocument(c, d)
      PROVE  Kinds /\ DocumentsStep
  BY <1>1, <1>6, AnswersKeepKinds DEF FindIdentityDocument, DocumentsStep
<1>7. ASSUME NEW c \in IdentityCallers, UpdateIdentityVerdict(c) PROVE Kinds /\ DocumentsStep
  <2>1. checking[c].row \in Document /\ checking[c].id \in Documents \cup {NoDocument}
    BY <1>1 DEF Check
  <2>2. Kinds
    BY <1>7, AnswersKeepKinds DEF UpdateIdentityVerdict, Told
  <2>3. UNCHANGED document \/ RowWritten(checking[c].id, checking[c].row)
    BY <1>7, <2>1 DEF UpdateIdentityVerdict, RowWritten, VerdictLands
  <2>4. checking[c].id = NoDocument /\ RowWritten(checking[c].id, checking[c].row) => UNCHANGED document
    BY <1>1, IdentityAssumption DEF RowWritten
  <2> QED BY <2>1, <2>2, <2>3, <2>4 DEF DocumentsStep
<1>8. ASSUME NEW c \in IdentityCallers, ScanUnavailable(c) \/ AbandonCheck(c) PROVE Kinds /\ DocumentsStep
  BY <1>8, AnswersKeepKinds DEF ScanUnavailable, AbandonCheck, DocumentsStep, Told
<1>9. ASSUME NEW d \in Documents, RunOut(d) PROVE Kinds /\ DocumentsStep
  BY <1>1, <1>9 DEF RunOut, DocumentsStep
<1> HIDE DEF Kinds
<1>10. Kinds /\ DocumentsStep
  BY <1>2, <1>3, <1>4, <1>5, <1>6, <1>7, <1>8, <1>9 DEF IdentityNext, Kinds
<1> QED BY <1>10 DEF Kinds

\* One document at most proves the account after the step as before it.
LEMMA IdentityInvKept == IdentityInv /\ [IdentityNext]_identityVars => IdentityInv'
<1> SUFFICES ASSUME IdentityInv, [IdentityNext]_identityVars PROVE IdentityInv'
  OBVIOUS
<1>1. IdentityTypeOK /\ document \in [Documents -> Document]
  BY IdentityTypes DEF IdentityInv
<1>2. /\ checking' \in [IdentityCallers -> Check] /\ answered' \in [IdentityCallers -> Told]
      /\ DocumentsStep
  BY <1>1, IdentityStep
<1>3. CASE UNCHANGED document
  BY <1>1, <1>2, <1>3, IdentityTypes DEF IdentityInv, OneVerifiedIdentity
<1>4. ASSUME NEW d \in Documents, NEW row \in Document, RowWritten(d, row) PROVE IdentityInv'
  <2>1. document' \in [Documents -> Document] /\ \A e \in Documents : document'[e] = IF e = d THEN row ELSE document[e]
    BY <1>1, <1>4 DEF RowWritten
  <2>2. OneVerifiedIdentity'
    BY <1>4, <2>1 DEF RowWritten, VerifiedTaken, OneVerifiedIdentity, IdentityInv
  <2> QED BY <1>2, <2>1, <2>2, IdentityTypes DEF IdentityInv
<1>5. ASSUME NEW d \in Documents, RunOut(d) PROVE IdentityInv'
  <2>1. document' \in [Documents -> Document] /\ \A e \in Documents : document'[e].status = document[e].status
    BY <1>1, <1>5 DEF RunOut, Document
  <2>2. OneVerifiedIdentity'
    BY <2>1 DEF OneVerifiedIdentity, IdentityInv
  <2> QED BY <1>2, <2>1, <2>2, IdentityTypes DEF IdentityInv
<1> QED BY <1>2, <1>3, <1>4, <1>5 DEF DocumentsStep

\* A verdict is written over a pending row alone.
LEMMA VerdictsStand == IdentityInv /\ [IdentityNext]_identityVars => VerdictStands
<1> SUFFICES ASSUME IdentityInv, [IdentityNext]_identityVars,
                    NEW d \in Documents, document[d].status \in {"verified", "rejected"}
             PROVE  document'[d] = [document[d] EXCEPT !.ranOut = document'[d].ranOut]
  BY DEF VerdictStands
<1>1. IdentityTypeOK /\ document \in [Documents -> Document] /\ document[d] \in Document
  BY IdentityTypes DEF IdentityInv
<1>2. DocumentsStep
  BY <1>1, IdentityStep
<1>3. document[d] = [document[d] EXCEPT !.ranOut = document[d].ranOut]
  BY <1>1 DEF Document
<1>4. ASSUME NEW e \in Documents, NEW row \in Document, RowWritten(e, row) PROVE document'[d] = document[d]
  BY <1>1, <1>4 DEF RowWritten
<1>5. ASSUME NEW e \in Documents, RunOut(e)
      PROVE  document'[d] = document[d] \/ document'[d] = [document[d] EXCEPT !.ranOut = TRUE]
  BY <1>1, <1>5 DEF RunOut
<1>6. document'[d] = document[d] \/ document'[d] = [document[d] EXCEPT !.ranOut = TRUE]
  BY <1>2, <1>4, <1>5 DEF DocumentsStep
<1>7. CASE document'[d] = [document[d] EXCEPT !.ranOut = TRUE]
  BY <1>1, <1>7 DEF Document
<1> QED BY <1>3, <1>6, <1>7

\* No document is filed yet.
LEMMA IdentityInvFirst == IdentityInit => IdentityInv
<1> SUFFICES ASSUME IdentityInit PROVE IdentityInv
  OBVIOUS
<1>1. IdentityTypeOK
  BY IdentityTypes DEF IdentityInit, Told
<1>2. \A d \in Documents : document[d].status = "none"
  BY IdentityTypes DEF IdentityInit
<1> QED BY <1>1, <1>2 DEF IdentityInv, OneVerifiedIdentity

\* Checks that overlap never verify two documents of an account, and a verdict
\* stands whoever read the document while it was pending.
THEOREM IdentitiesStaySound == Spec => IdentityHolds
<1>1. Init => (part = "identity" => IdentityInv)
  BY IdentityInvFirst DEF Init
<1>2. (part = "identity" => IdentityInv) /\ [Next]_platformVars => (part = "identity" => IdentityInv)'
  BY PartRuns, IdentityInvKept
<1>3. (part = "identity" => IdentityInv) => (part = "identity" => IdentityTypeOK /\ OneVerifiedIdentity)
  BY DEF IdentityInv
<1>4. (part = "identity" => IdentityInv) /\ [Next]_platformVars
      => [part = "identity" => VerdictStands]_platformVars
  BY PartRuns, VerdictsStand
<1> QED BY <1>1, <1>2, <1>3, <1>4, PTL DEF Spec, IdentityHolds
-----------------------------------------------------------------------------
(* Contacts *)

Edit == [op : {"none", "create", "update", "send", "store", "match", "drop", "verify"},
         id : Contacts \cup {NoContact}, row : Contact, seen : Phones \cup {NoPhone},
         looked : SUBSET Roles, due : SUBSET (Contacts \X Roles), cleared : SUBSET (Contacts \X Roles),
         raced : BOOLEAN]

\* A request carries a number, past the creation names a row, and has looked for
\* holders only if it writes.
EditFits(g) == /\ g.op # "none" => g.row.phone \in Phones
               /\ g.op \in {"none", "create"} => g.id = NoContact
               /\ g.op \notin {"none", "create"} => g.id \in Contacts
               /\ g.op \notin {"create", "update", "verify"} => g.looked = {}

\* Whoever holds a role of the table t that a transaction has looked for was found by it,
\* unless it took the role since.
Accounted(g, t) ==
  \A r \in g.looked, e \in Contacts :
    r \in t[e].defaults /\ e # g.id => <<e, r>> \in g.due \cup g.cleared \/ g.raced

\* The two indexes hold of the table itself, whatever copies the requests carry, and no
\* running transaction has missed a holder it was not raced by.
ContactInv ==
  /\ ContactTypeOK /\ OneHolderPerRole(contact)
  /\ \A k \in Contacts : ContactSaved(k) => contact[k].phone \in Phones
  /\ \A c \in ContactCallers : EditFits(editing[c]) /\ Accounted(editing[c], contact)

\* The variables of the contacts, by their kinds, and the rows a request builds.
LEMMA ContactTypes ==
  /\ ContactTypeOK <=> /\ contact \in [Contacts -> Contact] /\ phoneCode \in [Contacts -> Phones \cup {NoPhone}]
                       /\ codeHeld \subseteq Phones /\ editing \in [ContactCallers -> Edit]
                       /\ writes \in 0 .. MaxContactWrites
  /\ ContactTypeOK' <=> /\ contact' \in [Contacts -> Contact] /\ phoneCode' \in [Contacts -> Phones \cup {NoPhone}]
                        /\ codeHeld' \subseteq Phones /\ editing' \in [ContactCallers -> Edit]
                        /\ writes' \in 0 .. MaxContactWrites
  /\ NoRowYet \in Contact /\ NoRowYet.defaults = {} /\ NotEditing \in Edit /\ NotEditing.op = "none"
  /\ \A p \in Phones, roles \in SUBSET Roles :
       /\ [phone |-> p, verified |-> FALSE, defaults |-> roles] \in Contact
       /\ \A row \in Contact : /\ [SetPhone(row, p) EXCEPT !.defaults = roles] \in Contact
                               /\ [SetPhone(row, p) EXCEPT !.defaults = roles].phone = p
<1>1. NoRowYet \in Contact /\ NoRowYet.defaults = {} /\ NotEditing \in Edit /\ NotEditing.op = "none"
  BY DEF NoRowYet, Contact, NotEditing, Edit
<1>2. ASSUME NEW p \in Phones, NEW roles \in SUBSET Roles, NEW row \in Contact
      PROVE  /\ [SetPhone(row, p) EXCEPT !.defaults = roles] \in Contact
             /\ [SetPhone(row, p) EXCEPT !.defaults = roles].phone = p
  <2>1. SetPhone(row, p) \in Contact /\ SetPhone(row, p).phone = p
    BY DEF SetPhone, Contact
  <2> QED BY <2>1 DEF Contact
<1> QED BY <1>1, <1>2 DEF ContactTypeOK, Edit, Contact

\* The table a write would leave: its own row, and of every other row the roles that
\* were not cleared from it.
LEMMA ClearedTable ==
  ASSUME contact \in [Contacts -> Contact], NEW c \in ContactCallers, NEW k \in Contacts, editing[c].row \in Contact
  PROVE  /\ RowsAfter(c, k) \in [Contacts -> Contact]
         /\ RowsAfter(c, k)[k] = editing[c].row
         /\ \A e \in Contacts : e # k =>
              /\ RowsAfter(c, k)[e].defaults = {r \in contact[e].defaults : <<e, r>> \notin editing[c].cleared}
              /\ RowsAfter(c, k)[e].phone = contact[e].phone
              /\ RowsAfter(c, k)[e].verified = contact[e].verified
<1> DEFINE after(e) == [contact[e] EXCEPT !.defaults = {r \in @ : <<e, r>> \notin editing[c].cleared}]
<1>1. \A e \in Contacts : /\ after(e) \in Contact
                          /\ after(e).defaults = {r \in contact[e].defaults : <<e, r>> \notin editing[c].cleared}
                          /\ after(e).phone = contact[e].phone /\ after(e).verified = contact[e].verified
  BY DEF Contact
<1>2. clearDefaults(c) = [e \in Contacts |-> after(e)]
  BY DEF clearDefaults
<1> HIDE DEF after
<1> QED BY <1>1, <1>2 DEF RowsAfter

\* A transaction nobody raced has cleared every holder of the roles it claims by the
\* time it writes: the indexes do not refuse it.
LEMMA DefaultsMove == ContactInv => DefaultMoves
<1> SUFFICES ASSUME ContactInv, NEW c \in ContactCallers, NEW k \in Contacts,
                    MayWrite(c, k), ~editing[c].raced
             PROVE  OneHolderPerRole(RowsAfter(c, k))
  BY DEF DefaultMoves, ContactInv
<1>1. PICK g \in Edit : g = editing[c] /\ EditFits(g) /\ Accounted(g, contact)
  BY ContactTypes DEF ContactInv
<1>2. g.row \in Contact /\ contact \in [Contacts -> Contact] /\ OneHolderPerRole(contact)
  BY ContactTypes DEF ContactInv, Edit
<1>3. g.due = {} /\ g.row.defaults \subseteq g.looked /\ ~g.raced
  BY <1>1 DEF MayWrite
<1>4. g.id = k \/ g.id = NoContact
  BY <1>1 DEF MayWrite, EditWrites, EditFits
<1> DEFINE table == RowsAfter(c, k)
<1>5. /\ table[k] = g.row
      /\ \A e \in Contacts : e # k => table[e].defaults = {r \in contact[e].defaults : <<e, r>> \notin g.cleared}
  BY <1>1, <1>2, ClearedTable
<1> HIDE DEF table
<1>6. ASSUME NEW r \in Roles, NEW e \in Contacts, e # k, r \in g.row.defaults PROVE r \notin table[e].defaults
  <2>1. e # g.id
    BY <1>4, <1>6, ContactAssumption
  <2>2. r \in contact[e].defaults => <<e, r>> \in g.cleared
    BY <1>1, <1>3, <1>6, <2>1 DEF Accounted
  <2> QED BY <1>5, <1>6, <2>2
<1>7. ASSUME NEW r \in Roles, NEW d \in Contacts, NEW e \in Contacts, r \in table[d].defaults \cap table[e].defaults
      PROVE  d = e
  <2>1. CASE d # k /\ e # k
    BY <1>2, <1>5, <1>7, <2>1 DEF OneHolderPerRole
  <2>2. CASE d = k \/ e = k
    BY <1>5, <1>6, <1>7, <2>2
  <2> QED BY <2>1, <2>2
<1> QED BY <1>7 DEF OneHolderPerRole, table

\* A request that leaves the table alone.
LEMMA EditMoves ==
  ASSUME ContactInv, UNCHANGED <<contact, writes>>, NEW c \in ContactCallers, NEW h \in Edit, EditFits(h),
         Accounted(h, contact), editing' = [editing EXCEPT ![c] = h],
         phoneCode' \in [Contacts -> Phones \cup {NoPhone}], codeHeld' \subseteq Phones
  PROVE  ContactInv'
<1>1. editing' \in [ContactCallers -> Edit]
  BY ContactTypes DEF ContactInv
<1>2. ContactTypeOK'
  BY <1>1, ContactTypes DEF ContactInv
<1>3. \A b \in ContactCallers : editing'[b] = h \/ editing'[b] = editing[b]
  BY ContactTypes DEF ContactInv
<1>4. \A b \in ContactCallers : EditFits(editing'[b]) /\ Accounted(editing'[b], contact')
  BY <1>3 DEF ContactInv
<1>5. OneHolderPerRole(contact)' /\ \A k \in Contacts : ContactSaved(k)' => contact'[k].phone \in Phones
  BY DEF ContactInv, OneHolderPerRole, ContactSaved
<1> QED BY <1>2, <1>4, <1>5 DEF ContactInv, EditFits, Accounted

\* A clearing statement takes its snapshot, or clears one of the rows it found.
LEMMA ClearingKeeps ==
  ASSUME ContactInv, NEW c \in ContactCallers, NEW r \in Roles,
         LookForHolders(c, r) \/ \E e \in Contacts : ClearHolder(c, e, r)
  PROVE  ContactInv'
<1>1. /\ contact \in [Contacts -> Contact] /\ phoneCode \in [Contacts -> Phones \cup {NoPhone}]
      /\ codeHeld \subseteq Phones /\ editing \in [ContactCallers -> Edit]
  BY ContactTypes DEF ContactInv
<1>2. PICK g \in Edit : g = editing[c] /\ EditFits(g) /\ Accounted(g, contact)
  BY <1>1 DEF ContactInv
<1>3. CASE LookForHolders(c, r)
  <2> DEFINE found == {x \in Contacts \X {r} : x[1] # g.id /\ r \in contact[x[1]].defaults}
             h == [g EXCEPT !.looked = @ \cup {r}, !.due = found]
  <2>1. g.due = {} /\ g.op \in {"create", "update", "verify"}
    BY <1>2, <1>3 DEF LookForHolders, EditWrites
  <2>2. editing' = [editing EXCEPT ![c] = h] /\ UNCHANGED <<contact, phoneCode, codeHeld, writes>>
    BY <1>1, <1>2, <1>3 DEF LookForHolders
  <2>3. found \subseteq Contacts \X Roles
    OBVIOUS
  <2>4. \A e \in Contacts : r \in contact[e].defaults /\ e # g.id => <<e, r>> \in found
    OBVIOUS
  <2> HIDE DEF found
  <2>5. h \in Edit /\ EditFits(h) /\ h.looked = g.looked \cup {r} /\ h.due = found /\ h.cleared = g.cleared
        /\ h.raced = g.raced /\ h.id = g.id
    BY <1>2, <2>1, <2>3 DEF Edit, EditFits
  <2>6. Accounted(h, contact)
    BY <1>2, <2>1, <2>4, <2>5 DEF Accounted
  <2> QED BY <1>1, <2>2, <2>5, <2>6, EditMoves
<1>4. ASSUME NEW e \in Contacts, ClearHolder(c, e, r) PROVE ContactInv'
  <2> DEFINE left == g.due \ {<<e, r>>}
             taken == IF ContactSaved(e) THEN g.cleared \cup {<<e, r>>} ELSE g.cleared
             h == [g EXCEPT !.due = left, !.cleared = taken]
  <2>1. editing' = [editing EXCEPT ![c] = h] /\ UNCHANGED <<contact, phoneCode, codeHeld, writes>>
    BY <1>1, <1>2, <1>4 DEF ClearHolder
  <2> HIDE DEF left, taken
  <2>2. left \in SUBSET (Contacts \X Roles) /\ taken \in SUBSET (Contacts \X Roles)
    BY <1>2 DEF Edit, left, taken
  <2>3. /\ h \in Edit /\ EditFits(h) /\ h.looked = g.looked /\ h.due = left /\ h.cleared = taken
        /\ h.raced = g.raced /\ h.id = g.id
    BY <1>2, <2>2 DEF Edit, EditFits
  <2> HIDE DEF h
  <2>4. ~ContactSaved(e) => contact[e].defaults = {}
    BY DEF ContactSaved, NoRowYet
  <2>5. \A q \in g.looked, f \in Contacts :
          <<f, q>> \in g.due \cup g.cleared /\ q \in contact[f].defaults => <<f, q>> \in left \cup taken
    BY <2>4 DEF left, taken
  <2>6. Accounted(h, contact)
    BY <1>2, <2>3, <2>5 DEF Accounted
  <2> QED BY <1>1, <2>1, <2>3, <2>6, EditMoves
<1> QED BY <1>3, <1>4

\* The requests about a contact, one by one.
LEMMA EditsKeep ==
  ASSUME ContactInv, NEW c \in ContactCallers,
         \/ \E p \in Phones, roles \in SUBSET Roles :
              CreateContact(c, p, roles) \/ \E k \in Contacts : UpdateContact(c, k, p, roles)
         \/ \E k \in Contacts : RequestContactPhoneVerification(c, k) \/ VerifyContactPhone(c, k)
         \/ HoldNextCode(c) \/ StorePhoneCode(c) \/ MatchPhoneCode(c) \/ DropPhoneCode(c) \/ AbandonEdit(c)
  PROVE  ContactInv'
<1>1. /\ contact \in [Contacts -> Contact] /\ phoneCode \in [Contacts -> Phones \cup {NoPhone}]
      /\ codeHeld \subseteq Phones /\ editing \in [ContactCallers -> Edit]
      /\ NotEditing \in Edit /\ EditFits(NotEditing) /\ Accounted(NotEditing, contact)
      /\ \A k \in Contacts : ContactSaved(k) => contact[k].phone \in Phones
  BY ContactTypes DEF ContactInv, EditFits, Accounted, NotEditing
<1>2. PICK g \in Edit : g = editing[c] /\ EditFits(g) /\ Accounted(g, contact)
  BY <1>1 DEF ContactInv
<1>3. /\ g.row \in Contact /\ g.row.phone \in Phones \cup {NoPhone} /\ g.id \in Contacts \cup {NoContact}
  BY DEF Edit, Contact
<1>4. ASSUME NEW op \in {"create", "update", "send", "match", "drop"}, NEW k \in Contacts \cup {NoContact},
             NEW row \in Contact, NEW seen \in Phones \cup {NoPhone}, Editing(c, op, k, row, seen),
             row.phone \in Phones, IF op = "create" THEN k = NoContact ELSE k \in Contacts,
             g.op \in {"none", "match"}, UNCHANGED <<contact, phoneCode, codeHeld, writes>>
      PROVE  ContactInv'
  <2> DEFINE h == [g EXCEPT !.op = op, !.id = k, !.row = row, !.seen = seen]
  <2>1. editing' = [editing EXCEPT ![c] = h]
    BY <1>1, <1>2, <1>4 DEF Editing
  <2>2. h \in Edit /\ h.looked = {} /\ h.op = op /\ h.id = k /\ h.row = row
    BY <1>2, <1>4 DEF Edit, EditFits
  <2> HIDE DEF h
  <2>3. EditFits(h) /\ Accounted(h, contact)
    BY <1>4, <2>2 DEF EditFits, Accounted
  <2> QED BY <1>1, <1>4, <2>1, <2>2, <2>3, EditMoves
<1>5. ASSUME NEW p \in Phones, NEW roles \in SUBSET Roles, CreateContact(c, p, roles) PROVE ContactInv'
  BY <1>2, <1>4, <1>5, ContactTypes DEF CreateContact, Free
<1>6. ASSUME NEW p \in Phones, NEW roles \in SUBSET Roles, NEW k \in Contacts, UpdateContact(c, k, p, roles)
      PROVE  ContactInv'
  <2>1. /\ [SetPhone(contact[k], p) EXCEPT !.defaults = roles] \in Contact
        /\ [SetPhone(contact[k], p) EXCEPT !.defaults = roles].phone = p
    BY <1>1, ContactTypes
  <2> QED BY <1>2, <1>4, <1>6, <2>1 DEF UpdateContact, Free
<1>7. ASSUME NEW k \in Contacts, RequestContactPhoneVerification(c, k) \/ VerifyContactPhone(c, k)
      PROVE  ContactInv'
  <2>1. contact[k] \in Contact /\ contact[k].phone \in Phones
    BY <1>1, <1>7 DEF RequestContactPhoneVerification, VerifyContactPhone
  <2> QED BY <1>2, <1>4, <1>7, <2>1 DEF RequestContactPhoneVerification, VerifyContactPhone, Free
<1>8. CASE HoldNextCode(c)
  <2>1. g.row.phone \in Phones /\ g.id \in Contacts
    BY <1>2, <1>8 DEF HoldNextCode, EditFits
  <2>2. codeHeld' \subseteq Phones
    BY <1>1, <1>2, <1>8, <2>1 DEF HoldNextCode
  <2>3. UNCHANGED <<contact, phoneCode, writes>> /\ editing' = [editing EXCEPT ![c] = [g EXCEPT !.op = "store"]]
    BY <1>1, <1>2, <1>8 DEF HoldNextCode, GoOn
  <2>4. /\ [g EXCEPT !.op = "store"] \in Edit /\ EditFits([g EXCEPT !.op = "store"])
        /\ [g EXCEPT !.op = "store"].looked = {}
    BY <1>2, <1>8, <2>1 DEF Edit, EditFits, HoldNextCode
  <2> QED BY <1>1, <2>2, <2>3, <2>4, EditMoves DEF Accounted
<1>9. CASE StorePhoneCode(c)
  <2>1. /\ UNCHANGED <<contact, codeHeld, writes>> /\ editing' = [editing EXCEPT ![c] = NotEditing]
        /\ phoneCode' = [phoneCode EXCEPT ![g.id] = g.row.phone]
    BY <1>2, <1>9 DEF StorePhoneCode, EditEnds
  <2> QED BY <1>1, <1>3, <2>1, EditMoves
<1>10. CASE MatchPhoneCode(c)
  <2>1. g.row.phone \in Phones /\ g.id \in Contacts /\ phoneCode[g.id] \in Phones \cup {NoPhone}
    BY <1>1, <1>2, <1>10 DEF MatchPhoneCode, EditFits
  <2>2. CASE phoneCode[g.id] = NoPhone
    BY <1>1, <1>2, <1>10, <2>2, EditMoves DEF MatchPhoneCode, EditEnds
  <2>3. CASE phoneCode[g.id] # NoPhone
    BY <1>2, <1>3, <1>4, <1>10, <2>1, <2>3 DEF MatchPhoneCode
  <2> QED BY <2>2, <2>3
<1>11. CASE DropPhoneCode(c)
  <2> DEFINE h == [g EXCEPT !.op = "verify", !.row = [g.row EXCEPT !.verified = TRUE]]
  <2>1. h \in Edit /\ EditFits(h) /\ h.looked = {}
    <3>1. g.row.phone \in Phones /\ g.id \in Contacts /\ g.looked = {}
      BY <1>2, <1>11 DEF DropPhoneCode, EditFits
    <3> QED BY <1>3, <3>1 DEF Edit, Contact, EditFits
  <2>2. /\ UNCHANGED <<contact, codeHeld, writes>> /\ editing' = [editing EXCEPT ![c] = h]
        /\ phoneCode' = [phoneCode EXCEPT ![g.id] = NoPhone]
    BY <1>1, <1>2, <1>11 DEF DropPhoneCode, Edit
  <2> HIDE DEF h
  <2> QED BY <1>1, <2>1, <2>2, EditMoves DEF Accounted
<1>12. CASE AbandonEdit(c)
  BY <1>1, <1>12, EditMoves DEF AbandonEdit, EditEnds
<1> QED BY <1>5, <1>6, <1>7, <1>8, <1>9, <1>10, <1>11, <1>12

\* One contact holds a role after the step as before it, and a transaction that was
\* looked for in vain is marked as raced.
LEMMA ContactInvKept == ContactInv /\ [ContactNext]_contactVars => ContactInv'
<1> SUFFICES ASSUME ContactInv, [ContactNext]_contactVars PROVE ContactInv'
  OBVIOUS
<1>1. /\ contact \in [Contacts -> Contact] /\ phoneCode \in [Contacts -> Phones \cup {NoPhone}]
      /\ codeHeld \subseteq Phones /\ editing \in [ContactCallers -> Edit]
      /\ NotEditing \in Edit /\ EditFits(NotEditing) /\ NotEditing.looked = {}
      /\ NoRowYet \in Contact /\ NoRowYet.defaults = {}
      /\ writes \in 0 .. MaxContactWrites /\ MaxContactWrites \in Nat /\ OneHolderPerRole(contact)
      /\ \A k \in Contacts : contact[k] # NoRowYet => contact[k].phone \in Phones
      /\ \A c \in ContactCallers : EditFits(editing[c]) /\ Accounted(editing[c], contact)
  BY ContactTypes, ContactAssumption DEF ContactInv, EditFits, ContactSaved, NotEditing
<1>2. ASSUME contact' \in [Contacts -> Contact], OneHolderPerRole(contact'),
             \A k \in Contacts : contact'[k] # NoRowYet => contact'[k].phone \in Phones,
             phoneCode' \in [Contacts -> Phones \cup {NoPhone}], codeHeld' \subseteq Phones,
             editing' \in [ContactCallers -> Edit], writes' \in 0 .. MaxContactWrites,
             \A c \in ContactCallers : EditFits(editing'[c]) /\ Accounted(editing'[c], contact')
      PROVE  ContactInv'
  <2>1. ContactTypeOK'
    BY <1>2, ContactTypes
  <2>2. OneHolderPerRole(contact)' /\ \A k \in Contacts : ContactSaved(k)' => contact'[k].phone \in Phones
    BY <1>2 DEF OneHolderPerRole, ContactSaved
  <2> QED BY <1>2, <2>1, <2>2 DEF ContactInv, EditFits, Accounted
<1>3. CASE UNCHANGED contactVars
  BY <1>1, <1>2, <1>3 DEF contactVars
<1>4. ASSUME NEW c \in ContactCallers, NEW k \in Contacts, WriteContact(c, k) PROVE ContactInv'
  <2> DEFINE row == editing[c].row
             table == RowsAfter(c, k)
             raced(d) == IF editing[d].looked \cap (row.defaults \ contact[k].defaults) = {} THEN editing[d]
                         ELSE [editing[d] EXCEPT !.raced = TRUE]
  <2>1. row \in Contact /\ row.phone \in Phones
    BY <1>1, <1>4 DEF Edit, EditFits, WriteContact, MayWrite, EditWrites
  <2>2. UNCHANGED <<phoneCode, codeHeld>>
    BY <1>4 DEF WriteContact
  <2>3. CASE EditEnds(c) /\ UNCHANGED <<contact, writes>>
    <3>1. editing' = [editing EXCEPT ![c] = NotEditing]
      BY <2>3 DEF EditEnds
    <3>2. /\ editing' \in [ContactCallers -> Edit]
          /\ \A b \in ContactCallers : EditFits(editing'[b]) /\ Accounted(editing'[b], contact)
      BY <1>1, <3>1 DEF Accounted
    <3> QED BY <1>1, <1>2, <2>2, <2>3, <3>2
  <2>4. CASE /\ OneHolderPerRole(table) /\ contact' = table /\ writes' = writes + 1
             /\ editing' = [d \in ContactCallers |-> IF d = c THEN NotEditing ELSE raced(d)]
    <3>1. /\ table \in [Contacts -> Contact] /\ table[k] = row
          /\ \A e \in Contacts : e # k =>
               /\ table[e].defaults \subseteq contact[e].defaults /\ table[e].phone = contact[e].phone
               /\ table[e].verified = contact[e].verified
      <4>1. /\ table \in [Contacts -> Contact] /\ table[k] = row
            /\ \A e \in Contacts : e # k =>
                 /\ table[e].defaults = {r \in contact[e].defaults : <<e, r>> \notin editing[c].cleared}
                 /\ table[e].phone = contact[e].phone /\ table[e].verified = contact[e].verified
        BY <1>1, <2>1, ClearedTable
      <4> HIDE DEF table
      <4> QED BY <4>1
    <3>2. ASSUME NEW e \in Contacts, table[e] # NoRowYet PROVE table[e].phone \in Phones
      <4>1. CASE e = k
        BY <2>1, <3>1, <4>1
      <4>2. CASE e # k
        <5>1. contact[e] # NoRowYet
          <6>1. SUFFICES ASSUME contact[e] = NoRowYet PROVE FALSE
            OBVIOUS
          <6>2. table[e].defaults = {} /\ table[e].phone = NoPhone /\ table[e].verified = FALSE
            BY <3>1, <4>2, <6>1 DEF NoRowYet
          <6>3. table[e] \in Contact
            BY <3>1
          <6>4. table[e] = NoRowYet
            BY <6>2, <6>3 DEF NoRowYet, Contact
          <6> QED BY <3>2, <6>4
        <5> QED BY <1>1, <3>1, <4>2, <5>1
      <4> QED BY <4>1, <4>2
    <3>3. writes' \in 0 .. MaxContactWrites
      BY <1>1, <1>4, <2>4 DEF WriteContact
    <3> HIDE DEF table
    <3>4. ASSUME NEW d \in ContactCallers
          PROVE  /\ editing'[d] \in Edit /\ EditFits(editing'[d]) /\ Accounted(editing'[d], table)
      <4>1. CASE d = c
        BY <1>1, <2>4, <4>1 DEF Accounted
      <4>2. CASE d # c
        <5>1. PICK g \in Edit : g = editing[d] /\ EditFits(g) /\ Accounted(g, contact)
          BY <1>1
        <5>2. CASE g.looked \cap (row.defaults \ contact[k].defaults) = {}
          <6>1. editing'[d] = g
            BY <2>4, <4>2, <5>1, <5>2
          <6>2. ASSUME NEW r \in g.looked, NEW e \in Contacts, r \in table[e].defaults PROVE r \in contact[e].defaults
            BY <3>1, <5>2, <6>2
          <6> QED BY <5>1, <6>1, <6>2 DEF Accounted
        <5>3. CASE g.looked \cap (row.defaults \ contact[k].defaults) # {}
          <6>1. editing'[d] = [g EXCEPT !.raced = TRUE]
            BY <2>4, <4>2, <5>1, <5>3
          <6>2. [g EXCEPT !.raced = TRUE] \in Edit /\ [g EXCEPT !.raced = TRUE].raced = TRUE
                /\ EditFits([g EXCEPT !.raced = TRUE])
            BY <5>1 DEF Edit, EditFits
          <6> QED BY <6>1, <6>2 DEF Accounted
        <5> QED BY <5>2, <5>3
      <4> QED BY <4>1, <4>2
    <3>5. editing' \in [ContactCallers -> Edit]
      BY <2>4, <3>4
    <3> QED BY <1>1, <1>2, <2>2, <2>4, <3>1, <3>2, <3>3, <3>4, <3>5
  <2> QED BY <1>4, <2>3, <2>4 DEF WriteContact
<1>5. ASSUME NEW k \in Contacts, DeleteContact(k) PROVE ContactInv'
  <2>1. contact' = [contact EXCEPT ![k] = NoRowYet] /\ UNCHANGED <<phoneCode, codeHeld, editing, writes>>
    BY <1>5 DEF DeleteContact
  <2>2. /\ contact' \in [Contacts -> Contact] /\ OneHolderPerRole(contact')
        /\ \A e \in Contacts : contact'[e] # NoRowYet => contact'[e].phone \in Phones
    BY <1>1, <2>1 DEF OneHolderPerRole
  <2>3. \A e \in Contacts : contact'[e].defaults \subseteq contact[e].defaults
    BY <1>1, <2>1
  <2>4. \A c \in ContactCallers : Accounted(editing[c], contact')
    BY <1>1, <2>3 DEF Accounted
  <2> QED BY <1>1, <1>2, <2>1, <2>2, <2>4
<1>6. ASSUME NEW k \in Contacts, PhoneCodeLapses(k) PROVE ContactInv'
  <2>1. phoneCode' \in [Contacts -> Phones \cup {NoPhone}] /\ UNCHANGED <<contact, codeHeld, editing, writes>>
    BY <1>1, <1>6 DEF PhoneCodeLapses
  <2> QED BY <1>1, <1>2, <2>1
<1>7. ASSUME NEW p \in Phones, CodeHoldLapses(p) PROVE ContactInv'
  <2>1. codeHeld' \subseteq Phones /\ UNCHANGED <<contact, phoneCode, editing, writes>>
    BY <1>1, <1>7 DEF CodeHoldLapses
  <2> QED BY <1>1, <1>2, <2>1
<1> QED BY <1>3, <1>4, <1>5, <1>6, <1>7, EditsKeep, ClearingKeeps DEF ContactNext

\* No contact is saved yet.
LEMMA ContactInvFirst == ContactInit => ContactInv
<1> SUFFICES ASSUME ContactInit PROVE ContactInv
  OBVIOUS
<1>1. /\ contact = [k \in Contacts |-> NoRowYet] /\ editing = [c \in ContactCallers |-> NotEditing]
      /\ ContactTypeOK /\ NoRowYet.defaults = {}
  BY ContactTypes, ContactAssumption DEF ContactInit
<1>2. OneHolderPerRole(contact) /\ \A k \in Contacts : ~ContactSaved(k)
  BY <1>1 DEF OneHolderPerRole, ContactSaved
<1>3. NotEditing.op = "none" /\ NotEditing.id = NoContact /\ NotEditing.looked = {}
  BY DEF NotEditing
<1> QED BY <1>1, <1>2, <1>3 DEF ContactInv, EditFits, Accounted

\* Whatever stale copies claim a default in turn, one contact holds it, and a claim is
\* refused only if another request took the role after its clearing statement had looked.
THEOREM ContactsStaySound == Spec => []ContactsHold
<1>1. Init => (part = "contacts" => ContactInv)
  BY ContactInvFirst DEF Init
<1>2. (part = "contacts" => ContactInv) /\ [Next]_platformVars => (part = "contacts" => ContactInv)'
  BY PartRuns, ContactInvKept
<1>3. (part = "contacts" => ContactInv) => ContactsHold
  BY DefaultsMove DEF ContactInv, ContactsHold
<1> QED BY <1>1, <1>2, <1>3, PTL DEF Spec
-----------------------------------------------------------------------------
(* The HTTP edge *)

\* The route of a handler is wired for what it does with its caller.
Wired(h) ==
  /\ h.who = "actor" => Wrapper(h) = "auth"
  /\ h.who = "reader" => Wrapper(h) \in {"optional", "auth"}

\* What a handler is made of.
LEMMA HandlerParts ==
  ASSUME NEW module, NEW who, NEW inputs, NEW names, NEW h \in Handlers(module, who, inputs, names)
  PROVE  h.of = module /\ h.who = who /\ h.inputs = inputs /\ h.op \in names
BY DEF Handlers

\* The modules without a public route.
LEMMA PrivateWired ==
  ASSUME NEW h, h.of \notin {"account", "catalog", "trust"}
  PROVE  Wired(h)
BY DEF Wired, Wrapper

\* A handler behind the wrapper its module's routes name: the account's.
LEMMA AccountWired ==
  ASSUME NEW h, h.of = "account",
         h.who \in {"actor", "reader"} =>
           h.op \notin {"Register", "Login", "LoginOAuth", "RefreshToken", "RequestPasswordReset",
                        "ResetPassword", "VerifyEmail", "ListFollowers", "ListAdministrativeAreas"},
         h.who = "actor" => h.op # "GetPublicAccount"
  PROVE  Wired(h)
BY DEF Wired, Wrapper, AccountWrapper

\* The catalog's routes.
LEMMA CatalogWired ==
  ASSUME NEW h, h.of = "catalog",
         h.who \in {"actor", "reader"} => h.op \notin {"ListCategories", "ListTags"},
         h.who = "actor" => h.op \notin {"ListListings", "ListShelves", "GetListing", "RecordInteractions"}
  PROVE  Wired(h)
BY DEF Wired, Wrapper, CatalogWrapper

\* Trust's routes.
LEMMA TrustWired ==
  ASSUME NEW h, h.of = "trust",
         h.who \in {"actor", "reader"} => h.op \notin {"ListAccountFeedback", "GetReputation"},
         h.who = "actor" => h.op \notin {"ListReviews", "GetReviewSummary", "GetReview"}
  PROVE  Wired(h)
BY DEF Wired, Wrapper, TrustWrapper

\* A handler of each kind the account's routes have.
LEMMA AccountRoutes ==
  ASSUME NEW h, h \in UNION {SignInHandlers, ProfileHandlers, AccountUploads, ContactHandlers,
                             DeviceHandlers, NotificationHandlers, FollowHandlers, IdentityHandlers,
                             AccountDeskHandlers, IdentityDeskHandlers}
  PROVE  Wired(h)
<1>1. ASSUME h \in SignInHandlers PROVE Wired(h)
  BY <1>1, HandlerParts, AccountWired DEF SignInHandlers
<1>2. ASSUME h \in ProfileHandlers PROVE Wired(h)
  BY <1>2, HandlerParts, AccountWired DEF ProfileHandlers
<1>3. ASSUME h \in AccountUploads PROVE Wired(h)
  BY <1>3, HandlerParts, AccountWired DEF AccountUploads, UploadHandlers
<1>4. ASSUME h \in ContactHandlers PROVE Wired(h)
  BY <1>4, HandlerParts, AccountWired DEF ContactHandlers
<1>5. ASSUME h \in DeviceHandlers PROVE Wired(h)
  BY <1>5, HandlerParts, AccountWired DEF DeviceHandlers
<1>6. ASSUME h \in NotificationHandlers PROVE Wired(h)
  BY <1>6, HandlerParts, AccountWired DEF NotificationHandlers
<1>7. ASSUME h \in FollowHandlers PROVE Wired(h)
  BY <1>7, HandlerParts, AccountWired DEF FollowHandlers
<1>8. ASSUME h \in IdentityHandlers PROVE Wired(h)
  BY <1>8, HandlerParts, AccountWired DEF IdentityHandlers
<1>9. ASSUME h \in AccountDeskHandlers PROVE Wired(h)
  BY <1>9, HandlerParts, AccountWired DEF AccountDeskHandlers
<1>10. ASSUME h \in IdentityDeskHandlers PROVE Wired(h)
  BY <1>10, HandlerParts, AccountWired DEF IdentityDeskHandlers
<1> QED BY <1>1, <1>2, <1>3, <1>4, <1>5, <1>6, <1>7, <1>8, <1>9, <1>10

\* The catalog's.
LEMMA CatalogRoutes ==
  ASSUME NEW h, h \in UNION {FeedHandlers, SuggestionHandlers, ListingHandlers, PublicationHandlers,
                             VariantHandlers, ReaderHandlers, DictionaryDeskHandlers,
                             ListingDeskHandlers, CatalogUploads}
  PROVE  Wired(h)
<1>1. ASSUME h \in FeedHandlers PROVE Wired(h)
  BY <1>1, HandlerParts, CatalogWired DEF FeedHandlers
<1>2. ASSUME h \in SuggestionHandlers PROVE Wired(h)
  BY <1>2, HandlerParts, CatalogWired DEF SuggestionHandlers
<1>3. ASSUME h \in ListingHandlers PROVE Wired(h)
  BY <1>3, HandlerParts, CatalogWired DEF ListingHandlers
<1>4. ASSUME h \in PublicationHandlers PROVE Wired(h)
  BY <1>4, HandlerParts, CatalogWired DEF PublicationHandlers
<1>5. ASSUME h \in VariantHandlers PROVE Wired(h)
  BY <1>5, HandlerParts, CatalogWired DEF VariantHandlers
<1>6. ASSUME h \in ReaderHandlers PROVE Wired(h)
  BY <1>6, HandlerParts, CatalogWired DEF ReaderHandlers
<1>7. ASSUME h \in DictionaryDeskHandlers PROVE Wired(h)
  BY <1>7, HandlerParts, CatalogWired DEF DictionaryDeskHandlers
<1>8. ASSUME h \in ListingDeskHandlers PROVE Wired(h)
  BY <1>8, HandlerParts, CatalogWired DEF ListingDeskHandlers
<1>9. ASSUME h \in CatalogUploads PROVE Wired(h)
  BY <1>9, HandlerParts, CatalogWired DEF CatalogUploads, UploadHandlers
<1> QED BY <1>1, <1>2, <1>3, <1>4, <1>5, <1>6, <1>7, <1>8, <1>9

\* Chat's, finance's and the order's, which are all private, and the socket's.
LEMMA PrivateRoutes ==
  ASSUME NEW h, h \in UNION {ConversationHandlers, MessageHandlers, SessionHandlers, WalletHandlers,
                             BankHandlers, WithdrawalHandlers, TaxHandlers, CartHandlers, DraftHandlers,
                             ItemHandlers, OfferHandlers, AgreementHandlers, OrderHandlers,
                             ReceiptHandlers, RefundHandlers, SellerHandlers, OrderUploads,
                             OptionHandlers, TicketRoute}
  PROVE  Wired(h)
<1>1. ASSUME h \in UNION {ConversationHandlers, MessageHandlers} PROVE h.of = "chat"
  BY <1>1, HandlerParts DEF ConversationHandlers, MessageHandlers, UploadHandlers
<1>2. ASSUME h \in UNION {SessionHandlers, WalletHandlers, BankHandlers, WithdrawalHandlers, TaxHandlers}
      PROVE  h.of = "finance"
  BY <1>2, HandlerParts DEF SessionHandlers, WalletHandlers, BankHandlers, WithdrawalHandlers, TaxHandlers
<1>3. ASSUME h \in UNION {CartHandlers, DraftHandlers, ItemHandlers, OfferHandlers, AgreementHandlers}
      PROVE  h.of = "order"
  BY <1>3, HandlerParts DEF CartHandlers, DraftHandlers, ItemHandlers, OfferHandlers, AgreementHandlers
<1>4. ASSUME h \in UNION {OrderHandlers, ReceiptHandlers, RefundHandlers, SellerHandlers, OrderUploads}
      PROVE  h.of = "order"
  BY <1>4, HandlerParts
     DEF OrderHandlers, ReceiptHandlers, RefundHandlers, SellerHandlers, OrderUploads, UploadHandlers
<1>5. ASSUME h \in UNION {OptionHandlers, TicketRoute} PROVE h.of \in {"options", "ws"}
  BY <1>5, HandlerParts DEF OptionHandlers, TicketRoute
<1>6. h.of \in {"chat", "finance", "order", "options", "ws"}
  BY <1>1, <1>2, <1>3, <1>4, <1>5
<1> QED BY <1>6, PrivateWired

\* Trust's.
LEMMA TrustRoutes ==
  ASSUME NEW h, h \in UNION {FeedbackHandlers, ReviewHandlers, ReplyHandlers, TicketHandlers}
  PROVE  Wired(h)
<1>1. ASSUME h \in FeedbackHandlers PROVE Wired(h)
  BY <1>1, HandlerParts, TrustWired DEF FeedbackHandlers
<1>2. ASSUME h \in ReviewHandlers PROVE Wired(h)
  BY <1>2, HandlerParts, TrustWired DEF ReviewHandlers
<1>3. ASSUME h \in ReplyHandlers PROVE Wired(h)
  BY <1>3, HandlerParts, TrustWired DEF ReplyHandlers, UploadHandlers
<1>4. ASSUME h \in TicketHandlers PROVE Wired(h)
  BY <1>4, HandlerParts, TrustWired DEF TicketHandlers
<1> QED BY <1>1, <1>2, <1>3, <1>4

\* No handler that wants its caller stands behind a route that supplies none.
LEMMA EveryHandlerWired == \A h \in AllHandlers : Wired(h)
BY AccountRoutes, CatalogRoutes, PrivateRoutes, TrustRoutes DEF AllHandlers

\* A service behind a route under /admin answers staff alone.
LEMMA AdminIsStaff ==
  ASSUME NEW h \in AdminRoutes
  PROVE  RolesFor(h) \subseteq Staff
<1>1. ASSUME h \in AccountDeskHandlers \cup IdentityDeskHandlers PROVE AccountRole(h.op) \subseteq Staff
  <2>1. h.op \in {"AdminListAccounts", "AdminSuspendAccount", "AdminLiftSuspension", "AdminRevokeModerator",
                  "AdminCreateModerator", "AdminListIdentityDocuments", "AdminRecordIdentityVerdict"}
    BY <1>1, HandlerParts DEF AccountDeskHandlers, IdentityDeskHandlers
  <2> QED BY <2>1 DEF AccountRole, Staff
<1>2. ASSUME h \in DictionaryDeskHandlers \cup ListingDeskHandlers PROVE CatalogRole(h.op) \subseteq Staff
  <2>1. h.op \in {"AdminCreateCategory", "AdminPutTag", "AdminUpdateCategory", "AdminDeleteCategory",
                  "AdminDeleteTag", "AdminListListings", "AdminApproveListing", "AdminTakedownListing"}
    BY <1>2, HandlerParts DEF DictionaryDeskHandlers, ListingDeskHandlers
  <2> QED BY <2>1 DEF CatalogRole, Staff
<1>3. ASSUME h.op \in {"AdminList", "AdminSave", "AdminListWithdrawals", "AdminApproveWithdrawal",
                       "AdminRejectWithdrawal", "AdminListPaymentSessions", "AdminGetWallets",
                       "AdminAdjustWallet", "AdminVerifyTaxInfo"}
      PROVE  FinanceRole(h.op) \subseteq Staff
  BY <1>3 DEF FinanceRole, Staff
<1>4. ASSUME h.op \in {"AdminResolveRefund", "AdminListTickets", "AdminGetTicket", "AdminClaimTicket",
                       "AdminResolveTicket"}
      PROVE  TrustRole(h.op) \subseteq Staff
  BY <1>4 DEF TrustRole, Staff
<1>5. \/ h \in AccountDeskHandlers \cup IdentityDeskHandlers
      \/ h \in DictionaryDeskHandlers \cup ListingDeskHandlers
      \/ h.op \in {"AdminList", "AdminSave", "AdminListWithdrawals", "AdminApproveWithdrawal",
                   "AdminRejectWithdrawal", "AdminListPaymentSessions", "AdminGetWallets",
                   "AdminAdjustWallet", "AdminVerifyTaxInfo"}
      \/ h.op \in {"AdminResolveRefund", "AdminListTickets", "AdminGetTicket", "AdminClaimTicket",
                   "AdminResolveTicket"}
  BY DEF AdminRoutes
<1> QED BY <1>1, <1>2, <1>3, <1>4, <1>5 DEF RolesFor

\* A request on its way.
HttpStages == {"mux", "handler", "service", "answered"}
HttpRoles == {"user", "moderator", "admin"}
HttpAnswers == {0, 200, 204, 400, 401, 403, 422, 500}
Known == BOOLEAN
HttpRow == [stage : HttpStages, handler : AllHandlers, cred : Credentials,
            bad : SUBSET {"path", "query", "body"}, caller : Known, role : HttpRoles, status : HttpAnswers]

\* A live session may be answered 401 for a secret that is wrong, by a service that knows
\* its caller.
WrongSecret(r) == r.handler.op \in SecretChecked /\ (r.handler.who = "actor" => r.caller)

\* Past the wrapper a request has the caller the wrapper promises; a live session was
\* not turned away; an answer from a desk went to staff.
HttpFits(r, live) ==
  /\ r.stage \in {"handler", "service"} =>
       /\ Wrapper(r.handler) = "auth" => r.caller
       /\ Wrapper(r.handler) = "optional" /\ r.cred # "none" => r.caller
  /\ r.stage = "answered" /\ r.status = 401 /\ r.cred = "valid" => ~live \/ WrongSecret(r)
  /\ r.stage = "answered" /\ r.status = 200 /\ r.handler \in AdminRoutes => r.role \in Staff

HttpInv ==
  /\ httpSession \in BOOLEAN /\ httpRole \in HttpRoles
  /\ httpRequest = NoRequest \/ (httpRequest \in HttpRow /\ HttpFits(httpRequest, httpSession))

\* The invariant says all the properties say.
LEMMA HttpIs == HttpInv => HttpTypeOK /\ SignedInIsRecognised /\ ServedAsPresented
<1> SUFFICES ASSUME HttpInv PROVE HttpTypeOK /\ SignedInIsRecognised /\ ServedAsPresented
  OBVIOUS
<1>1. HttpTypeOK
  BY DEF HttpInv, HttpTypeOK, HttpRow, HttpStages, HttpRoles, HttpAnswers
<1>2. CASE httpRequest = NoRequest
  BY <1>1, <1>2 DEF NoRequest, SignedInIsRecognised, ServedAsPresented
<1>3. CASE httpRequest \in HttpRow /\ HttpFits(httpRequest, httpSession)
  <2>1. SignedInIsRecognised
    BY <1>3 DEF HttpFits, SignedInIsRecognised, WrongSecret
  <2>2. Wired(httpRequest.handler)
    BY <1>3, EveryHandlerWired DEF HttpRow
  <2>3. ServedAsPresented
    BY <1>3, <2>2 DEF HttpFits, Wired, ServedAsPresented
  <2> QED BY <1>1, <2>1, <2>3
<1> QED BY <1>2, <1>3 DEF HttpInv

\* An answer is written on the request as it is.
LEMMA AnsweredRow ==
  ASSUME httpRequest \in HttpRow, NEW status \in HttpAnswers, Answered(status)
  PROVE  /\ httpRequest' \in HttpRow /\ httpRequest'.stage = "answered" /\ httpRequest'.status = status
         /\ httpRequest'.cred = httpRequest.cred /\ httpRequest'.handler = httpRequest.handler
         /\ httpRequest'.caller = httpRequest.caller
BY DEF HttpRow, HttpStages, Answered

\* An answer that is neither the route's welcome nor its refusal breaks nothing.
LEMMA AnswerKeeps ==
  ASSUME HttpInv, httpRequest \in HttpRow, NEW status \in {204, 400, 401, 403, 422, 500}, Answered(status),
         status = 401 /\ httpRequest.cred = "valid" => ~httpSession \/ WrongSecret(httpRequest),
         UNCHANGED <<httpSession, httpRole>>
  PROVE  HttpInv'
<1>1. /\ httpRequest' \in HttpRow /\ httpRequest'.stage = "answered" /\ httpRequest'.status = status
      /\ httpRequest'.cred = httpRequest.cred /\ httpRequest'.handler = httpRequest.handler
      /\ httpRequest'.caller = httpRequest.caller
  BY AnsweredRow DEF HttpAnswers
<1>2. HttpFits(httpRequest', httpSession')
  BY <1>1 DEF HttpFits, WrongSecret
<1> QED BY <1>1, <1>2 DEF HttpInv

\* A wrapper lets the request through.
LEMMA WelcomeKeeps ==
  ASSUME HttpInv, httpRequest \in HttpRow, NEW known \in Known, ToHandler(known),
         Wrapper(httpRequest.handler) = "auth" => known,
         Wrapper(httpRequest.handler) = "optional" /\ httpRequest.cred # "none" => known,
         UNCHANGED <<httpSession, httpRole>>
  PROVE  HttpInv'
<1>1. /\ httpRequest' \in HttpRow /\ httpRequest'.stage = "handler"
      /\ httpRequest'.cred = httpRequest.cred /\ httpRequest'.handler = httpRequest.handler
  BY DEF HttpRow, HttpStages, ToHandler
<1>2. httpRequest'.caller = known
  BY DEF HttpRow, HttpStages, ToHandler
<1>3. HttpFits(httpRequest', httpSession')
  BY <1>1, <1>2 DEF HttpFits
<1> QED BY <1>1, <1>3 DEF HttpInv

\* The middleware, whichever wrapper called it.
LEMMA AuthKeeps ==
  ASSUME HttpInv, httpRequest \in HttpRow, Auth, UNCHANGED <<httpSession, httpRole>>
  PROVE  HttpInv'
<1>1. CASE Answered(401) /\ (httpRequest.cred = "valid" => ~httpSession)
  BY <1>1, AnswerKeeps
<1>2. CASE Answered(500)
  BY <1>2, AnswerKeeps
<1>3. CASE ToHandler(TRUE)
  BY <1>3, WelcomeKeeps DEF Known
<1> QED BY <1>1, <1>2, <1>3 DEF Auth, Credentials, HttpRow

\* Every step of a request, and what others do to its session and its role meanwhile.
LEMMA HttpInvKept == HttpInv /\ [HttpNext]_httpVars => HttpInv'
<1> SUFFICES ASSUME HttpInv, [HttpNext]_httpVars PROVE HttpInv'
  OBVIOUS
<1>1. ASSUME Arrive PROVE HttpInv'
  <2> PICK h \in AllHandlers, c \in Credentials, bad \in {{}, {"path"}, {"query"}, {"body"}} :
         httpRequest' = [stage |-> "mux", handler |-> h, cred |-> c, bad |-> bad,
                         caller |-> FALSE, role |-> "user", status |-> 0]
    BY <1>1 DEF Arrive
  <2>1. httpRequest' \in HttpRow
    BY DEF HttpRow, HttpStages, HttpRoles, HttpAnswers, Known
  <2>2. httpRequest'.stage = "mux"
    OBVIOUS
  <2>3. HttpFits(httpRequest', httpSession')
    BY <2>2 DEF HttpFits
  <2> QED BY <1>1, <2>1, <2>3 DEF HttpInv, Arrive
<1>2. ASSUME httpRequest.stage \in {"mux", "handler", "service", "answered"}
      PROVE  httpRequest \in HttpRow /\ HttpFits(httpRequest, httpSession)
  BY <1>2 DEF HttpInv, NoRequest
<1>3. ASSUME Preflight PROVE HttpInv'
  BY <1>2, <1>3, AnswerKeeps DEF Preflight
<1>4. ASSUME Route PROVE HttpInv'
  <2>1. httpRequest \in HttpRow /\ UNCHANGED <<httpSession, httpRole>>
    BY <1>2, <1>4 DEF Route
  <2>2. CASE Wrapper(httpRequest.handler) = "bare"
    <3>1. ToHandler(FALSE)
      BY <1>4, <2>2 DEF Route
    <3> QED BY <2>1, <2>2, <3>1, WelcomeKeeps DEF Known
  <2>3. CASE Wrapper(httpRequest.handler) = "optional"
    <3>1. OptionalAuth
      BY <1>4, <2>3 DEF Route
    <3>2. CASE httpRequest.cred = "none"
      <4>1. ToHandler(FALSE)
        BY <3>1, <3>2 DEF OptionalAuth
      <4> QED BY <2>1, <2>3, <3>2, <4>1, WelcomeKeeps DEF Known
    <3>3. CASE httpRequest.cred # "none"
      BY <2>1, <3>1, <3>3, AuthKeeps DEF OptionalAuth
    <3> QED BY <3>2, <3>3
  <2>4. CASE Wrapper(httpRequest.handler) \notin {"bare", "optional"}
    <3>1. Auth
      BY <1>4, <2>4 DEF Route
    <3> QED BY <2>1, <3>1, AuthKeeps
  <2> QED BY <2>2, <2>3, <2>4
<1>5. ASSUME Handle PROVE HttpInv'
  <2>1. /\ httpRequest \in HttpRow /\ HttpFits(httpRequest, httpSession)
        /\ httpRequest.stage = "handler" /\ UNCHANGED <<httpSession, httpRole>>
    BY <1>2, <1>5 DEF Handle
  <2>2. httpRequest.handler.who = "actor" => httpRequest.caller
    <3>1. Wired(httpRequest.handler)
      BY <2>1, EveryHandlerWired DEF HttpRow
    <3> QED BY <2>1, <3>1 DEF Wired, HttpFits
  <2>3. CASE Answered(400)
    BY <2>1, <2>3, AnswerKeeps
  <2>4. CASE httpRequest' = [httpRequest EXCEPT !.stage = "service"]
    <3>1. /\ httpRequest' \in HttpRow /\ httpRequest'.stage = "service"
          /\ httpRequest'.cred = httpRequest.cred /\ httpRequest'.handler = httpRequest.handler
      BY <2>1, <2>4 DEF HttpRow, HttpStages
    <3>2. httpRequest'.caller = httpRequest.caller
      BY <2>1, <2>4 DEF HttpRow
    <3>3. HttpFits(httpRequest', httpSession')
      BY <2>1, <3>1, <3>2 DEF HttpFits
    <3> QED BY <2>1, <3>1, <3>3 DEF HttpInv
  <2> QED BY <1>5, <2>2, <2>3, <2>4 DEF Handle
<1>6. ASSUME Serve PROVE HttpInv'
  <2>1. httpRequest \in HttpRow /\ httpRole' = httpRole
    BY <1>2, <1>6 DEF Serve
  <2>2. CASE Answered(403) /\ UNCHANGED httpSession
    BY <2>1, <2>2, AnswerKeeps
  <2>3. CASE Answered(422) /\ UNCHANGED httpSession
    BY <2>1, <2>3, AnswerKeeps
  <2>4. CASE /\ httpRequest.handler.op \in SecretChecked \/ AboutNobody
             /\ Answered(401) /\ UNCHANGED httpSession
    <3>1. Wired(httpRequest.handler) /\ HttpFits(httpRequest, httpSession) /\ httpRequest.stage = "service"
      BY <1>2, <1>6, <2>1, EveryHandlerWired DEF HttpRow, Serve
    <3>2. httpRequest.handler.who = "actor" => httpRequest.caller
      BY <3>1 DEF Wired, HttpFits
    <3>3. CASE httpRequest.handler.op \in SecretChecked
      BY <2>1, <2>4, <3>2, <3>3, AnswerKeeps DEF WrongSecret
    <3>4. CASE AboutNobody
      <4>1. Wrapper(httpRequest.handler) \in {"optional", "auth"} /\ ~httpRequest.caller
        BY <3>4, HandlerParts DEF AboutNobody, FeedHandlers, Wrapper, CatalogWrapper
      <4>2. httpRequest.cred # "valid"
        BY <3>1, <4>1 DEF HttpFits
      <4> QED BY <2>1, <2>4, <4>2, AnswerKeeps
    <3> QED BY <2>4, <3>3, <3>4
  <2>5. CASE /\ httpRole \in RolesFor(httpRequest.handler)
             /\ httpRequest' = [httpRequest EXCEPT !.stage = "answered", !.status = 200, !.role = httpRole]
             /\ httpSession' = (httpSession /\ httpRequest.handler.op # "Logout")
    <3>1. /\ httpRequest' \in HttpRow /\ httpRequest'.stage = "answered" /\ httpRequest'.status = 200
          /\ httpRequest'.handler = httpRequest.handler /\ httpRequest'.role = httpRole
      <4>1. httpRole \in HttpRoles /\ 200 \in HttpAnswers
        BY DEF HttpInv, HttpAnswers
      <4> QED BY <2>1, <2>5, <4>1 DEF HttpRow, HttpStages
    <3>2. httpRequest'.handler \in AdminRoutes => httpRequest'.role \in Staff
      BY <2>5, <3>1, AdminIsStaff
    <3>3. HttpFits(httpRequest', httpSession')
      BY <3>1, <3>2 DEF HttpFits
    <3>4. httpSession' \in BOOLEAN
      BY <2>5
    <3> QED BY <2>1, <3>1, <3>3, <3>4 DEF HttpInv
  <2> QED BY <1>6, <2>2, <2>3, <2>4, <2>5 DEF Serve
<1>7. ASSUME Finish PROVE HttpInv'
  BY <1>7 DEF Finish, HttpInv
<1>8. ASSUME EndSession PROVE HttpInv'
  <2>1. UNCHANGED <<httpRequest, httpRole>> /\ httpSession' = FALSE
    BY <1>8 DEF EndSession
  <2>2. ASSUME HttpFits(httpRequest, httpSession) PROVE HttpFits(httpRequest, FALSE)
    BY <2>2 DEF HttpFits
  <2> QED BY <2>1, <2>2 DEF HttpInv
<1>9. ASSUME ChangeRole PROVE HttpInv'
  BY <1>9 DEF ChangeRole, HttpInv, HttpRoles
<1>10. ASSUME UNCHANGED httpVars PROVE HttpInv'
  BY <1>10 DEF httpVars, HttpInv
<1> QED BY <1>1, <1>3, <1>4, <1>5, <1>6, <1>7, <1>8, <1>9, <1>10 DEF HttpNext

\* A live session is recognised on every route that needs its caller, a refused
\* credential is never served as an anonymous reader, and a desk answers staff alone,
\* over all the handlers the router mounts.
THEOREM RequestsStaySound == Spec => []RequestsHold
<1>1. Init => (part = "http" => HttpInv)
  BY DEF Init, HttpInit, HttpInv, HttpRoles
<1>2. (part = "http" => HttpInv) /\ [Next]_platformVars => (part = "http" => HttpInv)'
  BY PartRuns, HttpInvKept
<1>3. (part = "http" => HttpInv) => RequestsHold
  BY HttpIs DEF RequestsHold
<1> QED BY <1>1, <1>2, <1>3, PTL DEF Spec
==============================================================================
