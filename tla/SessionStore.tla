---------------------------- MODULE SessionStore ----------------------------
(***************************************************************************)
(* The sign-ins of one account in the shared cache: session records        *)
(* stamped with the account's epoch, refresh tokens that name a session,   *)
(* and the epoch whose bump ends every session                             *)
(* (shared/session/session.go).                                            *)
(*                                                                         *)
(* The cache serialises single keys only, so every call of it is a step.   *)
(***************************************************************************)
EXTENDS Integers, FiniteSets

CONSTANTS
  Sids,           \* session identifiers still to be drawn, random and unique
  Tokens,         \* refresh tokens still to be drawn
  SessionCallers, \* concurrent calls of the store
  MaxEpoch,       \* how far bulk revocations are counted
  NoKey

ASSUME SessionAssumption == MaxEpoch \in Nat /\ NoKey \notin Sids \cup Tokens

VARIABLES
  session,   \* the session keys: the epoch a record is stamped with, -1 without a key
  refresh,   \* the refresh keys: the session each names
  epoch,     \* the account's epoch key
  drawn,     \* the identifiers and tokens already drawn
  kept,      \* history: the sessions a password change has kept by name
  call       \* the calls in flight

sessionVars == <<session, refresh, epoch, drawn, kept, call>>

Absent == -1
NoCall == [op |-> "none", at |-> "idle", sid |-> NoKey, tok |-> NoKey, stamp |-> Absent]

\* Every variable holds a value of its kind.
SessionTypeOK ==
  /\ session \in [Sids -> -1 .. MaxEpoch]
  /\ refresh \in [Tokens -> Sids \cup {NoKey}]
  /\ epoch \in 0 .. MaxEpoch
  /\ drawn \subseteq Sids \cup Tokens
  /\ kept \subseteq Sids
  /\ call \in [SessionCallers ->
       [op : {"none", "create", "rotate", "revoke-all"},
        at : {"idle", "set", "issue", "drop", "extend", "bump", "restamp"},
        sid : Sids \cup {NoKey}, tok : Tokens \cup {NoKey}, stamp : -1 .. MaxEpoch]]

SessionInit ==
  /\ session = [s \in Sids |-> Absent]
  /\ refresh = [t \in Tokens |-> NoKey]
  /\ epoch = 0
  /\ drawn = {} /\ kept = {}
  /\ call = [c \in SessionCallers |-> NoCall]

-----------------------------------------------------------------------------
Calling(c, op, step, s, t, stamp) ==
  call' = [call EXCEPT ![c] = [op |-> op, at |-> step, sid |-> s, tok |-> t, stamp |-> stamp]]
NextStep(c, step) == call' = [call EXCEPT ![c].at = step]
Return(c) == call' = [call EXCEPT ![c] = NoCall]
IdleCaller(c) == call[c].op = "none"

\* What record() lets through: a key stamped with the account's epoch.
LiveSession(s) == session[s] # Absent /\ session[s] = epoch

\* record() on a superseded key drops it; on a missing one it does nothing.
DropSuperseded(s) ==
  session' = IF session[s] # Absent /\ session[s] # epoch THEN [session EXCEPT ![s] = Absent] ELSE session

\* Create: the epoch is read, the record set under a new id, a token issued.
CreateSession(c, s) ==
  /\ IdleCaller(c) /\ s \notin drawn /\ drawn' = drawn \cup {s}
  /\ Calling(c, "create", "set", s, NoKey, epoch)
  /\ UNCHANGED <<session, refresh, epoch, kept>>

SetSession(c) ==
  /\ call[c].at = "set"
  /\ session' = [session EXCEPT ![call[c].sid] = call[c].stamp]
  /\ NextStep(c, "issue")
  /\ UNCHANGED <<refresh, epoch, drawn, kept>>

issueRefresh(c, t) ==
  /\ call[c].at = "issue" /\ t \notin drawn /\ drawn' = drawn \cup {t}
  /\ refresh' = [refresh EXCEPT ![t] = call[c].sid]
  /\ Return(c)
  /\ UNCHANGED <<session, epoch, kept>>

\* Lookup, the check on the request path.
Lookup(s) ==
  /\ DropSuperseded(s) /\ session' # session
  /\ UNCHANGED <<refresh, epoch, drawn, call, kept>>

\* Rotate: the token, then record(), whose copy is kept for the extension.
Rotate(c, t) ==
  LET s == refresh[t] IN
  /\ IdleCaller(c) /\ s # NoKey
  /\ \/ LiveSession(s) /\ Calling(c, "rotate", "drop", s, t, session[s]) /\ UNCHANGED session
     \/ ~LiveSession(s) /\ DropSuperseded(s) /\ UNCHANGED call
  /\ UNCHANGED <<refresh, epoch, drawn, kept>>

DropToken(c) ==
  /\ call[c].at = "drop"
  /\ refresh' = [refresh EXCEPT ![call[c].tok] = NoKey]
  /\ NextStep(c, "extend")
  /\ UNCHANGED <<session, epoch, drawn, kept>>

\* Mutant: the extension stamps the epoch of the moment.
RestampOnRotate(c) ==
  /\ call[c].at = "extend"
  /\ session' = [session EXCEPT ![call[c].sid] = epoch]
  /\ NextStep(c, "issue")
  /\ UNCHANGED <<refresh, epoch, drawn, kept>>

\* The record read at the start is written back with a new lifetime.
ExtendSession(c) ==
  /\ call[c].at = "extend"
  /\ session' = [session EXCEPT ![call[c].sid] = call[c].stamp]
  /\ NextStep(c, "issue")
  /\ UNCHANGED <<refresh, epoch, drawn, kept>>

Revoke(s) ==
  /\ session[s] # Absent
  /\ session' = [session EXCEPT ![s] = Absent]
  /\ UNCHANGED <<refresh, epoch, drawn, call, kept>>

\* RevokeAll reads the epoch, sets the next one and re-stamps the kept session.
RevokeAll(c, keep) ==
  /\ IdleCaller(c) /\ epoch < MaxEpoch
  /\ Calling(c, "revoke-all", "bump", keep, NoKey, epoch + 1)
  /\ UNCHANGED <<session, refresh, epoch, drawn, kept>>

BumpEpoch(c) ==
  /\ call[c].at = "bump"
  /\ epoch' = call[c].stamp
  /\ IF call[c].sid = NoKey THEN Return(c) ELSE NextStep(c, "restamp")
  /\ UNCHANGED <<session, refresh, drawn, kept>>

Restamp(c) ==
  /\ call[c].at = "restamp"
  /\ session' = [session EXCEPT ![call[c].sid] = call[c].stamp]
  /\ kept' = kept \cup {call[c].sid}
  /\ Return(c)
  /\ UNCHANGED <<refresh, epoch, drawn>>

\* The lifetimes of the keys run out; the epoch key has none.
ExpireSession(s) ==
  /\ session[s] # Absent
  /\ session' = [session EXCEPT ![s] = Absent]
  /\ UNCHANGED <<refresh, epoch, drawn, call, kept>>

ExpireToken(t) ==
  /\ refresh[t] # NoKey
  /\ refresh' = [refresh EXCEPT ![t] = NoKey]
  /\ UNCHANGED <<session, epoch, drawn, call, kept>>

\* The cache refuses a call, or the process dies between two of them.
FailCall(c) ==
  /\ ~IdleCaller(c) /\ Return(c)
  /\ UNCHANGED <<session, refresh, epoch, drawn, kept>>

SessionNext ==
  \/ \E c \in SessionCallers :
       \/ \E s \in Sids : CreateSession(c, s)
       \/ \E t \in Tokens : issueRefresh(c, t) \/ Rotate(c, t)
       \/ \E keep \in {s \in Sids : LiveSession(s)} \cup {NoKey} : RevokeAll(c, keep)
       \/ SetSession(c) \/ DropToken(c) \/ ExtendSession(c) \/ BumpEpoch(c) \/ Restamp(c) \/ FailCall(c)
  \/ \E s \in Sids : Lookup(s) \/ Revoke(s) \/ ExpireSession(s)
  \/ \E t \in Tokens : ExpireToken(t)

SessionSpec == SessionInit /\ [][SessionNext]_sessionVars

-----------------------------------------------------------------------------
(* Properties *)

\* A refresh in flight carries a bulk-revoked session's old stamp: a session whose
\* stamp is not the account's epoch does not authenticate again while the epoch
\* stands, unless a password change keeps it by name.
RefreshCannotResurrect ==
  \A s \in Sids :
    /\ session[s] \notin {Absent, epoch} /\ epoch' = epoch
    /\ s \notin kept'
    => session'[s] # epoch

=============================================================================
