------------------------------ MODULE LiveProofs ------------------------------
(***************************************************************************)
(* The safety of the parts whose liveness the run `live` checks: the bus    *)
(* and the notifications it carries, the search index, the durable runs.    *)
(* Each theorem has its inductive invariant; the other parts rest.          *)
(***************************************************************************)
EXTENDS MCLive, FiniteSetTheorems, TLAPS

\* What a step of the composition is to each of these parts.
LEMMA LiveRuns ==
  /\ Init => RunInit /\ NotificationInit /\ IndexInit
  /\ [Next]_liveVars => /\ [RunNext]_runVars
                        /\ [NotificationNext]_notificationVars
                        /\ [IndexNext]_indexVars
<1>1. Init => RunInit /\ NotificationInit /\ IndexInit
  BY DEF Init
<1>2. ASSUME [Next]_liveVars
      PROVE  /\ [RunNext]_runVars
             /\ [NotificationNext]_notificationVars
             /\ [IndexNext]_indexVars
  <2>1. CASE UNCHANGED liveVars
    BY <2>1 DEF liveVars
  <2>2. CASE Next
    BY <2>2 DEF Next
  <2> QED BY <1>2, <2>1, <2>2
<1> QED BY <1>1, <1>2

-----------------------------------------------------------------------------
(* The bus and the notifications.                                            *)

\* A batch of one, acknowledged when it is settled; whoever was told has a row or has
\* switched the feed off.
BatchFits ==
  /\ loop.at \in {"handle", "ack"} => \E e \in Entries : loop.batch = {e}
  /\ loop.at = "ack" => loop.batch \subseteq settled

Done(k) == k < telling.party \/ (k = telling.party /\ telling.at = "mail")

TellingFits ==
  /\ telling # NotTelling => loop.at = "handle"
  /\ telling.party = 0 => telling = NotTelling
  /\ telling.party \in {1, 2} => telling.at # "idle"
  /\ telling.party = 3 => telling.at = "idle"
  /\ \A k \in {1, 2} : Done(k) => \A e \in loop.batch : <<e, PartyOrder[k]>> \in row \cup muted

NotificationInv == BusTypeOK /\ FeedTypeOK /\ BatchFits /\ TellingFits /\ SettledIsTold

\* A batch is empty or the earliest of the entries there are.
LEMMA BatchIsOne ==
  ASSUME NEW n \in Nat, NEW from \in SUBSET (1 .. n), Batch(from) # {}
  PROVE  \E e \in from : Batch(from) = {e} /\ Max(Batch(from)) = e
<1>1. ASSUME NEW e \in from PROVE Cardinality({f \in from : f < e}) < BatchSize <=> {f \in from : f < e} = {}
  <2>1. IsFiniteSet({f \in from : f < e})
    <3>1. IsFiniteSet(1 .. n)
      BY FS_Interval
    <3>2. {f \in from : f < e} \subseteq 1 .. n
      OBVIOUS
    <3> QED BY <3>1, <3>2, FS_Subset
  <2>2. Cardinality({f \in from : f < e}) \in Nat
    BY <2>1, FS_CardinalityType
  <2>3. Cardinality({f \in from : f < e}) = 0 <=> {f \in from : f < e} = {}
    BY <2>1, FS_EmptySet
  <2> QED BY <2>2, <2>3, FeedAssumption
<1>2. PICK e \in from : e \in Batch(from)
  BY DEF Batch
<1>3. ASSUME NEW g \in Batch(from) PROVE g = e
  <2>1. g \in from /\ {f \in from : f < g} = {} /\ {f \in from : f < e} = {}
    BY <1>1, <1>2, <1>3 DEF Batch
  <2> QED BY <2>1, <1>2
<1>4. Batch(from) = {e}
  BY <1>2, <1>3
<1>5. Max({e}) = e
  BY <1>2 DEF Max
<1> QED BY <1>2, <1>4, <1>5

\* The invariant holds of an empty stream and a group that is not there yet.
LEMMA NotificationInvStarts == NotificationInit => NotificationInv
<1> SUFFICES ASSUME NotificationInit PROVE NotificationInv
  OBVIOUS
<1> USE BusAssumption, FeedAssumption
<1>1. BusTypeOK
  BY DEF NotificationInit, BusInit, BusTypeOK, FreshLoop, Latest, Entries
<1>2. FeedTypeOK
  BY DEF NotificationInit, FeedInit, FeedTypeOK, NotTelling
<1>3. BatchFits
  BY DEF NotificationInit, BusInit, BatchFits, FreshLoop
<1>4. TellingFits
  BY DEF NotificationInit, FeedInit, TellingFits, NotTelling, Done
<1>5. SettledIsTold
  BY DEF NotificationInit, BusInit, SettledIsTold
<1> QED BY <1>1, <1>2, <1>3, <1>4, <1>5 DEF NotificationInv

\* The rows of the bus, their ranges named.
LoopSteps == {"ensure", "read", "handle", "ack"}
Cursors == -1 .. MaxEntries
Backlog == 0 .. MaxEntries
Flags == BOOLEAN
GroupStates == [exists : Flags, delivered : Backlog]
LoopStates == [at : LoopSteps, readID : Cursors, lastID : Cursors, batch : SUBSET Entries]
FaultStates == [losses : 0 .. MaxLosses, restarts : 0 .. MaxRestarts]

\* The bus's rows one by one.
LEMMA BusRows ==
  BusTypeOK <=>
    /\ published \in Backlog
    /\ entries \subseteq 1 .. published
    /\ group \in GroupStates
    /\ pending \subseteq 1 .. published
    /\ loop \in LoopStates
    /\ settled \subseteq Entries /\ passedOver \subseteq Entries
    /\ faults \in FaultStates
BY DEF BusTypeOK, Backlog, GroupStates, LoopStates, FaultStates, LoopSteps, Cursors, Flags

\* The same of the rows after a step.
LEMMA BusRowsAfter ==
  ASSUME published' \in Backlog, entries' \subseteq 1 .. published', group' \in GroupStates,
         pending' \subseteq 1 .. published', loop' \in LoopStates,
         settled' \subseteq Entries, passedOver' \subseteq Entries, faults' \in FaultStates
  PROVE  BusTypeOK'
BY DEF BusTypeOK, Backlog, GroupStates, LoopStates, FaultStates, LoopSteps, Cursors, Flags

\* Entries that are there are entries, and their numbers are cursors.
LEMMA EntryNumbers ==
  ASSUME BusTypeOK
  PROVE  /\ published \in Nat /\ published \in Backlog /\ entries \subseteq Entries /\ pending \subseteq Entries
         /\ 1 .. published \subseteq Entries
         /\ Backlog \subseteq Cursors /\ Entries \subseteq Backlog
         /\ New \in Cursors /\ Latest \in Cursors
         /\ \A c \in Cursors : c # Latest => c \in Backlog
BY BusAssumption DEF BusTypeOK, Backlog, Cursors, Entries, New, Latest

\* Each move of the loop leaves it a loop.
LEMMA LoopMoves ==
  ASSUME NEW l \in LoopStates, NEW at \in LoopSteps, NEW c \in Cursors, NEW b \in SUBSET Entries
  PROVE  /\ [l EXCEPT !.at = at] \in LoopStates
         /\ [l EXCEPT !.readID = c] \in LoopStates
         /\ [l EXCEPT !.at = at, !.readID = c] \in LoopStates
         /\ [l EXCEPT !.at = at, !.batch = b] \in LoopStates
         /\ [l EXCEPT !.at = at, !.batch = b, !.readID = c] \in LoopStates
         /\ [l EXCEPT !.at = at, !.lastID = c, !.batch = b] \in LoopStates
BY DEF LoopStates

\* What a read returns is one entry, in the range of cursors.
LEMMA ReadsOne ==
  ASSUME BusTypeOK, NEW from, from \subseteq entries \/ from \subseteq pending, Batch(from) # {}
  PROVE  \E e \in Entries : /\ Batch(from) = {e} /\ Max(Batch(from)) = e
                            /\ e \in from /\ e \in Backlog /\ e \in Cursors
<1>1. from \in SUBSET (1 .. published) /\ published \in Nat
  BY EntryNumbers DEF BusTypeOK
<1>2. PICK e \in from : Batch(from) = {e} /\ Max(Batch(from)) = e
  BY <1>1, BatchIsOne
<1> QED BY <1>1, <1>2, EntryNumbers

\* The bus keeps its rows in range whatever it does.
LEMMA BusStepTypes ==
  ASSUME BusTypeOK, BatchFits, BusStep
  PROVE  BusTypeOK'
<1>1. /\ published \in Backlog /\ entries \subseteq 1 .. published /\ group \in GroupStates
      /\ pending \subseteq 1 .. published /\ loop \in LoopStates
      /\ settled \subseteq Entries /\ passedOver \subseteq Entries /\ faults \in FaultStates
  BY BusRows
<1>2. \A at \in LoopSteps : [loop EXCEPT !.at = at] \in LoopStates
  BY <1>1 DEF LoopStates
<1>3. {"ensure", "read", "handle", "ack"} = LoopSteps /\ FALSE \in Flags /\ TRUE \in Flags
  BY DEF LoopSteps, Flags
<1>4. CASE Publish
  <2>1. published' \in Backlog /\ entries' \subseteq 1 .. published' /\ pending' \subseteq 1 .. published'
    BY <1>1, <1>4, BusAssumption DEF Publish, Backlog
  <2> QED BY <1>1, <1>4, <2>1, BusRowsAfter DEF Publish
<1>5. CASE ensureGroup
  <2> DEFINE from == IF loop.lastID = Latest THEN published ELSE loop.lastID
  <2>1. from \in Backlog
    BY <1>1, EntryNumbers DEF LoopStates
  <2>2. group' \in GroupStates
    <3>1. [exists |-> TRUE, delivered |-> from] \in GroupStates
      BY <1>3, <2>1 DEF GroupStates
    <3> QED BY <1>1, <1>5, <3>1 DEF ensureGroup
  <2>3. passedOver' \subseteq Entries
    BY <1>1, <1>5, EntryNumbers DEF ensureGroup
  <2>4. loop' \in LoopStates
    BY <1>2, <1>3, <1>5 DEF ensureGroup
  <2> HIDE DEF from
  <2> QED BY <1>1, <1>5, <2>2, <2>3, <2>4, BusRowsAfter DEF ensureGroup
<1>6. CASE ReadBacklog
  <2> DEFINE from == {e \in pending : e > loop.readID}
  <2>1. loop' \in LoopStates
    <3>1. CASE Batch(from) = {}
      BY <1>1, <1>6, <3>1, EntryNumbers, LoopMoves, <1>3 DEF ReadBacklog
    <3>2. CASE Batch(from) # {}
      <4>1. PICK e \in Entries : Batch(from) = {e} /\ Max(Batch(from)) = e /\ e \in Cursors
        BY <3>2, ReadsOne
      <4>2. loop' = [loop EXCEPT !.at = "handle", !.batch = {e}, !.readID = e]
        BY <1>6, <3>2, <4>1 DEF ReadBacklog
      <4>3. "handle" \in LoopSteps /\ {e} \in SUBSET Entries
        BY <1>3, <4>1
      <4>4. [loop EXCEPT !.at = "handle", !.batch = {e}, !.readID = e] \in LoopStates
        BY <1>1, <4>1, <4>3 DEF LoopStates
      <4> QED BY <4>2, <4>4
    <3> QED BY <3>1, <3>2
  <2> HIDE DEF from
  <2> QED BY <1>1, <1>6, <2>1, BusRowsAfter DEF ReadBacklog
<1>7. CASE ReadNew
  <2> DEFINE from == {e \in entries : e > group.delivered}
  <2>1. PICK e \in Entries : /\ Batch(from) = {e} /\ Max(Batch(from)) = e
                            /\ e \in from /\ e \in Backlog
    BY <1>7, ReadsOne DEF ReadNew
  <2>2. /\ group' = [group EXCEPT !.delivered = e] /\ pending' = pending \cup {e}
        /\ loop' = [loop EXCEPT !.at = "handle", !.batch = {e}]
    BY <1>7, <2>1 DEF ReadNew
  <2>3. group' \in GroupStates /\ loop' \in LoopStates /\ pending' \subseteq 1 .. published
    <3>1. group' \in GroupStates
      BY <1>1, <2>1, <2>2 DEF GroupStates
    <3>2. loop' \in LoopStates
      BY <1>1, <1>3, <2>1, <2>2 DEF LoopStates
    <3> QED BY <1>1, <2>1, <2>2, <3>1, <3>2
  <2> HIDE DEF from
  <2> QED BY <1>1, <1>7, <2>3, BusRowsAfter DEF ReadNew
<1>8. CASE MissingGroup
  <2>1. loop' \in LoopStates
    BY <1>1, <1>3, <1>8, EntryNumbers, LoopMoves DEF MissingGroup
  <2> QED BY <1>1, <1>8, <2>1, BusRowsAfter DEF MissingGroup
<1>9. ASSUME NEW received \in BOOLEAN, ack(received) PROVE BusTypeOK'
  <2>1. PICK e \in Entries : loop.batch = {e}
    BY <1>9 DEF ack, BatchFits
  <2>2. Max(loop.batch) = e /\ e \in Cursors
    BY <2>1, EntryNumbers DEF Max
  <2>3. loop' \in LoopStates
    BY <1>1, <1>3, <1>9, <2>2, LoopMoves DEF ack
  <2>4. pending' \subseteq 1 .. published
    BY <1>1, <1>9 DEF ack
  <2> QED BY <1>1, <1>9, <2>3, <2>4, BusRowsAfter DEF ack
<1>10. ASSUME NEW withStream \in BOOLEAN, LoseGroup(withStream) PROVE BusTypeOK'
  <2>1. group' \in GroupStates
    <3>1. 0 \in Backlog
      BY BusAssumption DEF Backlog
    <3>2. [exists |-> FALSE, delivered |-> 0] \in GroupStates
      BY <1>3, <3>1 DEF GroupStates
    <3> QED BY <1>10, <3>2 DEF LoseGroup
  <2>2. faults' \in FaultStates
    BY <1>1, <1>10, BusAssumption DEF LoseGroup, FaultStates
  <2> QED BY <1>1, <1>10, <2>1, <2>2, BusRowsAfter DEF LoseGroup
<1> QED BY <1>4, <1>5, <1>6, <1>7, <1>8, <1>9, <1>10 DEF BusStep

\* The handler's end and a restart keep them too.
LEMMA HandlerStepTypes ==
  ASSUME BusTypeOK, HandlerSucceeds \/ HandlerFails \/ Restart
  PROVE  BusTypeOK'
<1>1. /\ published \in Backlog /\ entries \subseteq 1 .. published /\ group \in GroupStates
      /\ pending \subseteq 1 .. published /\ loop \in LoopStates
      /\ settled \subseteq Entries /\ passedOver \subseteq Entries /\ faults \in FaultStates
  BY BusRows
<1>2. {"ensure", "read", "handle", "ack"} = LoopSteps
  BY DEF LoopSteps
<1>3. CASE HandlerSucceeds
  <2>1. loop' \in LoopStates /\ settled' \subseteq Entries
    BY <1>1, <1>2, <1>3 DEF HandlerSucceeds, LoopStates
  <2> QED BY <1>1, <1>3, <2>1, BusRowsAfter DEF HandlerSucceeds
<1>4. CASE HandlerFails
  <2>1. loop' \in LoopStates
    BY <1>1, <1>2, <1>4 DEF HandlerFails, LoopStates
  <2> QED BY <1>1, <1>4, <2>1, BusRowsAfter DEF HandlerFails
<1>5. CASE Restart
  <2>1. loop' \in LoopStates
    BY <1>2, <1>5, BusAssumption DEF Restart, FreshLoop, Latest, LoopStates, Cursors
  <2>2. faults' \in FaultStates
    BY <1>1, <1>5, BusAssumption DEF Restart, FaultStates
  <2> QED BY <1>1, <1>5, <2>1, <2>2, BusRowsAfter DEF Restart
<1> QED BY <1>3, <1>4, <1>5

\* The batch stays one entry, acknowledged only when it is settled, and a party that
\* was told stays told, while the bus moves on.
LEMMA BusStepFits ==
  ASSUME NotificationInv, BusStep, UNCHANGED feedVars
  PROVE  BatchFits' /\ TellingFits' /\ SettledIsTold'
<1>1. /\ telling' = telling /\ row' = row /\ muted' = muted
  BY DEF feedVars
<1>2. BusTypeOK /\ BatchFits /\ TellingFits /\ SettledIsTold /\ loop \in LoopStates
  BY BusRows DEF NotificationInv
<1>3. settled' = settled
  BY DEF BusStep, Publish, ensureGroup, ReadBacklog, ReadNew, MissingGroup, ack, LoseGroup
<1> SUFFICES BatchFits' /\ TellingFits'
  BY <1>1, <1>2, <1>3 DEF SettledIsTold
<1>4. ASSUME loop' = loop PROVE BatchFits' /\ TellingFits'
  BY <1>1, <1>2, <1>3, <1>4 DEF BatchFits, TellingFits, Done
<1>5. ASSUME loop.at # "handle", loop'.at \in LoopSteps \ {"ack"},
             loop'.at = "handle" => \E e \in Entries : loop'.batch = {e}
      PROVE  BatchFits' /\ TellingFits'
  <2>1. telling = NotTelling
    BY <1>2, <1>5 DEF TellingFits
  <2>2. TellingFits'
    BY <1>1, <1>2, <1>5, <2>1 DEF TellingFits, NotTelling, Done
  <2>3. BatchFits'
    BY <1>5 DEF BatchFits
  <2> QED BY <2>2, <2>3
<1>6. {"ensure", "read", "handle"} \subseteq LoopSteps \ {"ack"}
  BY DEF LoopSteps
<1>7. ASSUME loop.at # "handle", loop'.at = "ensure" \/ loop'.at = "read"
      PROVE  BatchFits' /\ TellingFits'
  BY <1>5, <1>6, <1>7
<1>8. CASE Publish
  BY <1>4, <1>8 DEF Publish
<1>9. CASE ensureGroup
  <2>1. loop.at # "handle" /\ loop'.at = "read"
    BY <1>2, <1>9 DEF ensureGroup, LoopStates
  <2> QED BY <1>7, <2>1
<1>10. CASE ReadBacklog
  <2> DEFINE from == {e \in pending : e > loop.readID}
  <2>1. CASE Batch(from) = {}
    <3>1. loop.at # "handle" /\ loop'.at = "read"
      BY <1>2, <1>10, <2>1 DEF ReadBacklog, LoopStates
    <3> QED BY <1>7, <3>1
  <2>2. CASE Batch(from) # {}
    <3>1. PICK e \in Entries : Batch(from) = {e} /\ Max(Batch(from)) = e
      BY <1>2, <2>2, ReadsOne
    <3>2. loop' = [loop EXCEPT !.at = "handle", !.batch = {e}, !.readID = e] /\ loop.at = "read"
      BY <1>10, <2>2, <3>1 DEF ReadBacklog
    <3>3. loop'.at = "handle" /\ loop'.batch = {e}
      BY <1>2, <3>2 DEF LoopStates
    <3> QED BY <1>5, <1>6, <3>1, <3>2, <3>3
  <2> QED BY <2>1, <2>2
<1>11. CASE ReadNew
  <2> DEFINE from == {e \in entries : e > group.delivered}
  <2>1. PICK e \in Entries : Batch(from) = {e}
    BY <1>2, <1>11, ReadsOne DEF ReadNew
  <2>2. loop' = [loop EXCEPT !.at = "handle", !.batch = {e}] /\ loop.at = "read"
    BY <1>11, <2>1 DEF ReadNew
  <2>3. loop'.at = "handle" /\ loop'.batch = {e}
    BY <1>2, <2>2 DEF LoopStates
  <2> QED BY <1>5, <1>6, <2>1, <2>2, <2>3
<1>12. CASE MissingGroup
  <2>1. loop.at # "handle" /\ loop'.at = "ensure"
    BY <1>2, <1>12 DEF MissingGroup, LoopStates
  <2> QED BY <1>7, <2>1
<1>13. ASSUME NEW received \in BOOLEAN, ack(received) PROVE BatchFits' /\ TellingFits'
  <2>1. loop.at # "handle" /\ loop'.at = "read"
    BY <1>2, <1>13 DEF ack, LoopStates
  <2> QED BY <1>7, <2>1
<1>14. ASSUME NEW withStream \in BOOLEAN, LoseGroup(withStream) PROVE BatchFits' /\ TellingFits'
  BY <1>4, <1>14 DEF LoseGroup
<1> QED BY <1>8, <1>9, <1>10, <1>11, <1>12, <1>13, <1>14 DEF BusStep

\* Telling starts with the first party and only then; a party's row is written before
\* the next one's turn; a handler that ends ends it.
LEMMA SubscriberStepFits ==
  ASSUME NotificationInv, SubscriberStep
  PROVE  NotificationInv'
<1>1. /\ BusTypeOK /\ FeedTypeOK /\ BatchFits /\ TellingFits /\ SettledIsTold
      /\ loop \in LoopStates
  BY BusRows DEF NotificationInv
<1>2. telling \in [party : 0 .. 3, at : {"idle", "prefs", "insert", "mail"}, on : SUBSET Channels]
  BY <1>1 DEF FeedTypeOK
<1>3. ASSUME UNCHANGED busVars PROVE BusTypeOK' /\ BatchFits'
  BY <1>1, <1>3 DEF busVars, BusTypeOK, BatchFits
<1>4. ASSUME NEW e \in Entries, loop.batch = {e} PROVE Fact = e
  BY <1>4 DEF Fact
<1>5. CASE StartTelling
  <2>1. telling' = [party |-> 1, at |-> "prefs", on |-> {}] /\ loop.at = "handle"
    BY <1>5 DEF StartTelling, NotTelling
  <2>2. FeedTypeOK'
    BY <1>1, <1>5, <2>1 DEF StartTelling, FeedTypeOK
  <2>3. TellingFits'
    BY <1>1, <1>5, <2>1 DEF StartTelling, TellingFits, busVars, Done
  <2>4. SettledIsTold'
    BY <1>1, <1>5 DEF StartTelling, SettledIsTold, busVars
  <2> QED BY <1>3, <1>5, <2>2, <2>3, <2>4 DEF StartTelling, NotificationInv
<1>6. CASE ListPreferences
  <2>1. PICK on \in SUBSET Channels : telling' = [telling EXCEPT !.at = "insert", !.on = on]
    BY <1>6 DEF ListPreferences
  <2>2. /\ telling'.party = telling.party /\ telling'.at = "insert" /\ telling.at = "prefs"
        /\ telling' \in [party : 0 .. 3, at : {"idle", "prefs", "insert", "mail"}, on : SUBSET Channels]
    BY <1>2, <1>6, <2>1 DEF ListPreferences
  <2>3. telling # NotTelling /\ telling.party # 0 /\ telling.party # 3 /\ loop.at = "handle"
    BY <1>1, <2>2 DEF NotTelling, TellingFits
  <2>4. FeedTypeOK'
    BY <1>1, <1>6, <2>2 DEF ListPreferences, FeedTypeOK
  <2>5. TellingFits'
    BY <1>1, <1>6, <2>2, <2>3 DEF ListPreferences, TellingFits, busVars, Done
  <2>6. SettledIsTold'
    BY <1>1, <1>6 DEF ListPreferences, SettledIsTold, busVars
  <2> QED BY <1>3, <1>6, <2>4, <2>5, <2>6 DEF ListPreferences, NotificationInv
<1>7. CASE InsertNotification
  <2>1. /\ telling'.party = telling.party /\ telling'.at = "mail" /\ telling.at = "insert"
        /\ telling' \in [party : 0 .. 3, at : {"idle", "prefs", "insert", "mail"}, on : SUBSET Channels]
    BY <1>2, <1>7 DEF InsertNotification
  <2>2. telling # NotTelling /\ telling.party \in {1, 2} /\ loop.at = "handle"
    BY <1>1, <1>2, <2>1 DEF NotTelling, TellingFits
  <2>3. PICK e \in Entries : loop.batch = {e}
    BY <1>1, <2>2 DEF BatchFits
  <2>4. Fact = e /\ Party \in Recipients /\ Party = PartyOrder[telling.party]
    BY <1>4, <2>2, <2>3 DEF Party, PartyOrder, Recipients
  <2>5. /\ row \subseteq row' /\ muted \subseteq muted' /\ <<e, Party>> \in row' \cup muted'
        /\ row' \subseteq Entries \X Recipients /\ muted' \subseteq Entries \X Recipients
    BY <1>1, <1>7, <2>4 DEF InsertNotification, FeedTypeOK
  <2>6. FeedTypeOK'
    BY <1>1, <1>7, <2>1, <2>5 DEF InsertNotification, FeedTypeOK
  <2>7. TellingFits'
    <3>1. \A k \in {1, 2} : Done(k)' => \A f \in loop'.batch : <<f, PartyOrder[k]>> \in row' \cup muted'
      <4> SUFFICES ASSUME NEW k \in {1, 2}, Done(k)'
                   PROVE  <<e, PartyOrder[k]>> \in row' \cup muted'
        BY <1>7, <2>3 DEF InsertNotification, busVars
      <4>1. CASE k < telling.party
        BY <1>1, <2>3, <2>5, <4>1 DEF TellingFits, Done
      <4>2. CASE k = telling.party
        BY <2>4, <2>5, <4>2
      <4> QED BY <2>1, <4>1, <4>2 DEF Done
    <3> QED BY <1>7, <2>1, <2>2, <3>1 DEF InsertNotification, TellingFits, busVars
  <2>8. SettledIsTold'
    BY <1>1, <1>7, <2>5 DEF InsertNotification, SettledIsTold, busVars
  <2> QED BY <1>3, <1>7, <2>6, <2>7, <2>8 DEF InsertNotification, NotificationInv
<1>8. CASE mailNotification
  <2>1. telling.at = "mail" /\ telling # NotTelling /\ telling.party \in {1, 2} /\ loop.at = "handle"
    BY <1>1, <1>2, <1>8 DEF mailNotification, NotTelling, TellingFits
  <2>2. telling' = [party |-> telling.party + 1, at |-> IF telling.party < 2 THEN "prefs" ELSE "idle", on |-> {}]
    BY <1>8 DEF mailNotification, NotTelling
  <2>3. /\ telling'.party = telling.party + 1 /\ telling'.party \in {2, 3}
        /\ telling'.at = (IF telling.party < 2 THEN "prefs" ELSE "idle")
        /\ telling' \in [party : 0 .. 3, at : {"idle", "prefs", "insert", "mail"}, on : SUBSET Channels]
    BY <2>1, <2>2
  <2>4. FeedTypeOK'
    BY <1>1, <1>8, <2>3 DEF mailNotification, FeedTypeOK
  <2>5. \A k \in {1, 2} : Done(k)' => Done(k)
    BY <2>1, <2>3 DEF Done
  <2>6. TellingFits'
    BY <1>1, <1>8, <2>1, <2>3, <2>5 DEF mailNotification, TellingFits, busVars
  <2>7. SettledIsTold'
    BY <1>1, <1>8 DEF mailNotification, SettledIsTold, busVars
  <2> QED BY <1>3, <1>8, <2>4, <2>6, <2>7 DEF mailNotification, NotificationInv
<1>9. CASE ToldEveryone
  <2>1. BusTypeOK'
    BY <1>1, <1>9, HandlerStepTypes DEF ToldEveryone
  <2>2. loop' = [loop EXCEPT !.at = "ack"] /\ settled' = settled \cup loop.batch /\ loop.at = "handle"
    BY <1>9 DEF ToldEveryone, HandlerSucceeds
  <2>3. PICK e \in Entries : loop.batch = {e}
    BY <1>1, <2>2 DEF BatchFits
  <2>4. loop'.at = "ack" /\ loop'.batch = {e} /\ settled' = settled \cup {e}
    BY <1>1, <2>2, <2>3 DEF LoopStates
  <2>5. BatchFits'
    BY <2>3, <2>4 DEF BatchFits
  <2>6. FeedTypeOK' /\ TellingFits'
    <3>1. telling' = NotTelling /\ row' = row /\ muted' = muted /\ preference' = preference /\ toggles' = toggles
      BY <1>9 DEF ToldEveryone
    <3>2. FeedTypeOK'
      BY <1>1, <3>1 DEF FeedTypeOK, NotTelling
    <3> QED BY <3>1, <3>2 DEF TellingFits, NotTelling, Done
  <2>7. SettledIsTold'
    <3>1. telling.party = 3
      BY <1>9 DEF ToldEveryone
    <3>2. <<e, Buyer>> \in row \cup muted /\ <<e, Seller>> \in row \cup muted
      BY <1>1, <2>3, <3>1 DEF TellingFits, Done, PartyOrder
    <3> QED BY <1>1, <1>9, <2>4, <3>2 DEF ToldEveryone, SettledIsTold, Recipients
  <2> QED BY <2>1, <2>5, <2>6, <2>7 DEF NotificationInv
<1> QED BY <1>5, <1>6, <1>7, <1>8, <1>9 DEF SubscriberStep

\* Every step of the bus and the notifications keeps the invariant.
LEMMA NotificationInvKept == NotificationInv /\ [NotificationNext]_notificationVars => NotificationInv'
<1> SUFFICES ASSUME NotificationInv, [NotificationNext]_notificationVars PROVE NotificationInv'
  OBVIOUS
<1>1. /\ BusTypeOK /\ FeedTypeOK /\ BatchFits /\ TellingFits /\ SettledIsTold
      /\ loop \in LoopStates
  BY BusRows DEF NotificationInv
<1>2. CASE BusStep /\ UNCHANGED feedVars
  <2>1. FeedTypeOK'
    BY <1>1, <1>2 DEF FeedTypeOK, feedVars
  <2> QED BY <1>1, <1>2, <2>1, BusStepTypes, BusStepFits DEF NotificationInv
<1>3. CASE SubscriberStep
  BY <1>3, SubscriberStepFits
<1>4. CASE FailParty \/ RestartProcess
  <2>1. BusTypeOK'
    BY <1>1, <1>4, HandlerStepTypes DEF FailParty, RestartProcess
  <2>2. loop'.at \in {"read", "ensure"} /\ settled' = settled
    <3>1. CASE FailParty
      <4>1. loop' = [loop EXCEPT !.at = "read", !.batch = {}] /\ settled' = settled
        BY <3>1 DEF FailParty, HandlerFails
      <4> QED BY <1>1, <4>1 DEF LoopStates
    <3>2. CASE RestartProcess
      BY <3>2 DEF RestartProcess, Restart, FreshLoop
    <3> QED BY <1>4, <3>1, <3>2
  <2>3. telling' = NotTelling /\ row' = row /\ muted' = muted /\ preference' = preference /\ toggles' = toggles
    BY <1>4 DEF FailParty, RestartProcess
  <2>4. FeedTypeOK'
    BY <1>1, <2>3 DEF FeedTypeOK, NotTelling
  <2>5. BatchFits' /\ TellingFits'
    BY <2>2, <2>3 DEF BatchFits, TellingFits, NotTelling, Done
  <2>6. SettledIsTold'
    BY <1>1, <2>2, <2>3 DEF SettledIsTold
  <2> QED BY <2>1, <2>4, <2>5, <2>6 DEF NotificationInv
<1>5. ASSUME NEW a \in Recipients, NEW channel \in Channels, NEW want \in BOOLEAN,
             UpdateNotificationPreferences(a, channel, want)
      PROVE  NotificationInv'
  <2>1. SplitPreference(channel, want) \in {"none", "on", "off"}
    BY DEF SplitPreference
  <2>2. preference' \in [Recipients \X Channels -> {"none", "on", "off"}]
    BY <1>1, <1>5, <2>1 DEF UpdateNotificationPreferences, FeedTypeOK
  <2>3. toggles' \in 0 .. MaxToggles
    BY <1>1, <1>5, FeedAssumption DEF UpdateNotificationPreferences, FeedTypeOK
  <2>4. FeedTypeOK'
    BY <1>1, <1>5, <2>2, <2>3 DEF UpdateNotificationPreferences, FeedTypeOK
  <2>5. BusTypeOK' /\ BatchFits' /\ TellingFits' /\ SettledIsTold'
    BY <1>1, <1>5 DEF UpdateNotificationPreferences, busVars, BusTypeOK, BatchFits, TellingFits,
                      SettledIsTold, Done
  <2> QED BY <2>4, <2>5 DEF NotificationInv
<1>6. CASE UNCHANGED notificationVars
  <2>1. UNCHANGED busVars /\ UNCHANGED feedVars
    BY <1>6 DEF notificationVars
  <2> QED BY <1>1, <2>1 DEF busVars, feedVars, NotificationInv, BusTypeOK, FeedTypeOK, BatchFits,
                           TellingFits, SettledIsTold, Done
<1> QED BY <1>2, <1>3, <1>4, <1>5, <1>6 DEF NotificationNext

\* The invariant holds for ever.
LEMMA NotificationInvHolds == Spec => []NotificationInv
<1>1. Init => NotificationInv
  BY LiveRuns, NotificationInvStarts
<1>2. NotificationInv /\ [Next]_liveVars => NotificationInv'
  BY LiveRuns, NotificationInvKept
<1> QED BY <1>1, <1>2, PTL DEF Spec

\* An event whose handler returned without an error has told every party, whatever
\* failed or died on the way (account/subscriber.go, service_notification.go).
THEOREM NotificationsStaySound == Spec => [](BusTypeOK /\ FeedTypeOK /\ SettledIsTold)
<1>1. NotificationInv => BusTypeOK /\ FeedTypeOK /\ SettledIsTold
  BY DEF NotificationInv
<1> QED BY <1>1, NotificationInvHolds, PTL

\* An entry handed out leaves the pending list only once its handler succeeded, while
\* Redis keeps the group (infra/eventbus/redis.go).
THEOREM PendingUntilSettled == Spec => UnsettledStaysPending
<1>1. NotificationInv /\ [Next]_liveVars
        => [group.exists /\ group'.exists => \A e \in pending \ pending' : e \in settled]_busVars
  <2> SUFFICES ASSUME NotificationInv, [Next]_liveVars, group.exists, group'.exists,
                      NEW e \in pending \ pending'
               PROVE  e \in settled
    OBVIOUS
  <2>1. BatchFits /\ [NotificationNext]_notificationVars
    BY LiveRuns DEF NotificationInv
  <2>2. CASE BusStep
    <3>1. ASSUME NEW received \in BOOLEAN, ack(received) PROVE e \in settled
      <4>1. loop.at = "ack" /\ e \in loop.batch
        BY <3>1 DEF ack
      <4> QED BY <2>1, <4>1 DEF BatchFits
    <3>2. ASSUME NEW withStream \in BOOLEAN, LoseGroup(withStream) PROVE FALSE
      BY <3>2 DEF LoseGroup
    <3>3. ~Publish /\ ~ensureGroup /\ ~ReadBacklog /\ ~ReadNew /\ ~MissingGroup
      BY DEF Publish, ensureGroup, ReadBacklog, ReadNew, MissingGroup
    <3> QED BY <2>2, <3>1, <3>2, <3>3 DEF BusStep
  <2>3. ~SubscriberStep /\ ~FailParty /\ ~RestartProcess
    BY DEF SubscriberStep, StartTelling, ListPreferences, InsertNotification, mailNotification,
           ToldEveryone, FailParty, RestartProcess, HandlerSucceeds, HandlerFails, Restart, busVars
  <2>4. \A a \in Recipients, channel \in Channels, want \in BOOLEAN :
          ~UpdateNotificationPreferences(a, channel, want)
    BY DEF UpdateNotificationPreferences, busVars
  <2>5. ~UNCHANGED notificationVars
    BY DEF notificationVars, busVars
  <2> QED BY <2>1, <2>2, <2>3, <2>4, <2>5 DEF NotificationNext
<1> QED BY <1>1, NotificationInvHolds, PTL DEF Spec, UnsettledStaysPending

-----------------------------------------------------------------------------
(* The search index.                                                         *)

\* What an embedder holds, and what the model was asked about.
Texts == {<<w>> : w \in IndexWords} \cup {<<w, v>> : w, v \in IndexWords}
Marks == Nat \cup {NoMark}
EmbedderStates ==
  [kind : 1 .. 3, row : {"none"}] \cup [kind : 1 .. 3, row : IndexedRows, mark : Nat, text : Texts]

IndexShapes ==
  /\ clock \in Nat /\ revision \in Nat
  /\ said \in [IndexedRows -> IndexWords]
  /\ mark \in [IndexedRows -> Marks]
  /\ vector \in [IndexedRows -> Texts \cup {NoVector}]
  /\ embedder \in [Embedders -> EmbedderStates]
  /\ late \subseteq IndexedRows
  /\ \A r \in IndexedRows : mark[r] # NoMark => mark[r] \in 1 .. clock

\* A request on the listing that may still be saved has the words the row has, and
\* sends back no mark where none is left.
EditFits ==
  edit.open =>
    /\ edit.revision \in Nat /\ edit.said \in IndexWords /\ edit.mark \in Marks
    /\ edit.mark # NoMark => edit.mark \in 1 .. clock
    /\ revision = edit.revision =>
         /\ edit.said = said["listing"]
         /\ edit.mark = NoMark => mark["listing"] = NoMark

\* While a claimed row's mark is the claim, it says what was claimed; and a request that
\* would send the claim back has the words that were claimed.
HeldFits(h) ==
  LET r == h.row
  IN  r # "none" =>
        /\ h.mark <= clock
        /\ mark[r] = h.mark => h.text[1] = said[r]
        /\ r = "listing" /\ edit.open /\ edit.revision = revision /\ edit.mark = h.mark
             => h.text[1] = edit.said

IndexInv ==
  /\ IndexShapes /\ EditFits
  /\ \A p \in Embedders : HeldFits(embedder[p])
  /\ UnmarkedIsCurrent

OneEmbedder == \A p, q \in Embedders : p = q

\* What one embedder holds is marked until it lets it go, so no save of its is late.
AloneInv ==
  OneEmbedder => late = {} /\ \A p \in Embedders : embedder[p].row # "none" => mark[embedder[p].row] # NoMark

\* The rows there are: a listing, a category, a tag, each in a queue of its own.
LEMMA IndexRows ==
  /\ IndexedRows = {"listing", "category", "tag"} /\ "none" \notin IndexedRows
  /\ Dictionary \subseteq IndexedRows /\ "listing" \in IndexedRows /\ "listing" \notin Dictionary
  /\ \A k \in 1 .. 3 : Kinds[k] \in IndexedRows
<1>1. DOMAIN Kinds = 1 .. 3 /\ Kinds[1] = "listing" /\ Kinds[2] = "category" /\ Kinds[3] = "tag"
  BY DEF Kinds
<1>2. IndexedRows = {"listing", "category", "tag"}
  BY <1>1 DEF IndexedRows
<1> QED BY <1>1, <1>2 DEF Dictionary

\* A text is one: its first word is what the row says itself.
LEMMA TextsAre ==
  /\ \A t \in Texts : t # NoVector /\ t[1] \in IndexWords
  /\ said \in [IndexedRows -> IndexWords] =>
       \A r \in IndexedRows : Text(r) \in Texts /\ Text(r)[1] = said[r]
<1>1. \A t \in Texts : t # NoVector /\ t[1] \in IndexWords
  BY IndexAssumption DEF Texts
<1>2. ASSUME said \in [IndexedRows -> IndexWords], NEW r \in IndexedRows
      PROVE  Text(r) \in Texts /\ Text(r)[1] = said[r]
  <2>1. said["listing"] \in IndexWords /\ said["category"] \in IndexWords /\ said[r] \in IndexWords
    BY <1>2, IndexRows DEF Dictionary
  <2> QED BY <2>1 DEF Text, Texts
<1> QED BY <1>1, <1>2

\* At first every row is marked and no row has a vector.
LEMMA IndexInvStarts == IndexInit => IndexInv
<1> SUFFICES ASSUME IndexInit PROVE IndexInv
  OBVIOUS
<1>1. (CHOOSE w \in IndexWords : TRUE) \in IndexWords
  BY IndexAssumption
<1>2. clock = 1 /\ revision = 1 /\ said \in [IndexedRows -> IndexWords]
  BY <1>1 DEF IndexInit
<1>3. mark \in [IndexedRows -> Marks] /\ \A r \in IndexedRows : mark[r] = 1 /\ mark[r] # NoMark
  BY IndexAssumption DEF IndexInit, Marks
<1>4. vector \in [IndexedRows -> Texts \cup {NoVector}]
  BY DEF IndexInit
<1>5. \A p \in Embedders : embedder[p] = Idling
  BY DEF IndexInit
<1>6. embedder \in [Embedders -> EmbedderStates]
  <2>1. Idling \in EmbedderStates
    BY DEF Idling, EmbedderStates
  <2> QED BY <2>1 DEF IndexInit
<1>7. ~edit.open /\ late = {}
  BY DEF IndexInit, NoEditOpen
<1>8. \A p \in Embedders : HeldFits(embedder[p])
  BY <1>5 DEF HeldFits, Idling
<1> QED BY <1>2, <1>3, <1>4, <1>6, <1>7, <1>8 DEF IndexInv, IndexShapes, EditFits, UnmarkedIsCurrent

\* A batch in hand has its row, its mark and its text.
LEMMA InHand ==
  ASSUME NEW h \in EmbedderStates
  PROVE  /\ h.kind \in 1 .. 3
         /\ h.row # "none" => h.row \in IndexedRows /\ h.mark \in Nat /\ h.text \in Texts
BY DEF EmbedderStates

\* What the clock has passed it has passed after a tick too.
LEMMA ClockGoesOn ==
  ASSUME clock \in Nat, clock' = clock + 1
  PROVE  /\ clock' \in Nat /\ clock + 1 \in 1 .. clock' /\ clock + 1 \in Marks /\ clock + 1 # NoMark
         /\ \A m \in Nat : m <= clock => m <= clock' /\ m # clock + 1
         /\ \A m : m \in 1 .. clock => m \in 1 .. clock' /\ m # clock + 1
BY IndexAssumption DEF Marks

\* The seller's read takes the row as it is.
LEMMA ReadListingFits == IndexInv /\ ReadListing => IndexInv'
<1> SUFFICES ASSUME IndexInv, ReadListing PROVE IndexInv'
  OBVIOUS
<1>1. /\ UNCHANGED <<said, mark, vector, revision, embedder, clock, late>>
      /\ edit' = [open |-> TRUE, revision |-> revision, said |-> said["listing"], mark |-> mark["listing"]]
  BY DEF ReadListing
<1>2. /\ edit'.revision = revision /\ edit'.said = said["listing"] /\ edit'.mark = mark["listing"]
  BY <1>1
<1>3. EditFits'
  BY <1>1, <1>2, IndexRows DEF IndexInv, IndexShapes, EditFits
<1>4. ASSUME NEW p \in Embedders PROVE HeldFits(embedder[p])'
  <2>1. embedder'[p] = embedder[p] /\ HeldFits(embedder[p])
    BY <1>1 DEF IndexInv
  <2> QED BY <1>1, <1>2, <2>1 DEF HeldFits
<1> QED BY <1>1, <1>3, <1>4 DEF IndexInv, IndexShapes, UnmarkedIsCurrent

\* A save that finds its revision has not moved writes its words; unchanged words send
\* the mark back that was read.
LEMMA SaveListingFits == IndexInv /\ SaveListingText => IndexInv'
<1> SUFFICES ASSUME IndexInv, SaveListingText PROVE IndexInv'
  OBVIOUS
<1>1. IndexShapes /\ EditFits /\ UnmarkedIsCurrent /\ edit.open /\ \A p \in Embedders : HeldFits(embedder[p])
  BY DEF IndexInv, SaveListingText
<1>2. /\ vector' = vector /\ embedder' = embedder /\ late' = late /\ clock' = clock + 1 /\ ~edit'.open
  BY DEF SaveListingText, IndexTick, NoEditOpen
<1>3. EditFits'
  BY <1>2 DEF EditFits
<1>4. CASE revision # edit.revision
  <2>1. UNCHANGED <<said, mark, revision>>
    BY <1>4 DEF SaveListingText
  <2>2. IndexShapes'
    BY <1>1, <1>2, <2>1, ClockGoesOn DEF IndexShapes
  <2>3. ASSUME NEW p \in Embedders PROVE HeldFits(embedder[p])'
    <3>1. HeldFits(embedder[p]) /\ embedder[p] \in EmbedderStates /\ clock \in Nat
      BY <1>1 DEF IndexShapes
    <3>2. embedder[p].row # "none" => embedder[p].mark \in Nat
      BY <3>1, InHand
    <3> QED BY <1>2, <2>1, <3>1, <3>2, ClockGoesOn DEF HeldFits
  <2> QED BY <1>1, <1>2, <1>3, <2>1, <2>2, <2>3 DEF IndexInv, UnmarkedIsCurrent
<1>5. CASE revision = edit.revision
  <2>1. PICK w \in IndexWords : /\ said' = [said EXCEPT !["listing"] = w]
                                /\ mark' = [mark EXCEPT !["listing"] = MarkAfter(w)]
                                /\ revision' = revision + 1
    BY <1>5 DEF SaveListingText
  <2>2. /\ said["listing"] = edit.said /\ edit.mark \in Marks
        /\ edit.mark # NoMark => edit.mark \in 1 .. clock
        /\ edit.mark = NoMark => mark["listing"] = NoMark
    BY <1>1, <1>5 DEF EditFits
  <2>3. /\ said' \in [IndexedRows -> IndexWords] /\ said'["listing"] = w
        /\ \A r \in Dictionary : said'[r] = said[r]
    BY <1>1, <2>1, IndexRows DEF IndexShapes
  <2>4. /\ MarkAfter(w) \in Marks /\ (MarkAfter(w) # NoMark => MarkAfter(w) \in 1 .. clock')
        /\ w # edit.said => MarkAfter(w) = clock + 1
        /\ w = edit.said => MarkAfter(w) = edit.mark
    BY <1>1, <1>2, <2>2, ClockGoesOn DEF MarkAfter, IndexShapes
  <2>5. /\ mark' \in [IndexedRows -> Marks] /\ mark'["listing"] = MarkAfter(w)
        /\ \A r \in Dictionary : mark'[r] = mark[r]
    BY <1>1, <2>1, <2>4, IndexRows DEF IndexShapes
  <2>6. IndexShapes'
    <3>1. \A r \in IndexedRows : mark'[r] # NoMark => mark'[r] \in 1 .. clock'
      BY <1>1, <1>2, <2>4, <2>5, ClockGoesOn, IndexRows DEF IndexShapes, Dictionary
    <3>2. clock' \in Nat /\ revision' \in Nat
      BY <1>1, <1>2, <2>1 DEF IndexShapes
    <3> QED BY <1>1, <1>2, <2>3, <2>5, <3>1, <3>2 DEF IndexShapes
  <2>7. ASSUME NEW p \in Embedders PROVE HeldFits(embedder[p])'
    <3> DEFINE h == embedder[p]
    <3>1. HeldFits(h) /\ h \in EmbedderStates /\ clock \in Nat
      BY <1>1 DEF IndexShapes
    <3>2. h.row # "none" => h.row \in IndexedRows /\ h.mark \in Nat
      BY <3>1, InHand
    <3>3. CASE h.row = "listing"
      <4>1. /\ h.mark \in Nat /\ h.mark <= clock
            /\ edit.mark = h.mark => h.text[1] = edit.said
        BY <1>1, <1>5, <3>1, <3>2, <3>3, IndexRows DEF HeldFits
      <4>2. h.mark <= clock' /\ h.mark # clock + 1
        BY <1>2, <2>2, <2>4, <3>1, <4>1, ClockGoesOn
      <4>3. MarkAfter(w) = h.mark => h.text[1] = w
        BY <2>4, <4>1, <4>2
      <4> QED BY <1>2, <2>3, <2>5, <3>3, <4>2, <4>3 DEF HeldFits
    <3>4. CASE h.row \in Dictionary
      <4>1. mark'[h.row] = mark[h.row] /\ said'[h.row] = said[h.row] /\ h.row # "none" /\ h.row # "listing"
        BY <2>3, <2>5, <3>4, IndexRows
      <4>2. h.mark <= clock'
        BY <1>2, <3>1, <3>2, <4>1, ClockGoesOn DEF HeldFits
      <4> QED BY <1>2, <3>1, <4>1, <4>2 DEF HeldFits
    <3>5. CASE h.row = "none"
      BY <1>2, <3>5 DEF HeldFits
    <3> QED BY <3>2, <3>3, <3>4, <3>5, IndexRows DEF Dictionary
  <2>8. UnmarkedIsCurrent'
    <3>1. ASSUME "listing" \notin late, mark'["listing"] = NoMark
          PROVE  vector["listing"] # NoVector /\ vector["listing"][1] = said'["listing"]
      <4>1. edit.mark = NoMark /\ w = edit.said
        BY <1>1, <1>2, <2>4, <2>5, <3>1, ClockGoesOn DEF IndexShapes
      <4> QED BY <1>1, <2>2, <2>3, <3>1, <4>1, IndexRows DEF UnmarkedIsCurrent
    <3>2. ASSUME NEW r \in Dictionary \ late, mark'[r] = NoMark
          PROVE  vector[r] # NoVector /\ vector[r][1] = said'[r]
      BY <1>1, <2>3, <2>5, <3>2, IndexRows DEF UnmarkedIsCurrent
    <3> QED BY <1>2, <3>1, <3>2, IndexRows DEF UnmarkedIsCurrent, Dictionary
  <2> QED BY <1>3, <2>6, <2>7, <2>8 DEF IndexInv
<1> QED BY <1>4, <1>5

\* A new word of a category or a tag marks it past every claim.
LEMMA WriteDictionaryFits ==
  ASSUME IndexInv, NEW r \in Dictionary, WriteDictionary(r)
  PROVE  IndexInv'
<1>1. IndexShapes /\ EditFits /\ UnmarkedIsCurrent /\ \A p \in Embedders : HeldFits(embedder[p])
  BY DEF IndexInv
<1>2. /\ UNCHANGED <<vector, revision, edit, embedder, late>> /\ clock' = clock + 1
      /\ mark' = [mark EXCEPT ![r] = clock + 1]
  BY DEF WriteDictionary, IndexTick
<1>3. PICK w \in IndexWords : said' = [said EXCEPT ![r] = w]
  BY DEF WriteDictionary
<1>4. r \in IndexedRows /\ r # "listing" /\ r # "none" /\ clock \in Nat
  BY <1>1, IndexRows DEF IndexShapes
<1>5. /\ mark' \in [IndexedRows -> Marks] /\ mark'[r] = clock + 1
      /\ \A s \in IndexedRows \ {r} : mark'[s] = mark[s]
  BY <1>1, <1>2, <1>4, ClockGoesOn DEF IndexShapes
<1>6. /\ said' \in [IndexedRows -> IndexWords] /\ \A s \in IndexedRows \ {r} : said'[s] = said[s]
  BY <1>1, <1>3, <1>4 DEF IndexShapes
<1>7. IndexShapes'
  <2>1. \A s \in IndexedRows : mark'[s] # NoMark => mark'[s] \in 1 .. clock'
    BY <1>1, <1>2, <1>4, <1>5, ClockGoesOn DEF IndexShapes
  <2> QED BY <1>1, <1>2, <1>4, <1>5, <1>6, <2>1, ClockGoesOn DEF IndexShapes
<1>8. EditFits'
  BY <1>1, <1>2, <1>4, <1>5, <1>6, ClockGoesOn, IndexRows DEF EditFits
<1>9. ASSUME NEW p \in Embedders PROVE HeldFits(embedder[p])'
  <2> DEFINE h == embedder[p]
  <2>1. HeldFits(h) /\ h \in EmbedderStates
    BY <1>1 DEF IndexShapes
  <2>2. h.row # "none" => h.row \in IndexedRows /\ h.mark \in Nat /\ h.mark <= clock
    BY <2>1, InHand DEF HeldFits
  <2>3. h.row # "none" => h.mark <= clock' /\ h.mark # clock + 1
    BY <1>2, <1>4, <2>2, ClockGoesOn
  <2>4. CASE h.row = r
    BY <1>2, <1>4, <1>5, <2>3, <2>4, ClockGoesOn DEF HeldFits
  <2>5. CASE h.row # r /\ h.row # "none"
    <3>1. mark'[h.row] = mark[h.row] /\ said'[h.row] = said[h.row]
      BY <1>5, <1>6, <2>2, <2>5
    <3> QED BY <1>2, <2>1, <2>3, <2>5, <3>1 DEF HeldFits
  <2>6. CASE h.row = "none"
    BY <1>2, <2>6 DEF HeldFits
  <2> QED BY <2>4, <2>5, <2>6
<1>10. UnmarkedIsCurrent'
  BY <1>1, <1>2, <1>4, <1>5, <1>6, ClockGoesOn DEF UnmarkedIsCurrent
<1> QED BY <1>7, <1>8, <1>9, <1>10 DEF IndexInv

\* An embedder at its next queue holds nothing.
LEMMA NextQueueIs ==
  ASSUME NEW h \in EmbedderStates
  PROVE  NextQueue(h) \in EmbedderStates /\ NextQueue(h).row = "none"
<1>1. Len(Kinds) = 3 /\ h.kind \in 1 .. 3
  BY InHand DEF Kinds
<1>2. (h.kind % Len(Kinds)) + 1 \in 1 .. 3
  BY <1>1
<1> QED BY <1>2 DEF NextQueue, EmbedderStates

\* An embedder that lets go of its batch, or never had one, leaves the rows alone.
LEMMA LetsGo ==
  ASSUME IndexInv, UNCHANGED <<said, mark, vector, revision, edit, clock, late>>,
         NEW p \in Embedders, NEW h \in EmbedderStates, h.row = "none",
         embedder' = [embedder EXCEPT ![p] = h]
  PROVE  IndexInv'
<1>1. IndexShapes /\ EditFits /\ UnmarkedIsCurrent /\ \A q \in Embedders : HeldFits(embedder[q])
  BY DEF IndexInv
<1>2. embedder' \in [Embedders -> EmbedderStates]
  BY <1>1 DEF IndexShapes
<1>3. ASSUME NEW q \in Embedders PROVE HeldFits(embedder[q])'
  <2>1. CASE q = p
    <3>1. embedder'[q] = h
      BY <1>1, <2>1 DEF IndexShapes
    <3> QED BY <3>1 DEF HeldFits
  <2>2. CASE q # p
    <3>1. embedder'[q] = embedder[q] /\ HeldFits(embedder[q])
      BY <1>1, <2>2 DEF IndexShapes
    <3> QED BY <3>1 DEF HeldFits
  <2> QED BY <2>1, <2>2
<1> QED BY <1>1, <1>2, <1>3 DEF IndexInv, IndexShapes, EditFits, UnmarkedIsCurrent

\* The claim moves the mark to now, and the batch carries it with the row's words.
LEMMA ListStaleFits ==
  ASSUME IndexInv, NEW p \in Embedders, ListStale(p)
  PROVE  IndexInv'
<1> DEFINE r == Kinds[embedder[p].kind]
<1>1. IndexShapes /\ EditFits /\ UnmarkedIsCurrent /\ \A q \in Embedders : HeldFits(embedder[q])
  BY DEF IndexInv
<1>2. r \in IndexedRows /\ r # "none" /\ embedder[p].kind \in 1 .. 3 /\ clock \in Nat
  BY <1>1, InHand, IndexRows DEF IndexShapes
<1>3. /\ UNCHANGED <<said, vector, revision, edit, late>> /\ clock' = clock + 1
      /\ mark[r] # NoMark /\ mark' = [mark EXCEPT ![r] = clock + 1]
      /\ embedder' = [embedder EXCEPT ![p] = [kind |-> embedder[p].kind, row |-> r,
                                              mark |-> clock + 1, text |-> Text(r)]]
  BY DEF ListStale, IndexTick
<1> HIDE DEF r
<1>4. Text(r) \in Texts /\ Text(r)[1] = said[r]
  BY <1>1, <1>2, TextsAre DEF IndexShapes
<1>5. /\ mark' \in [IndexedRows -> Marks] /\ mark'[r] = clock + 1
      /\ \A s \in IndexedRows \ {r} : mark'[s] = mark[s]
  BY <1>1, <1>2, <1>3, ClockGoesOn DEF IndexShapes
<1>6. PICK h \in EmbedderStates : /\ embedder' = [embedder EXCEPT ![p] = h]
                                  /\ h.row = r /\ h.mark = clock + 1 /\ h.text = Text(r)
  <2>1. clock + 1 \in Nat
    BY <1>2
  <2>2. [kind |-> embedder[p].kind, row |-> r, mark |-> clock + 1, text |-> Text(r)] \in EmbedderStates
    BY <1>2, <1>4, <2>1 DEF EmbedderStates
  <2> QED BY <1>3, <2>2
<1>7. IndexShapes'
  <2>1. \A s \in IndexedRows : mark'[s] # NoMark => mark'[s] \in 1 .. clock'
    BY <1>1, <1>2, <1>3, <1>5, ClockGoesOn DEF IndexShapes
  <2>2. embedder' \in [Embedders -> EmbedderStates]
    BY <1>1, <1>6 DEF IndexShapes
  <2> QED BY <1>1, <1>2, <1>3, <1>5, <2>1, <2>2, ClockGoesOn DEF IndexShapes
<1>8. EditFits'
  <2>1. edit.open /\ revision = edit.revision /\ edit.mark = NoMark => r # "listing"
    BY <1>1, <1>3 DEF EditFits
  <2> QED BY <1>1, <1>2, <1>3, <1>5, <2>1, ClockGoesOn, IndexRows DEF EditFits
<1>9. ASSUME NEW q \in Embedders PROVE HeldFits(embedder[q])'
  <2>1. CASE q = p
    <3>1. embedder'[q] = h
      BY <1>1, <1>6, <2>1 DEF IndexShapes
    <3>2. edit.open => edit.mark # clock + 1
      BY <1>1, <1>2, <1>3, ClockGoesOn DEF EditFits
    <3>3. mark'[r] # NoMark /\ clock + 1 <= clock'
      BY <1>2, <1>3, <1>5, ClockGoesOn
    <3> QED BY <1>3, <1>4, <1>6, <3>1, <3>2, <3>3 DEF HeldFits
  <2>2. CASE q # p
    <3> DEFINE g == embedder[q]
    <3>1. embedder'[q] = g /\ HeldFits(g) /\ g \in EmbedderStates
      BY <1>1, <1>6, <2>2 DEF IndexShapes
    <3>2. g.row # "none" => g.row \in IndexedRows /\ g.mark \in Nat /\ g.mark <= clock
      BY <3>1, InHand DEF HeldFits
    <3>3. g.row # "none" => g.mark <= clock' /\ g.mark # clock + 1
      BY <1>2, <1>3, <3>2, ClockGoesOn
    <3>4. g.row # "none" => mark'[g.row] = (IF g.row = r THEN clock + 1 ELSE mark[g.row])
      BY <1>5, <3>2
    <3> HIDE DEF g
    <3> QED BY <1>3, <3>1, <3>3, <3>4 DEF HeldFits
  <2> QED BY <2>1, <2>2
<1>10. UnmarkedIsCurrent'
  BY <1>1, <1>2, <1>3, <1>5, ClockGoesOn DEF UnmarkedIsCurrent
<1> QED BY <1>7, <1>8, <1>9, <1>10 DEF IndexInv

\* The vector of the claim, and the clear of its mark where the mark is still the claim;
\* a batch that finds no mark left may have older words than the vector it overwrites.
LEMMA SaveVectorsFits ==
  ASSUME IndexInv, NEW p \in Embedders, SaveVectors(p)
  PROVE  IndexInv'
<1> DEFINE h == embedder[p]
<1> DEFINE r == h.row
<1>1. IndexShapes /\ EditFits /\ UnmarkedIsCurrent /\ HeldFits(h) /\ h \in EmbedderStates
  BY DEF IndexInv, IndexShapes
<1>2. /\ UNCHANGED <<said, revision, edit, clock>> /\ r # "none"
      /\ vector' = [vector EXCEPT ![r] = h.text]
      /\ mark' = [mark EXCEPT ![r] = ClearMark(r, h.mark)]
      /\ embedder' = [embedder EXCEPT ![p] = [kind |-> h.kind, row |-> "none"]]
      /\ late' = CASE mark[r] = h.mark -> late \ {r}
                   [] mark[r] = NoMark -> late \cup {r}
                   [] OTHER            -> late
  BY DEF SaveVectors
<1>3. /\ r \in IndexedRows /\ h.text \in Texts /\ h.kind \in 1 .. 3 /\ h.mark # NoMark
      /\ mark[r] = h.mark => h.text[1] = said[r]
  BY <1>1, <1>2, InHand, IndexAssumption DEF HeldFits
<1> HIDE DEF r, h
<1>4. /\ vector' \in [IndexedRows -> Texts \cup {NoVector}] /\ vector'[r] = h.text
      /\ \A s \in IndexedRows \ {r} : vector'[s] = vector[s]
  BY <1>1, <1>2, <1>3 DEF IndexShapes
<1>5. /\ ClearMark(r, h.mark) \in {mark[r], NoMark}
      /\ ClearMark(r, h.mark) = NoMark => mark[r] = h.mark \/ mark[r] = NoMark
  BY <1>3 DEF ClearMark
<1>6. /\ mark' \in [IndexedRows -> Marks] /\ mark'[r] = ClearMark(r, h.mark)
      /\ \A s \in IndexedRows \ {r} : mark'[s] = mark[s]
  BY <1>1, <1>2, <1>3, <1>5 DEF IndexShapes, Marks
<1>7. /\ embedder' \in [Embedders -> EmbedderStates] /\ embedder'[p].row = "none"
      /\ \A q \in Embedders \ {p} : embedder'[q] = embedder[q]
  <2>1. [kind |-> h.kind, row |-> "none"] \in EmbedderStates
    BY <1>3 DEF EmbedderStates
  <2> QED BY <1>1, <1>2, <2>1 DEF IndexShapes
<1>8. /\ late' \subseteq IndexedRows
      /\ \A s \in IndexedRows \ {r} : s \in late' <=> s \in late
      /\ mark[r] = h.mark => r \notin late'
      /\ mark[r] = NoMark => r \in late'
  BY <1>1, <1>2, <1>3 DEF IndexShapes
<1>9. IndexShapes'
  <2>1. \A s \in IndexedRows : mark'[s] # NoMark => mark'[s] \in 1 .. clock'
    BY <1>1, <1>2, <1>5, <1>6 DEF IndexShapes
  <2> QED BY <1>1, <1>2, <1>4, <1>6, <1>7, <1>8, <2>1 DEF IndexShapes
<1>10. EditFits'
  <2>1. mark["listing"] = NoMark => mark'["listing"] = NoMark
    BY <1>5, <1>6, IndexRows
  <2> QED BY <1>1, <1>2, <2>1 DEF EditFits
<1>11. ASSUME NEW q \in Embedders PROVE HeldFits(embedder[q])'
  <2>1. CASE q = p
    BY <1>7, <2>1 DEF HeldFits
  <2>2. CASE q # p
    <3> DEFINE g == embedder[q]
    <3>1. embedder'[q] = g /\ HeldFits(g) /\ g \in EmbedderStates
      BY <1>1, <1>7, <2>2 DEF IndexInv, IndexShapes
    <3>2. g.row # "none" => g.row \in IndexedRows /\ g.mark # NoMark
      BY <3>1, InHand, IndexAssumption
    <3> HIDE DEF g
    <3>3. g.row # "none" /\ mark'[g.row] = g.mark => mark[g.row] = g.mark
      BY <1>5, <1>6, <3>2
    <3> QED BY <1>2, <3>1, <3>3 DEF HeldFits
  <2> QED BY <2>1, <2>2
<1>12. UnmarkedIsCurrent'
  <2>1. mark'[r] = NoMark /\ r \notin late' => vector'[r] # NoVector /\ vector'[r][1] = said'[r]
    BY <1>2, <1>3, <1>4, <1>5, <1>6, <1>8, TextsAre
  <2>2. \A s \in IndexedRows \ {r} :
           mark'[s] = NoMark /\ s \notin late' => vector'[s] # NoVector /\ vector'[s][1] = said'[s]
    BY <1>1, <1>2, <1>4, <1>6, <1>8 DEF UnmarkedIsCurrent
  <2> QED BY <2>1, <2>2 DEF UnmarkedIsCurrent
<1> QED BY <1>9, <1>10, <1>11, <1>12 DEF IndexInv

\* Every step of the index keeps the invariant.
LEMMA IndexInvKept == IndexInv /\ [IndexNext]_indexVars => IndexInv'
<1> SUFFICES ASSUME IndexInv, [IndexNext]_indexVars PROVE IndexInv'
  OBVIOUS
<1>1. ASSUME NEW p \in Embedders, QueueEmpty(p) PROVE IndexInv'
  <2>1. embedder[p] \in EmbedderStates
    BY DEF IndexInv, IndexShapes
  <2>2. /\ UNCHANGED <<said, mark, vector, revision, edit, clock, late>>
        /\ embedder' = [embedder EXCEPT ![p] = NextQueue(embedder[p])]
    BY <1>1 DEF QueueEmpty
  <2> QED BY <2>1, <2>2, NextQueueIs, LetsGo
<1>2. ASSUME NEW p \in Embedders, NEW restarted \in BOOLEAN, EmbedFails(p, restarted) PROVE IndexInv'
  <2> DEFINE h == IF restarted THEN Idling ELSE NextQueue(embedder[p])
  <2>1. embedder[p] \in EmbedderStates /\ Idling \in EmbedderStates /\ Idling.row = "none"
    BY DEF IndexInv, IndexShapes, Idling, EmbedderStates
  <2>2. h \in EmbedderStates /\ h.row = "none"
    BY <2>1, NextQueueIs
  <2>3. /\ UNCHANGED <<said, vector, revision, edit, clock, late>>
        /\ embedder' = [embedder EXCEPT ![p] = h]
        /\ mark' = [mark EXCEPT ![embedder[p].row] = mark[embedder[p].row]]
    BY <1>2 DEF EmbedFails, MarkLeft
  <2> HIDE DEF h
  <2>4. mark' = mark
    BY <2>3 DEF IndexInv, IndexShapes
  <2> QED BY <2>2, <2>3, <2>4, LetsGo
<1>3. CASE UNCHANGED indexVars
  <2>1. ASSUME NEW p \in Embedders PROVE HeldFits(embedder[p])'
    <3>1. HeldFits(embedder[p]) /\ embedder' = embedder
      BY <1>3 DEF IndexInv, indexVars
    <3> QED BY <1>3, <3>1 DEF indexVars, HeldFits
  <2> QED BY <1>3, <2>1 DEF indexVars, IndexInv, IndexShapes, EditFits, UnmarkedIsCurrent
<1>4. CASE IndexNext
  BY <1>1, <1>2, <1>4, ReadListingFits, SaveListingFits, WriteDictionaryFits, ListStaleFits, SaveVectorsFits
     DEF IndexNext, EmbedderStep
<1> QED BY <1>3, <1>4

\* The invariant says what the index promises.
LEMMA IndexInvIsSound == IndexInv => IndexTypeOK /\ UnmarkedIsCurrent
<1> SUFFICES ASSUME IndexInv PROVE IndexTypeOK /\ UnmarkedIsCurrent
  OBVIOUS
<1>1. IndexShapes /\ UnmarkedIsCurrent
  BY DEF IndexInv
<1>2. \A r \in IndexedRows : mark[r] \in 1 .. clock \cup {NoMark}
  BY <1>1 DEF IndexShapes
<1>3. \A r \in IndexedRows : vector[r] = NoVector \/ vector[r][1] \in IndexWords
  BY <1>1, TextsAre DEF IndexShapes
<1>4. \A p \in Embedders : embedder[p].row \in IndexedRows \cup {"none"}
  BY <1>1, InHand DEF IndexShapes
<1> QED BY <1>1, <1>2, <1>3, <1>4 DEF IndexTypeOK, IndexShapes

\* One embedder's row stays marked while it works, through every step of the index.
LEMMA AloneInvKept == IndexInv /\ AloneInv /\ [IndexNext]_indexVars => AloneInv'
<1> SUFFICES ASSUME IndexInv, AloneInv, OneEmbedder, [IndexNext]_indexVars
             PROVE  late' = {} /\ \A p \in Embedders : embedder'[p].row # "none" => mark'[embedder'[p].row] # NoMark
  BY DEF AloneInv, OneEmbedder
<1>1. /\ IndexShapes /\ EditFits /\ late = {}
      /\ \A p \in Embedders : /\ embedder[p].row # "none" => mark[embedder[p].row] # NoMark
                              /\ embedder[p] \in EmbedderStates
  BY DEF IndexInv, AloneInv, IndexShapes
<1>2. \A p \in Embedders : embedder[p].row # "none" => embedder[p].row \in IndexedRows
  BY <1>1, InHand
<1>3. CASE ReadListing \/ UNCHANGED indexVars
  BY <1>1, <1>3 DEF ReadListing, indexVars
<1>4. CASE SaveListingText
  <2>1. late' = late /\ embedder' = embedder
    BY <1>4 DEF SaveListingText
  <2>2. ASSUME NEW r \in IndexedRows, mark[r] # NoMark PROVE mark'[r] # NoMark
    <3>1. CASE revision # edit.revision
      BY <1>4, <2>2, <3>1 DEF SaveListingText
    <3>2. CASE revision = edit.revision
      <4>1. PICK w \in IndexWords : mark' = [mark EXCEPT !["listing"] = MarkAfter(w)]
        BY <1>4, <3>2 DEF SaveListingText
      <4>2. mark["listing"] # NoMark => MarkAfter(w) # NoMark
        <5>1. mark["listing"] # NoMark => edit.mark # NoMark
          BY <1>1, <1>4, <3>2 DEF EditFits, SaveListingText
        <5>2. clock + 1 # NoMark
          BY <1>1, IndexAssumption DEF IndexShapes
        <5> QED BY <5>1, <5>2 DEF MarkAfter
      <4> QED BY <1>1, <2>2, <4>1, <4>2 DEF IndexShapes
    <3> QED BY <3>1, <3>2
  <2> QED BY <1>1, <1>2, <2>1, <2>2
<1>5. ASSUME NEW r \in Dictionary, WriteDictionary(r)
      PROVE  late' = {} /\ \A p \in Embedders : embedder'[p].row # "none" => mark'[embedder'[p].row] # NoMark
  <2>1. /\ late' = late /\ embedder' = embedder /\ mark' = [mark EXCEPT ![r] = clock + 1]
        /\ clock + 1 # NoMark /\ mark \in [IndexedRows -> Marks]
    BY <1>1, <1>5, IndexAssumption DEF WriteDictionary, IndexShapes
  <2> QED BY <1>1, <1>2, <2>1
<1>6. ASSUME NEW p \in Embedders, ListStale(p)
      PROVE  late' = {} /\ \A q \in Embedders : embedder'[q].row # "none" => mark'[embedder'[q].row] # NoMark
  <2> DEFINE r == Kinds[embedder[p].kind]
  <2>1. r \in IndexedRows /\ clock + 1 # NoMark /\ mark \in [IndexedRows -> Marks]
    BY <1>1, InHand, IndexRows, IndexAssumption DEF IndexShapes
  <2>2. /\ late' = late /\ mark' = [mark EXCEPT ![r] = clock + 1]
        /\ embedder' = [embedder EXCEPT ![p] = [kind |-> @.kind, row |-> r, mark |-> clock + 1, text |-> Text(r)]]
        /\ embedder \in [Embedders -> EmbedderStates]
    BY <1>1, <1>6 DEF ListStale, IndexShapes
  <2> HIDE DEF r
  <2>3. \A q \in Embedders : embedder'[q].row = r
    BY <2>2 DEF OneEmbedder
  <2> QED BY <1>1, <2>1, <2>2, <2>3
<1>7. ASSUME NEW p \in Embedders, NEW h, h.row = "none", embedder' = [embedder EXCEPT ![p] = h], late' = late
      PROVE  late' = {} /\ \A q \in Embedders : embedder'[q].row # "none" => mark'[embedder'[q].row] # NoMark
  <2>1. \A q \in Embedders : embedder'[q].row = "none"
    BY <1>1, <1>7 DEF IndexShapes, OneEmbedder
  <2> QED BY <1>1, <1>7, <2>1
<1>8. ASSUME NEW p \in Embedders, SaveVectors(p)
      PROVE  late' = {} /\ \A q \in Embedders : embedder'[q].row # "none" => mark'[embedder'[q].row] # NoMark
  <2> DEFINE h == embedder[p]
  <2>1. mark[h.row] # NoMark /\ late = {}
    BY <1>1, <1>8 DEF SaveVectors
  <2>2. late' = {}
    BY <1>8, <2>1 DEF SaveVectors
  <2>3. embedder' = [embedder EXCEPT ![p] = [kind |-> embedder[p].kind, row |-> "none"]]
    BY <1>8 DEF SaveVectors
  <2> QED BY <1>1, <1>7, <2>2, <2>3
<1>9. ASSUME NEW p \in Embedders, QueueEmpty(p) \/ \E restarted \in BOOLEAN : EmbedFails(p, restarted)
      PROVE  late' = {} /\ \A q \in Embedders : embedder'[q].row # "none" => mark'[embedder'[q].row] # NoMark
  <2>1. NextQueue(embedder[p]).row = "none" /\ Idling.row = "none"
    BY <1>1, NextQueueIs DEF Idling
  <2>2. late' = late /\ \E h : h.row = "none" /\ embedder' = [embedder EXCEPT ![p] = h]
    BY <1>9, <2>1 DEF QueueEmpty, EmbedFails
  <2> QED BY <1>7, <2>2
<1>10. CASE IndexNext
  BY <1>3, <1>4, <1>5, <1>6, <1>8, <1>9, <1>10 DEF IndexNext, EmbedderStep
<1> QED BY <1>3, <1>10

\* A row out of the queue is found by what it says, through edits saved while the model
\* worked, marks sent back by older reads, failures and restarts, with any number of
\* embedders: unless the batch that wrote its vector last found the mark gone, which
\* takes a second embedder on the same row (catalog/indexer.go,
\* adapter/postgres/embedding.go).
THEOREM IndexStaysSound == Spec => [](IndexTypeOK /\ UnmarkedIsCurrent /\ NoneLateAlone)
<1>1. Init => IndexInv /\ AloneInv
  <2>1. IndexInit => AloneInv
    BY DEF IndexInit, Idling, AloneInv
  <2> QED BY <2>1, LiveRuns, IndexInvStarts
<1>2. IndexInv /\ AloneInv /\ [Next]_liveVars => IndexInv' /\ AloneInv'
  BY LiveRuns, IndexInvKept, AloneInvKept
<1>3. AloneInv => NoneLateAlone
  BY DEF AloneInv, NoneLateAlone, OneEmbedder
<1> QED BY <1>1, <1>2, <1>3, IndexInvIsSound, PTL DEF Spec

-----------------------------------------------------------------------------
(* The durable runs.                                                         *)

\* The rows a run reads, their ranges named.
RunFlags == BOOLEAN
Sales == [status : {"none", "open", "cancelled", "completed"}, confirmed : RunFlags, received : RunFlags,
          windowOver : RunFlags, escalated : RunFlags, by : {"none", "party", "refund"}]
Checkouts == [status : {"unpaid", "paid", "settled", "abandoned"}, windowOver : RunFlags]
Verdicts == {"true", "false"}
CaseStates == [raised : 0 .. MaxRunCases, status : {"none", "live", "accepted", "closed"}]

\* The rows of the runs one by one.
LEMMA RunRows ==
  RunTypeOK <=>
    /\ checkout \in Checkouts /\ sale \in Sales /\ case \in CaseStates
    /\ signalled \subseteq Promises \X Verdicts
    /\ promise \in [Promises -> {Unresolved} \cup Verdicts]
    /\ checkoutRun \in CheckoutPhases /\ orderRun \in OrderPhases
    /\ lostCalls \in 0 .. MaxLostCalls
BY DEF RunTypeOK, Checkouts, Sales, CaseStates, Verdicts, RunFlags

\* What the runs will hear: signals taken, delivered or not.
Told(name) == Resolved(name) \/ \E v \in Verdicts : <<name, v>> \in signalled

\* The sale as an order's life allows it, by itself and beside its case.
SaleFits(o) ==
  /\ o.status = "none" => o = NoSale
  /\ o.received => o.confirmed
  /\ o.windowOver => o.received
  /\ o.by = "refund" => o.status = "cancelled"

\* A signal follows the row it is about.
SignalsFollow ==
  /\ Told("confirmed") => sale.confirmed
  /\ Told("cancelled") => sale.status = "cancelled"
  /\ Told("received") => sale.received
  /\ Told("refund-raised") => case.raised > 0

RunInv == RunTypeOK /\ RunsFollowRows /\ SaleFits(sale) /\ SignalsFollow

\* The invariant holds before the checkout is paid and before any signal.
LEMMA RunInvStarts == RunInit => RunInv
<1> SUFFICES ASSUME RunInit PROVE RunInv
  OBVIOUS
<1>1. /\ checkout = [status |-> "unpaid", windowOver |-> FALSE] /\ sale = NoSale
      /\ case = [raised |-> 0, status |-> "none"] /\ signalled = {}
      /\ promise = [p \in Promises |-> Unresolved]
      /\ checkoutRun \in {"none", "waiting"} /\ orderRun = "none"
  BY DEF RunInit
<1>2. lostCalls \in 0 .. MaxLostCalls
  BY RunAssumption DEF RunInit
<1>3. RunTypeOK
  <2>1. NoSale \in Sales
    BY DEF NoSale, Sales, RunFlags
  <2>2. checkout \in Checkouts
    BY <1>1 DEF Checkouts, RunFlags
  <2>3. case \in CaseStates
    BY <1>1, RunAssumption DEF CaseStates
  <2>4. checkoutRun \in CheckoutPhases /\ orderRun \in OrderPhases
    BY <1>1 DEF CheckoutPhases, OrderPhases
  <2> QED BY <1>1, <1>2, <2>1, <2>2, <2>3, <2>4, RunRows
<1>4. \A name \in Promises : ~Told(name)
  BY <1>1 DEF Told, Resolved
<1>5. SignalsFollow
  BY <1>4 DEF SignalsFollow, Promises
<1>6. SaleFits(sale) /\ RunsFollowRows
  BY <1>1 DEF NoSale, SaleFits, RunsFollowRows
<1> QED BY <1>3, <1>5, <1>6 DEF RunInv

\* A signal that is taken is told; one that is lost changes nothing; nothing else is told.
LEMMA SignalTells ==
  ASSUME RunTypeOK, NEW name \in Promises, NEW v \in Verdicts, Signal(name, v), promise' = promise
  PROVE  /\ signalled' \subseteq Promises \X Verdicts /\ lostCalls' \in 0 .. MaxLostCalls
         /\ \A other : Told(other)' => Told(other) \/ other = name
<1>1. /\ signalled \subseteq Promises \X Verdicts /\ lostCalls \in 0 .. MaxLostCalls
  BY RunRows
<1>2. signalled' \subseteq signalled \cup {<<name, v>>} /\ lostCalls' \in 0 .. MaxLostCalls
  BY <1>1, RunAssumption DEF Signal
<1> QED BY <1>1, <1>2 DEF Told, Resolved

\* A settlement tells the run that it was paid, and starts the order's run at most once.
LEMMA StartTells ==
  ASSUME RunTypeOK, SignalAndStart("paid"), promise' = promise
  PROVE  /\ signalled' \subseteq Promises \X Verdicts /\ lostCalls' \in 0 .. MaxLostCalls
         /\ orderRun' \in OrderPhases
         /\ orderRun' = orderRun \/ orderRun' = "confirmation"
         /\ \A other : Told(other)' => Told(other) \/ other = "paid"
<1>1. /\ signalled \subseteq Promises \X Verdicts /\ lostCalls \in 0 .. MaxLostCalls /\ orderRun \in OrderPhases
  BY RunRows
<1>2. PICK taken \in BOOLEAN, started \in BOOLEAN :
        LET lost == (IF taken THEN 0 ELSE 1) + (IF started THEN 0 ELSE 1) IN
        /\ lostCalls + lost <= MaxLostCalls
        /\ lostCalls' = lostCalls + lost
        /\ signalled' = IF taken THEN signalled \union {<<"paid", "true">>} ELSE signalled
        /\ orderRun' = IF started /\ orderRun = "none" THEN "confirmation" ELSE orderRun
  BY DEF SignalAndStart
<1>3. signalled' \subseteq signalled \cup {<<"paid", "true">>}
  BY <1>2
<1>4. orderRun' = orderRun \/ orderRun' = "confirmation"
  BY <1>2
<1>5. lostCalls' \in 0 .. MaxLostCalls
  BY <1>1, <1>2, RunAssumption
<1>6. "paid" \in Promises /\ "true" \in Verdicts /\ "confirmation" \in OrderPhases
  BY DEF Promises, Verdicts, OrderPhases
<1> QED BY <1>1, <1>3, <1>4, <1>5, <1>6 DEF Told, Resolved

\* A delivery tells nothing that was not on its way.
LEMMA DeliverTells ==
  ASSUME RunTypeOK, NEW s \in signalled, Deliver(s)
  PROVE  RunTypeOK' /\ \A other \in Promises : Told(other)' => Told(other)
<1>1. /\ signalled \subseteq Promises \X Verdicts
      /\ promise \in [Promises -> {Unresolved} \cup Verdicts]
  BY RunRows
<1>2. PICK name \in Promises, v \in Verdicts : s = <<name, v>>
  BY <1>1
<1>3. /\ signalled' = signalled \ {s} /\ UNCHANGED <<checkout, sale, case, checkoutRun, orderRun, lostCalls>>
      /\ promise' = [promise EXCEPT ![name] = IF promise[name] = Unresolved THEN v ELSE promise[name]]
  BY <1>2 DEF Deliver
<1>4. /\ promise' \in [Promises -> {Unresolved} \cup Verdicts]
      /\ \A other \in Promises \ {name} : promise'[other] = promise[other]
  BY <1>1, <1>3
<1>5. RunTypeOK'
  BY <1>3, <1>4 DEF RunTypeOK, Verdicts
<1>6. Told(name)
  BY <1>2 DEF Told
<1>7. ASSUME NEW other \in Promises, Told(other)' PROVE Told(other)
  <2>1. CASE other = name
    BY <1>6, <2>1
  <2>2. CASE other # name
    BY <1>3, <1>4, <1>7, <2>2 DEF Told, Resolved
  <2> QED BY <2>1, <2>2
<1> QED BY <1>5, <1>7

\* A sale after one of its fields was written.
LEMMA SaleMoves ==
  ASSUME NEW o \in Sales, NEW st \in {"none", "open", "cancelled", "completed"}, NEW w \in {"none", "party", "refund"}
  PROVE  /\ [o EXCEPT !.status = st] \in Sales /\ [o EXCEPT !.status = st, !.by = w] \in Sales
         /\ [o EXCEPT !.confirmed = TRUE] \in Sales /\ [o EXCEPT !.received = TRUE] \in Sales
         /\ [o EXCEPT !.windowOver = TRUE] \in Sales /\ [o EXCEPT !.escalated = TRUE] \in Sales
<1>1. TRUE \in RunFlags
  BY DEF RunFlags
<1> QED BY <1>1 DEF Sales

\* Writing one field of a sale leaves the others.
LEMMA SaleFields ==
  ASSUME NEW o \in Sales, NEW st, NEW w
  PROVE  /\ LET n == [o EXCEPT !.confirmed = TRUE]
            IN  /\ n.confirmed = TRUE /\ n.status = o.status /\ n.received = o.received
                /\ n.windowOver = o.windowOver /\ n.by = o.by
         /\ LET n == [o EXCEPT !.received = TRUE]
            IN  /\ n.received = TRUE /\ n.status = o.status /\ n.confirmed = o.confirmed
                /\ n.windowOver = o.windowOver /\ n.by = o.by
         /\ LET n == [o EXCEPT !.windowOver = TRUE]
            IN  /\ n.windowOver = TRUE /\ n.status = o.status /\ n.confirmed = o.confirmed
                /\ n.received = o.received /\ n.by = o.by
         /\ LET n == [o EXCEPT !.escalated = TRUE]
            IN  /\ n.status = o.status /\ n.confirmed = o.confirmed /\ n.received = o.received
                /\ n.windowOver = o.windowOver /\ n.by = o.by
         /\ LET n == [o EXCEPT !.status = st]
            IN  /\ n.status = st /\ n.confirmed = o.confirmed /\ n.received = o.received
                /\ n.windowOver = o.windowOver /\ n.by = o.by
         /\ LET n == [o EXCEPT !.status = st, !.by = w]
            IN  /\ n.status = st /\ n.by = w /\ n.confirmed = o.confirmed /\ n.received = o.received
                /\ n.windowOver = o.windowOver
BY DEF Sales

\* The checkout settled, and its order written if it was not yet.
LEMMA SettleFits ==
  ASSUME RunInv, SettlePaidSession, UNCHANGED <<case, promise>>, checkoutRun' \in CheckoutPhases
  PROVE  RunInv'
<1>1. RunTypeOK /\ RunsFollowRows /\ SaleFits(sale) /\ SignalsFollow
  BY DEF RunInv
<1>2. /\ checkout \in Checkouts /\ sale \in Sales /\ case \in CaseStates
      /\ promise \in [Promises -> {Unresolved} \cup Verdicts]
  BY <1>1, RunRows
<1>3. /\ checkout' = [checkout EXCEPT !.status = "settled"]
      /\ sale' = IF sale.status = "none" THEN [sale EXCEPT !.status = "open"] ELSE sale
      /\ SignalAndStart("paid") /\ promise' = promise /\ case' = case
  BY DEF SettlePaidSession
<1>4. /\ signalled' \subseteq Promises \X Verdicts /\ lostCalls' \in 0 .. MaxLostCalls
      /\ orderRun' \in OrderPhases
      /\ orderRun' = orderRun \/ orderRun' = "confirmation"
      /\ \A other : Told(other)' => Told(other) \/ other = "paid"
  BY <1>1, <1>3, StartTells
<1>5. checkout' \in Checkouts /\ checkout'.status = "settled"
  BY <1>2, <1>3 DEF Checkouts
<1>6. /\ sale' \in Sales /\ sale'.status # "none"
      /\ sale'.confirmed = sale.confirmed /\ sale'.received = sale.received
      /\ sale'.windowOver = sale.windowOver /\ sale'.by = sale.by
      /\ sale.status # "none" => sale' = sale
      /\ sale.status = "none" => sale'.status = "open" /\ sale.by = "none" /\ ~sale.confirmed /\ ~sale.received
  <2>1. CASE sale.status # "none"
    BY <1>2, <1>3, <2>1
  <2>2. CASE sale.status = "none"
    <3>1. sale = NoSale /\ sale' = [sale EXCEPT !.status = "open"]
      BY <1>1, <1>3, <2>2 DEF SaleFits
    <3>2. sale' \in Sales
      BY <1>2, <3>1, SaleMoves
    <3> QED BY <2>2, <3>1, <3>2 DEF NoSale
  <2> QED BY <2>1, <2>2
<1>7. RunTypeOK'
  <2>1. sale' \in [status : {"none", "open", "cancelled", "completed"}, confirmed : BOOLEAN,
                 received : BOOLEAN, windowOver : BOOLEAN, escalated : BOOLEAN,
                 by : {"none", "party", "refund"}]
    BY <1>6 DEF Sales, RunFlags
  <2>2. checkout' \in [status : {"unpaid", "paid", "settled", "abandoned"}, windowOver : BOOLEAN]
    BY <1>5 DEF Checkouts, RunFlags
  <2> QED BY <1>1, <1>3, <1>4, <2>1, <2>2 DEF RunTypeOK, Verdicts
<1>8. SaleFits(sale)'
  BY <1>1, <1>6 DEF SaleFits
<1>9. SignalsFollow'
  BY <1>1, <1>3, <1>4, <1>6 DEF SignalsFollow
<1>10. RunsFollowRows'
  BY <1>1, <1>3, <1>4, <1>5, <1>6 DEF RunsFollowRows
<1> QED BY <1>7, <1>8, <1>9, <1>10 DEF RunInv

\* The rows of a checkout that is not settled change nothing for the sale.
LEMMA CheckoutFits ==
  ASSUME RunInv, UNCHANGED <<sale, case, promise, orderRun>>,
         checkoutRun' \in CheckoutPhases, checkout' \in Checkouts,
         checkout'.status = "settled" <=> checkout.status = "settled",
         signalled' \subseteq Promises \X Verdicts, lostCalls' \in 0 .. MaxLostCalls,
         \A other : Told(other)' => Told(other) \/ other = "abandoned"
  PROVE  RunInv'
<1>1. RunTypeOK /\ RunsFollowRows /\ SaleFits(sale) /\ SignalsFollow
  BY DEF RunInv
<1>2. checkout' \in [status : {"unpaid", "paid", "settled", "abandoned"}, windowOver : BOOLEAN]
  BY DEF Checkouts, RunFlags
<1>3. RunTypeOK'
  BY <1>1, <1>2 DEF RunTypeOK, Verdicts
<1>4. SignalsFollow'
  BY <1>1 DEF SignalsFollow
<1>5. RunsFollowRows'
  BY <1>1 DEF RunsFollowRows
<1> QED BY <1>1, <1>3, <1>4, <1>5 DEF RunInv

\* Abandoning an unpaid checkout changes nothing of the sale.
LEMMA CancelLinesFits ==
  ASSUME RunInv, CancelLines, UNCHANGED <<sale, case, promise, orderRun>>, checkoutRun' \in CheckoutPhases
  PROVE  RunInv'
<1>1. /\ RunTypeOK /\ checkout \in Checkouts /\ signalled \subseteq Promises \X Verdicts
      /\ lostCalls \in 0 .. MaxLostCalls
  BY RunRows DEF RunInv
<1>2. CASE checkout.status = "unpaid"
  <2>1. checkout' = [checkout EXCEPT !.status = "abandoned"] /\ Signal("abandoned", "true")
    BY <1>2 DEF CancelLines
  <2>2. checkout' \in Checkouts /\ checkout'.status = "abandoned"
    BY <1>1, <2>1 DEF Checkouts
  <2>3. "abandoned" \in Promises /\ "true" \in Verdicts
    BY DEF Promises, Verdicts
  <2>4. /\ signalled' \subseteq Promises \X Verdicts /\ lostCalls' \in 0 .. MaxLostCalls
        /\ \A other : Told(other)' => Told(other) \/ other = "abandoned"
    BY <1>1, <2>1, <2>3, SignalTells
  <2> QED BY <1>2, <2>2, <2>4, CheckoutFits
<1>3. CASE checkout.status # "unpaid"
  <2>1. UNCHANGED <<checkout, signalled, lostCalls>>
    BY <1>3 DEF CancelLines
  <2>2. \A other : Told(other)' => Told(other)
    BY <2>1 DEF Told, Resolved
  <2> QED BY <1>1, <2>1, <2>2, CheckoutFits
<1> QED BY <1>2, <1>3

\* A step that leaves the checkout and its run alone keeps the rows in range when it keeps
\* the sale, the case and the signals there.
LEMMA SaleRowsAfter ==
  ASSUME RunTypeOK, UNCHANGED <<checkout, promise, checkoutRun>>, orderRun' \in OrderPhases,
         sale' \in Sales, case' \in CaseStates,
         signalled' \subseteq Promises \X Verdicts, lostCalls' \in 0 .. MaxLostCalls
  PROVE  RunTypeOK'
<1>1. sale' \in [status : {"none", "open", "cancelled", "completed"}, confirmed : BOOLEAN,
                 received : BOOLEAN, windowOver : BOOLEAN, escalated : BOOLEAN,
                 by : {"none", "party", "refund"}]
  BY DEF Sales, RunFlags
<1>2. case' \in [raised : 0..MaxRunCases, status : {"none", "live", "accepted", "closed"}]
  BY DEF CaseStates
<1> QED BY <1>1, <1>2 DEF RunTypeOK, Verdicts

\* What the buyer and the seller do to the order: the row is written first, then told.
LEMMA PartyFits ==
  ASSUME RunInv, OrderConfirmed \/ OrderCancelled \/ ReceiptConfirmed
  PROVE  RunInv'
<1>1. RunTypeOK /\ RunsFollowRows /\ SaleFits(sale) /\ SignalsFollow
  BY DEF RunInv
<1>2. /\ checkout \in Checkouts /\ sale \in Sales /\ case \in CaseStates /\ orderRun \in OrderPhases
      /\ {"confirmed", "cancelled", "received"} \subseteq Promises /\ "true" \in Verdicts
  BY <1>1, RunRows DEF Promises, Verdicts
<1>3. /\ UNCHANGED <<checkout, case, promise, checkoutRun, orderRun>> /\ sale.status = "open"
  BY DEF OrderConfirmed, OrderCancelled, ReceiptConfirmed
<1>4. ASSUME sale' \in Sales, NEW name \in {"confirmed", "cancelled", "received"}, Signal(name, "true")
      PROVE  /\ RunTypeOK'
             /\ \A other : Told(other)' => Told(other) \/ other = name
  <2>1. /\ signalled' \subseteq Promises \X Verdicts /\ lostCalls' \in 0 .. MaxLostCalls
        /\ \A other : Told(other)' => Told(other) \/ other = name
    BY <1>1, <1>2, <1>3, <1>4, SignalTells
  <2> QED BY <1>1, <1>2, <1>3, <1>4, <2>1, SaleRowsAfter
<1>5. CASE OrderConfirmed
  <2>1. sale' = [sale EXCEPT !.confirmed = TRUE] /\ Signal("confirmed", "true")
    BY <1>5 DEF OrderConfirmed
  <2>2. /\ sale' \in Sales /\ sale'.confirmed
        /\ sale'.status = sale.status /\ sale'.received = sale.received
        /\ sale'.windowOver = sale.windowOver /\ sale'.by = sale.by
    BY <1>2, <2>1, SaleMoves, SaleFields
  <2>3. RunTypeOK' /\ \A other : Told(other)' => Told(other) \/ other = "confirmed"
    BY <1>4, <2>1, <2>2
  <2>4. SaleFits(sale)' /\ SignalsFollow' /\ RunsFollowRows'
    BY <1>1, <1>3, <2>2, <2>3 DEF SaleFits, SignalsFollow, RunsFollowRows
  <2> QED BY <2>3, <2>4 DEF RunInv
<1>6. CASE OrderCancelled
  <2>1. sale' = [sale EXCEPT !.status = "cancelled", !.by = "party"] /\ Signal("cancelled", "true")
    BY <1>6 DEF OrderCancelled
  <2>2. /\ sale' \in Sales /\ sale'.status = "cancelled" /\ sale'.by = "party"
        /\ sale'.received = sale.received /\ sale'.confirmed = sale.confirmed
        /\ sale'.windowOver = sale.windowOver
    <3>1. [sale EXCEPT !.status = "cancelled", !.by = "party"] \in Sales
      BY <1>2 DEF Sales
    <3> QED BY <1>2, <2>1, <3>1, SaleFields
  <2>3. RunTypeOK' /\ \A other : Told(other)' => Told(other) \/ other = "cancelled"
    BY <1>4, <2>1, <2>2
  <2>4. sale.by # "refund" /\ case.status # "accepted"
    BY <1>1, <1>3 DEF SaleFits, RunsFollowRows
  <2>5. SaleFits(sale)' /\ SignalsFollow' /\ RunsFollowRows'
    BY <1>1, <1>3, <2>2, <2>3, <2>4 DEF SaleFits, SignalsFollow, RunsFollowRows
  <2> QED BY <2>3, <2>5 DEF RunInv
<1>7. CASE ReceiptConfirmed
  <2>1. sale' = [sale EXCEPT !.received = TRUE] /\ Signal("received", "true") /\ sale.confirmed
    BY <1>7 DEF ReceiptConfirmed
  <2>2. /\ sale' \in Sales /\ sale'.received /\ sale'.confirmed
        /\ sale'.status = sale.status /\ sale'.windowOver = sale.windowOver /\ sale'.by = sale.by
    <3>1. sale' \in Sales /\ sale'.received = TRUE
      BY <1>2, <2>1, SaleMoves, SaleFields
    <3>2. sale'.confirmed = sale.confirmed /\ sale'.status = sale.status
          /\ sale'.windowOver = sale.windowOver /\ sale'.by = sale.by
      BY <1>2, <2>1, SaleFields
    <3> QED BY <2>1, <3>1, <3>2
  <2>3. RunTypeOK' /\ \A other : Told(other)' => Told(other) \/ other = "received"
    BY <1>4, <2>1, <2>2
  <2>4. SaleFits(sale)' /\ SignalsFollow' /\ RunsFollowRows'
    BY <1>1, <1>3, <2>2, <2>3 DEF SaleFits, SignalsFollow, RunsFollowRows
  <2> QED BY <2>3, <2>4 DEF RunInv
<1> QED BY <1>5, <1>6, <1>7

\* A case is raised on an open order, and closes with it when the buyer is paid.
LEMMA CaseFits ==
  ASSUME RunInv, RefundRaised \/ \E buyerPaid \in BOOLEAN : ResolveRefund(buyerPaid)
  PROVE  RunInv'
<1>1. RunTypeOK /\ RunsFollowRows /\ SaleFits(sale) /\ SignalsFollow
  BY DEF RunInv
<1>2. /\ sale \in Sales /\ case \in CaseStates /\ orderRun \in OrderPhases
      /\ "refund-raised" \in Promises /\ "refund-resolved" \in Promises
      /\ "true" \in Verdicts /\ "false" \in Verdicts
  BY <1>1, RunRows DEF Promises, Verdicts
<1>3. UNCHANGED <<checkout, promise, checkoutRun, orderRun>> /\ sale.status = "open"
  BY DEF RefundRaised, ResolveRefund
<1>4. CASE RefundRaised
  <2>1. /\ case.raised < MaxRunCases /\ case' = [raised |-> case.raised + 1, status |-> "live"]
        /\ Signal("refund-raised", "true") /\ sale' = sale
    BY <1>4 DEF RefundRaised
  <2>2. case.raised \in 0 .. MaxRunCases
    BY <1>2 DEF CaseStates
  <2>3. case' \in CaseStates /\ case'.raised > 0 /\ case'.status = "live"
    <3>1. case.raised + 1 \in 0 .. MaxRunCases /\ case.raised + 1 > 0
      BY <2>1, <2>2, RunAssumption
    <3> QED BY <2>1, <3>1 DEF CaseStates
  <2>4. /\ signalled' \subseteq Promises \X Verdicts /\ lostCalls' \in 0 .. MaxLostCalls
        /\ \A other : Told(other)' => Told(other) \/ other = "refund-raised"
    BY <1>1, <1>2, <1>3, <2>1, SignalTells
  <2>5. RunTypeOK'
    BY <1>1, <1>2, <1>3, <2>1, <2>3, <2>4, SaleRowsAfter
  <2>6. SaleFits(sale)' /\ SignalsFollow' /\ RunsFollowRows'
    BY <1>1, <1>3, <2>1, <2>3, <2>4 DEF SaleFits, SignalsFollow, RunsFollowRows
  <2> QED BY <2>5, <2>6 DEF RunInv
<1>5. ASSUME NEW buyerPaid \in BOOLEAN, ResolveRefund(buyerPaid) PROVE RunInv'
  <2>1. /\ case' = [case EXCEPT !.status = IF buyerPaid THEN "accepted" ELSE "closed"]
        /\ sale' = IF buyerPaid THEN [sale EXCEPT !.status = "cancelled", !.by = "refund"] ELSE sale
        /\ case.status = "live"
    BY <1>5 DEF ResolveRefund
  <2>2. /\ case' \in CaseStates /\ case'.raised = case.raised
        /\ case'.status = (IF buyerPaid THEN "accepted" ELSE "closed")
    BY <1>2, <2>1 DEF CaseStates
  <2>3. PICK v \in Verdicts : Signal("refund-resolved", v)
    BY <1>2, <1>5 DEF ResolveRefund
  <2>4. /\ signalled' \subseteq Promises \X Verdicts /\ lostCalls' \in 0 .. MaxLostCalls
        /\ \A other : Told(other)' => Told(other) \/ other = "refund-resolved"
    BY <1>1, <1>2, <1>3, <2>3, SignalTells
  <2>5. /\ sale' \in Sales /\ sale'.confirmed = sale.confirmed /\ sale'.received = sale.received
        /\ sale'.windowOver = sale.windowOver
        /\ buyerPaid => sale'.status = "cancelled" /\ sale'.by = "refund"
        /\ ~buyerPaid => sale' = sale
    <3>1. CASE buyerPaid
      <4>1. sale' = [sale EXCEPT !.status = "cancelled", !.by = "refund"]
        BY <2>1, <3>1
      <4>2. [sale EXCEPT !.status = "cancelled", !.by = "refund"] \in Sales
        BY <1>2 DEF Sales
      <4> QED BY <1>2, <3>1, <4>1, <4>2, SaleFields
    <3>2. CASE ~buyerPaid
      BY <1>2, <2>1, <3>2
    <3> QED BY <3>1, <3>2
  <2>6. RunTypeOK'
    BY <1>1, <1>2, <1>3, <2>2, <2>4, <2>5, SaleRowsAfter
  <2>7. SaleFits(sale)'
    BY <1>1, <2>5 DEF SaleFits
  <2>8. SignalsFollow'
    BY <1>1, <1>3, <2>2, <2>4, <2>5 DEF SignalsFollow
  <2>9. RunsFollowRows'
    BY <1>1, <1>3, <2>1, <2>2, <2>5 DEF RunsFollowRows, SaleFits
  <2> QED BY <2>6, <2>7, <2>8, <2>9 DEF RunInv
<1> QED BY <1>4, <1>5

\* Where the order's run may be, given what it heard.
PhaseFits(phase, o) ==
  /\ phase \in OrderPhases
  /\ phase # "none" => o.status # "none"
  /\ phase \in {"receipt", "escrow", "verdict", "release"} => o.confirmed
  /\ phase \in {"escrow", "verdict", "release"} => o.received
  /\ phase = "verdict" => case.raised > 0

\* A step of the order's run or a clock, which hears nothing new.
LEMMA QuietFits ==
  ASSUME RunInv, UNCHANGED <<checkout, case, signalled, promise, checkoutRun, lostCalls>>,
         sale' \in Sales, SaleFits(sale'), PhaseFits(orderRun', sale'),
         sale'.status = "none" <=> sale.status = "none",
         sale'.by = sale.by, sale.confirmed => sale'.confirmed, sale.received => sale'.received,
         sale.status = "cancelled" => sale'.status = "cancelled",
         sale'.status = "completed" =>
            sale'.received /\ sale'.windowOver /\ case.status \notin {"live", "accepted"}
  PROVE  RunInv'
<1>1. RunTypeOK /\ RunsFollowRows /\ SaleFits(sale) /\ SignalsFollow
  BY DEF RunInv
<1>2. case \in CaseStates /\ signalled \subseteq Promises \X Verdicts /\ lostCalls \in 0 .. MaxLostCalls
  BY <1>1, RunRows
<1>3. RunTypeOK'
  BY <1>1, <1>2, SaleRowsAfter DEF PhaseFits
<1>4. SignalsFollow'
  <2>1. \A other : Told(other)' => Told(other)
    BY DEF Told, Resolved
  <2> QED BY <1>1, <2>1 DEF SignalsFollow
<1>5. RunsFollowRows'
  BY <1>1 DEF RunsFollowRows, PhaseFits
<1> QED BY <1>3, <1>4, <1>5 DEF RunInv

\* A completed order was due its payout; the case and the refund are as they were.
LEMMA PayoutFits ==
  ASSUME RunInv, PayoutDue, sale' = [sale EXCEPT !.status = "completed"],
         UNCHANGED <<checkout, case, signalled, promise, checkoutRun, lostCalls>>,
         orderRun' \in {orderRun, "ended"}
  PROVE  RunInv'
<1>1. RunTypeOK /\ RunsFollowRows /\ SaleFits(sale)
  BY DEF RunInv
<1>2. sale \in Sales /\ orderRun \in OrderPhases /\ "ended" \in OrderPhases
  BY <1>1, RunRows DEF OrderPhases
<1>3. [sale EXCEPT !.status = "completed"] \in Sales
  BY <1>2 DEF Sales
<1>4. /\ sale' \in Sales /\ sale'.status = "completed" /\ sale'.confirmed = sale.confirmed
      /\ sale'.received = sale.received /\ sale'.windowOver = sale.windowOver /\ sale'.by = sale.by
  BY <1>2, <1>3, SaleFields
<1>5. sale.status = "open" /\ sale.received /\ sale.windowOver /\ case.status # "live"
  BY DEF PayoutDue
<1>6. sale.by # "refund" /\ case.status # "accepted"
  BY <1>1, <1>5 DEF SaleFits, RunsFollowRows
<1>7. SaleFits(sale')
  BY <1>1, <1>4, <1>6 DEF SaleFits
<1>8. PhaseFits(orderRun', sale')
  BY <1>1, <1>2, <1>4 DEF PhaseFits, RunsFollowRows
<1> QED BY <1>4, <1>5, <1>6, <1>7, <1>8, QuietFits

\* An escalation marks the order and no more.
LEMMA EscalationFits ==
  ASSUME RunInv, sale' = Escalated(sale),
         UNCHANGED <<checkout, case, signalled, promise, checkoutRun, lostCalls>>,
         orderRun' = orderRun \/ (orderRun = "escalate" /\ orderRun' = "late-confirmation")
  PROVE  RunInv'
<1>1. RunTypeOK /\ RunsFollowRows /\ SaleFits(sale)
  BY DEF RunInv
<1>2. sale \in Sales /\ orderRun \in OrderPhases /\ "late-confirmation" \in OrderPhases
  BY <1>1, RunRows DEF OrderPhases
<1>3. /\ sale' \in Sales /\ sale'.status = sale.status /\ sale'.confirmed = sale.confirmed
      /\ sale'.received = sale.received /\ sale'.windowOver = sale.windowOver /\ sale'.by = sale.by
  <2>1. CASE sale' = sale
    BY <1>2, <2>1
  <2>2. CASE sale' = [sale EXCEPT !.escalated = TRUE]
    <3>1. sale' \in Sales
      BY <1>2, <2>2, SaleMoves
    <3> QED BY <1>2, <2>2, <3>1, SaleFields
  <2> QED BY <2>1, <2>2 DEF Escalated
<1>4. SaleFits(sale')
  <2>1. sale.status = "none" => sale' = sale
    BY <1>1 DEF Escalated
  <2> QED BY <1>1, <1>3, <2>1 DEF SaleFits
<1>5. PhaseFits(orderRun', sale')
  BY <1>1, <1>2, <1>3 DEF PhaseFits, RunsFollowRows
<1>6. sale.status = "completed" => sale.received /\ sale.windowOver /\ case.status \notin {"live", "accepted"}
  BY <1>1 DEF RunsFollowRows
<1> QED BY <1>3, <1>4, <1>5, <1>6, QuietFits

\* The order's run goes where a signal or the clock lets it, and the rows are there.
LEMMA PhasesFit ==
  ASSUME RunInv, AwaitConfirmation \/ AwaitReceipt \/ AwaitEscrow
  PROVE  RunInv'
<1>1. RunTypeOK /\ RunsFollowRows /\ SaleFits(sale) /\ SignalsFollow
  BY DEF RunInv
<1>2. sale \in Sales /\ {"receipt", "ended", "escalate", "escrow", "verdict", "release"} \subseteq OrderPhases
  BY <1>1, RunRows DEF OrderPhases
<1>3. UNCHANGED <<checkout, sale, case, signalled, promise, checkoutRun, lostCalls>>
  BY DEF AwaitConfirmation, AwaitReceipt, AwaitEscrow
<1>4. /\ Resolved("confirmed") => sale.confirmed
      /\ Resolved("received") => sale.received
      /\ Resolved("refund-raised") => case.raised > 0
  BY <1>1 DEF SignalsFollow, Told
<1>5. orderRun # "none"
  BY DEF AwaitConfirmation, AwaitReceipt, AwaitEscrow
<1>6. PhaseFits(orderRun', sale)
  <2>1. sale.status # "none" /\ (sale.received => sale.confirmed)
    BY <1>1, <1>5 DEF RunsFollowRows, SaleFits
  <2>2. CASE AwaitConfirmation
    <3>1. \/ Resolved("confirmed") /\ orderRun' = "receipt"
          \/ orderRun' = "ended" \/ orderRun' = "escalate"
      BY <2>2 DEF AwaitConfirmation
    <3>2. CASE Resolved("confirmed") /\ orderRun' = "receipt"
      <4>1. sale.confirmed
        BY <1>4, <3>2
      <4> QED BY <1>2, <2>1, <3>2, <4>1 DEF PhaseFits
    <3> QED BY <1>2, <2>1, <3>1, <3>2 DEF PhaseFits
  <2>3. CASE AwaitReceipt
    <3>1. (Resolved("received") /\ orderRun' = "escrow") \/ orderRun' = "ended"
      BY <2>3 DEF AwaitReceipt, ReceiptOrCancelled
    <3>2. CASE Resolved("received") /\ orderRun' = "escrow"
      <4>1. sale.received
        BY <1>4, <3>2
      <4>2. sale.confirmed
        BY <2>1, <4>1
      <4> QED BY <1>2, <2>1, <3>2, <4>1, <4>2 DEF PhaseFits
    <3> QED BY <1>2, <2>1, <3>1, <3>2 DEF PhaseFits
  <2>4. CASE AwaitEscrow
    <3>1. sale.received
      BY <1>1, <2>4 DEF AwaitEscrow, RunsFollowRows
    <3> QED BY <1>2, <1>4, <2>1, <2>4, <3>1 DEF AwaitEscrow, PhaseFits
  <2> QED BY <2>2, <2>3, <2>4
<1>7. sale.status = "completed" => sale.received /\ sale.windowOver /\ case.status \notin {"live", "accepted"}
  BY <1>1 DEF RunsFollowRows
<1> QED BY <1>1, <1>2, <1>3, <1>6, <1>7, QuietFits

\* Every step of the runs, of the people and of the sweep keeps the invariant.
LEMMA RunInvKept == RunInv /\ [RunNext]_runVars => RunInv'
<1> SUFFICES ASSUME RunInv, [RunNext]_runVars PROVE RunInv'
  OBVIOUS
<1>1. RunTypeOK /\ RunsFollowRows /\ SaleFits(sale) /\ SignalsFollow
  BY DEF RunInv
<1>2. /\ checkout \in Checkouts /\ sale \in Sales /\ case \in CaseStates
      /\ signalled \subseteq Promises \X Verdicts /\ lostCalls \in 0 .. MaxLostCalls
      /\ checkoutRun \in CheckoutPhases /\ orderRun \in OrderPhases
      /\ {"settle", "cancel-lines", "ended"} \subseteq CheckoutPhases /\ "ended" \in OrderPhases
  BY <1>1, RunRows DEF CheckoutPhases, OrderPhases
<1>3. ASSUME UNCHANGED <<signalled, promise>> PROVE \A other : Told(other)' => Told(other)
  BY <1>3 DEF Told, Resolved
<1>4. CASE SessionIsPaid \/ CheckoutWindowEnds
  <2>1. UNCHANGED <<sale, case, signalled, promise, checkoutRun, orderRun, lostCalls>>
    BY <1>4 DEF SessionIsPaid, CheckoutWindowEnds
  <2>2. checkout' \in Checkouts /\ (checkout'.status = "settled" <=> checkout.status = "settled")
    <3>1. TRUE \in RunFlags
      BY DEF RunFlags
    <3>2. CASE SessionIsPaid
      BY <1>2, <3>2 DEF SessionIsPaid, Checkouts
    <3>3. CASE CheckoutWindowEnds
      BY <1>2, <3>1, <3>3 DEF CheckoutWindowEnds, Checkouts
    <3> QED BY <1>4, <3>2, <3>3
  <2> QED BY <1>2, <1>3, <2>1, <2>2, CheckoutFits
<1>5. CASE SessionPaidArrives
  BY <1>2, <1>5, SettleFits DEF SessionPaidArrives
<1>6. CASE CheckoutSettles
  BY <1>2, <1>6, SettleFits DEF CheckoutSettles
<1>7. CASE BuyerWalksAway
  BY <1>2, <1>7, CancelLinesFits DEF BuyerWalksAway
<1>8. CASE CheckoutCancelsLines
  BY <1>2, <1>8, CancelLinesFits DEF CheckoutCancelsLines
<1>9. CASE CheckoutWakes
  <2>1. UNCHANGED <<checkout, sale, case, signalled, promise, orderRun, lostCalls>> /\ checkoutRun' \in CheckoutPhases
    BY <1>2, <1>9 DEF CheckoutWakes
  <2> QED BY <1>2, <1>3, <2>1, CheckoutFits
<1>10. CASE PayoutWindowEnds
  <2>1. /\ sale.received /\ sale' = [sale EXCEPT !.windowOver = TRUE]
        /\ UNCHANGED <<checkout, case, signalled, promise, checkoutRun, orderRun, lostCalls>>
    BY <1>10 DEF PayoutWindowEnds
  <2>2. /\ sale' \in Sales /\ sale'.windowOver = TRUE /\ sale'.status = sale.status
        /\ sale'.confirmed = sale.confirmed /\ sale'.received = sale.received /\ sale'.by = sale.by
    <3>1. sale' \in Sales
      BY <1>2, <2>1, SaleMoves
    <3> QED BY <1>2, <2>1, <3>1, SaleFields
  <2>3. SaleFits(sale')
    BY <1>1, <2>1, <2>2 DEF SaleFits, NoSale
  <2>4. PhaseFits(orderRun', sale')
    BY <1>1, <1>2, <2>1, <2>2 DEF PhaseFits, RunsFollowRows
  <2>5. sale'.status = "completed" => sale'.received /\ sale'.windowOver /\ case.status \notin {"live", "accepted"}
    BY <1>1, <2>2 DEF RunsFollowRows
  <2> QED BY <2>1, <2>2, <2>3, <2>4, <2>5, QuietFits
<1>11. CASE EscalateFromRun
  BY <1>11, EscalationFits DEF EscalateFromRun
<1>12. CASE ReleasePayout
  <2>1. CASE PayoutDue
    BY <1>12, <2>1, PayoutFits DEF ReleasePayout
  <2>2. CASE ~PayoutDue
    <3>1. UNCHANGED <<checkout, sale, case, signalled, promise, checkoutRun, lostCalls>> /\ orderRun' = "ended"
          /\ orderRun = "release"
      BY <1>12, <2>2 DEF ReleasePayout
    <3>2. PhaseFits(orderRun', sale)
      BY <1>1, <1>2, <3>1 DEF PhaseFits, RunsFollowRows
    <3>3. sale.status = "completed" => sale.received /\ sale.windowOver /\ case.status \notin {"live", "accepted"}
      BY <1>1 DEF RunsFollowRows
    <3> QED BY <1>1, <1>2, <3>1, <3>2, <3>3, QuietFits
  <2> QED BY <2>1, <2>2
<1>13. ASSUME NEW pass \in {"expired checkouts", "released payouts", "escalated unconfirmed orders"}, SweepPass(pass)
       PROVE  RunInv'
  <2>1. UNCHANGED <<case, promise, checkoutRun, orderRun>>
    BY <1>13 DEF SweepPass
  <2>2. CASE pass = "expired checkouts"
    <3>1. CancelLines /\ sale' = sale
      BY <1>13, <2>2 DEF SweepPass
    <3> QED BY <1>2, <2>1, <3>1, CancelLinesFits
  <2>3. CASE pass = "released payouts"
    <3>1. /\ PayoutDue /\ sale' = [sale EXCEPT !.status = "completed"]
          /\ UNCHANGED <<checkout, signalled, lostCalls>>
      BY <1>13, <2>3 DEF SweepPass
    <3> QED BY <2>1, <3>1, PayoutFits
  <2>4. CASE pass = "escalated unconfirmed orders"
    <3>1. sale' = Escalated(sale) /\ UNCHANGED <<checkout, signalled, lostCalls>>
      BY <1>13, <2>4 DEF SweepPass
    <3> QED BY <2>1, <3>1, EscalationFits
  <2> QED BY <2>2, <2>3, <2>4
<1>14. ASSUME NEW s \in signalled, Deliver(s) PROVE RunInv'
  <2>1. RunTypeOK' /\ \A other \in Promises : Told(other)' => Told(other)
    BY <1>1, <1>14, DeliverTells
  <2>2. UNCHANGED <<checkout, sale, case, checkoutRun, orderRun, lostCalls>>
    BY <1>14 DEF Deliver
  <2>3. SignalsFollow'
    BY <1>1, <2>1, <2>2 DEF SignalsFollow, Promises
  <2> QED BY <1>1, <2>1, <2>2, <2>3 DEF RunInv, RunsFollowRows
<1>15. CASE UNCHANGED runVars
  <2>1. UNCHANGED <<checkout, sale, case, signalled, promise, checkoutRun, orderRun, lostCalls>>
    BY <1>15 DEF runVars
  <2>2. RunTypeOK' /\ RunsFollowRows'
    BY <1>1, <2>1 DEF RunTypeOK, RunsFollowRows
  <2>3. SignalsFollow'
    BY <1>1, <1>3, <2>1 DEF SignalsFollow
  <2> QED BY <1>1, <2>1, <2>2, <2>3 DEF RunInv
<1>16. CASE RunNext
  BY <1>4, <1>5, <1>6, <1>7, <1>8, <1>9, <1>10, <1>11, <1>12, <1>13, <1>14, <1>16,
     PartyFits, CaseFits, PhasesFit DEF RunNext
<1> QED BY <1>15, <1>16

\* However signals are lost, late or out of order: no payout of an order in dispute or
\* before its time, no run ahead of the rows it acts on (order/workflow.go,
\* service_lifecycle.go, service_refund.go).
THEOREM RunsStayBehind == Spec => [](RunTypeOK /\ RunsFollowRows)
<1>1. Init => RunInv
  BY LiveRuns, RunInvStarts
<1>2. RunInv /\ [Next]_liveVars => RunInv'
  BY LiveRuns, RunInvKept
<1>3. RunInv => RunTypeOK /\ RunsFollowRows
  BY DEF RunInv
<1> QED BY <1>1, <1>2, <1>3, PTL DEF Spec

=============================================================================
