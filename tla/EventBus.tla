------------------------------ MODULE EventBus ------------------------------
(***************************************************************************)
(* One topic on Redis Streams and one consumer of one group: what is       *)
(* published, what the group has handed out, what it is still waiting to   *)
(* have acknowledged, and the loop that reads, handles and acknowledges    *)
(* (infra/eventbus/redis.go).                                              *)
(*                                                                         *)
(* Entries are numbered in the order of their stream ids.  Redis may lose  *)
(* the group, alone or with the stream; the process may die anywhere.      *)
(***************************************************************************)
EXTENDS Integers, FiniteSets, FiniteSetsExt

CONSTANTS
  MaxEntries,   \* how many entries are published
  BatchSize,    \* SubscribeOptions.BatchSize, 1 without options
  MaxLosses,    \* how often Redis loses the group
  MaxRestarts   \* how often the process dies

ASSUME BusAssumption ==
  /\ MaxEntries \in Nat /\ BatchSize \in Nat \ {0}
  /\ MaxLosses \in Nat /\ MaxRestarts \in Nat

VARIABLES
  published,   \* the number of entries ever added
  entries,     \* the entries the stream still holds
  group,       \* the group: whether it exists, the last entry it handed out
  pending,     \* entries handed out and not acknowledged
  loop,        \* the consume goroutine
  settled,     \* history: entries whose handler returned without an error
  passedOver,  \* history: entries a new group starts behind
  faults       \* losses and restarts so far

busVars == <<published, entries, group, pending, loop, settled, passedOver, faults>>

Entries == 1 .. MaxEntries
New == -1     \* the id ">": entries nobody has read
Latest == -1  \* the id "$": whatever comes next
FreshLoop == [at |-> "ensure", readID |-> 0, lastID |-> Latest, batch |-> {}]

\* Every variable holds a value of its kind.
BusTypeOK ==
  /\ published \in 0 .. MaxEntries
  /\ entries \subseteq 1 .. published
  /\ group \in [exists : BOOLEAN, delivered : 0 .. MaxEntries]
  /\ pending \subseteq 1 .. published
  /\ loop \in [at : {"ensure", "read", "handle", "ack"}, readID : -1 .. MaxEntries,
               lastID : -1 .. MaxEntries, batch : SUBSET Entries]
  /\ settled \subseteq Entries /\ passedOver \subseteq Entries
  /\ faults \in [losses : 0 .. MaxLosses, restarts : 0 .. MaxRestarts]

BusInit ==
  /\ published = 0 /\ entries = {} /\ pending = {}
  /\ group = [exists |-> FALSE, delivered |-> 0]
  /\ loop = FreshLoop
  /\ settled = {} /\ passedOver = {}
  /\ faults = [losses |-> 0, restarts |-> 0]

-----------------------------------------------------------------------------
\* XADD.  An entry that is not added is the publisher's to log.
Publish ==
  /\ published < MaxEntries
  /\ published' = published + 1 /\ entries' = entries \cup {published + 1}
  /\ UNCHANGED <<group, pending, loop, settled, passedOver, faults>>

\* XGROUP CREATE at the cursor, with MKSTREAM; BUSYGROUP leaves the group as it is.
ensureGroup ==
  LET from == IF loop.lastID = Latest THEN published ELSE loop.lastID IN
  /\ loop.at = "ensure" /\ loop' = [loop EXCEPT !.at = "read"]
  /\ \/ group.exists /\ UNCHANGED <<group, passedOver>>
     \/ /\ ~group.exists
        /\ group' = [exists |-> TRUE, delivered |-> from]
        /\ passedOver' = passedOver \cup {e \in entries : e <= from}
  /\ UNCHANGED <<published, entries, pending, settled, faults>>

\* The batch a read returns: the first entries of those it may.
Batch(from) == {e \in from : Cardinality({f \in from : f < e}) < BatchSize}

\* The consumer's own backlog, from the last restart; drained, it turns to new entries.
ReadBacklog ==
  LET batch == Batch({e \in pending : e > loop.readID}) IN
  /\ loop.at = "read" /\ group.exists /\ loop.readID # New
  /\ loop' = IF batch = {} THEN [loop EXCEPT !.readID = New]
             ELSE [loop EXCEPT !.at = "handle", !.batch = batch, !.readID = Max(batch)]
  /\ UNCHANGED <<published, entries, group, pending, settled, passedOver, faults>>

ReadNew ==
  LET batch == Batch({e \in entries : e > group.delivered}) IN
  /\ loop.at = "read" /\ group.exists /\ loop.readID = New /\ batch # {}
  /\ group' = [group EXCEPT !.delivered = Max(batch)]
  /\ pending' = pending \cup batch
  /\ loop' = [loop EXCEPT !.at = "handle", !.batch = batch]
  /\ UNCHANGED <<published, entries, settled, passedOver, faults>>

\* Mutant: a missing group is read again and again.
StayMissing ==
  /\ loop.at = "read" /\ ~group.exists
  /\ loop' = [loop EXCEPT !.readID = New]
  /\ UNCHANGED <<published, entries, group, pending, settled, passedOver, faults>>

\* NOGROUP: the group is created again where the loop left off, with no backlog.
MissingGroup ==
  /\ loop.at = "read" /\ ~group.exists
  /\ loop' = [loop EXCEPT !.at = "ensure", !.readID = New]
  /\ UNCHANGED <<published, entries, group, pending, settled, passedOver, faults>>

\* deliver: on success the batch is acknowledged and the cursor moves up to it.
HandlerSucceeds ==
  /\ loop.at = "handle"
  /\ settled' = settled \cup loop.batch
  /\ loop' = [loop EXCEPT !.at = "ack"]
  /\ UNCHANGED <<published, entries, group, pending, passedOver, faults>>

\* Mutant: a batch that failed is acknowledged like any other.
AckFailure ==
  /\ loop.at = "handle" /\ loop' = [loop EXCEPT !.at = "ack"]
  /\ UNCHANGED <<published, entries, group, pending, settled, passedOver, faults>>

\* On an error the batch stays pending, for the next start of the process.
HandlerFails ==
  /\ loop.at = "handle" /\ loop' = [loop EXCEPT !.at = "read", !.batch = {}]
  /\ UNCHANGED <<published, entries, group, pending, settled, passedOver, faults>>

\* XACK, which may fail and is not tried again.
ack(received) ==
  /\ loop.at = "ack"
  /\ pending' = IF received THEN pending \ loop.batch ELSE pending
  /\ loop' = [loop EXCEPT !.at = "read", !.lastID = Max(loop.batch), !.batch = {}]
  /\ UNCHANGED <<published, entries, group, settled, passedOver, faults>>

-----------------------------------------------------------------------------
(* Faults *)

\* The process dies and starts again under the same consumer name.
Restart ==
  /\ faults.restarts < MaxRestarts /\ faults' = [faults EXCEPT !.restarts = @ + 1]
  /\ loop' = FreshLoop
  /\ UNCHANGED <<published, entries, group, pending, settled, passedOver>>

\* The group is deleted, or Redis comes back without it and without the stream.
LoseGroup(withStream) ==
  /\ group.exists /\ faults.losses < MaxLosses /\ faults' = [faults EXCEPT !.losses = @ + 1]
  /\ group' = [exists |-> FALSE, delivered |-> 0] /\ pending' = {}
  /\ entries' = IF withStream THEN {} ELSE entries
  /\ UNCHANGED <<published, loop, settled, passedOver>>

\* Everything but what the handler does.
BusStep ==
  \/ Publish \/ ensureGroup \/ ReadBacklog \/ ReadNew \/ MissingGroup
  \/ \E received \in BOOLEAN : ack(received)
  \/ \E withStream \in BOOLEAN : LoseGroup(withStream)

\* The goroutine goes on as long as the process runs; handlers end.
LoopStep == ensureGroup \/ ReadBacklog \/ ReadNew \/ MissingGroup \/ (\E received \in BOOLEAN : ack(received))

-----------------------------------------------------------------------------
(* Properties *)

\* While Redis keeps the group, an entry it has handed out leaves the pending list only
\* by an acknowledgement that follows a handler's success: a failed batch, a failed
\* acknowledgement or a process that dies in between leaves it there to be replayed.
UnsettledStaysPending ==
  [][group.exists /\ group'.exists => \A e \in pending \ pending' : e \in settled]_busVars

\* "Otherwise the loop logs NOGROUP forever while publishers keep filling a stream
\* nobody reads": every entry is handed out, or a group made anew starts behind it, or
\* the stream loses it.
EveryEntryIsRead ==
  \A e \in Entries : e \in entries ~> (e \in pending \cup settled \cup passedOver \/ e \notin entries)
=============================================================================
