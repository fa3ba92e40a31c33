---------------------------- MODULE ChatThreads ----------------------------
(***************************************************************************)
(* Chat: a direct thread between two people and the thread behind a support *)
(* ticket, whose other side is the desk's account and which any moderator   *)
(* answers. Every edit, redaction and read mark is a row read first and     *)
(* written later, so requests interleave between the two.                   *)
(***************************************************************************)
EXTENDS Naturals, Sequences, FiniteSets

CONSTANTS
  Requester,     \* opens the ticket, and is one side of the direct thread
  Friend,        \* the other side of the direct thread
  Moderator,     \* staff: a side of neither thread
  Desk,          \* the support account
  System,        \* the NULL sender of a system message
  ChatCallers,   \* requests running at once
  MaxMessages,   \* bound on the messages written
  MaxRewrites    \* bound on the marks, edits and redactions begun

ASSUME ChatAssumption == MaxMessages \in Nat

VARIABLES
  chatThreads,   \* the conversation rows that exist
  msgs,          \* the message table, in the order of created_at
  marks,         \* per thread and side, the read mark
  chatOp,        \* per request: what it read and is about to write
  told,          \* whom answers and pushes on the ticket thread named to the requester
  rewrites       \* marks, edits and redactions begun

chatVars == <<chatThreads, msgs, marks, chatOp, told, rewrites>>

ThreadNames == {"direct", "ticket"}

Sides(t) == IF t = "direct" THEN {Requester, Friend} ELSE {Requester, Desk}

People == {Requester, Friend, Moderator}

NoMessage == 0

IdleCall == [act |-> "idle"]

Message(t, sender, type, body, reply) ==
  [thread |-> t, sender |-> sender, type |-> type, body |-> body,
   deleted |-> FALSE, reply |-> reply]

Involves(t, who) == who \in Sides(t)

isModerator(who) == who = Moderator

(* participant: a side of the thread, or staff on a ticket thread.          *)
participant(t, who) ==
  t \in chatThreads /\ (Involves(t, who) \/ (t = "ticket" /\ isModerator(who)))

(* side: staff act on the desk's side of a ticket.                          *)
side(t, who) == IF Involves(t, who) THEN who ELSE Desk

mutableBy(m, who) == m.type = "user" /\ m.sender = who /\ ~m.deleted

(***************************************************************************)
(* The repository.                                                          *)
(***************************************************************************)
EnsureConversation(t) == chatThreads' = chatThreads \cup {t}

InsertMessage(m) == msgs' = Append(msgs, m)

HasMessages(t) == \E i \in DOMAIN msgs : msgs[i].thread = t

FindMessageAt(i) == msgs[i]

SaveMessage(i, m) ==
  msgs' = [msgs EXCEPT ![i] = [@ EXCEPT !.body = m.body, !.deleted = m.deleted]]

(* Mutant: the marks of the copy written as they are.                       *)
SaveMarksAsRead(t, copy) == marks' = [marks EXCEPT ![t] = copy]

(* Both marks, each GREATEST of the row's and the copy's.                   *)
SaveConversation(t, copy) ==
  marks' = [marks EXCEPT ![t] = [s \in DOMAIN copy |->
                                   IF copy[s] > marks[t][s] THEN copy[s] ELSE marks[t][s]]]

Idle(c) == chatOp[c] = IdleCall

Read(c, op) == chatOp' = [chatOp EXCEPT ![c] = op]

Rewrite(c, op) ==
  /\ rewrites < MaxRewrites
  /\ rewrites' = rewrites + 1
  /\ Read(c, op)

Done(c) == chatOp' = [chatOp EXCEPT ![c] = IdleCall]

(***************************************************************************)
(* A message as a caller gets it.                                           *)
(***************************************************************************)

(* buildMessage and its quote: the accounts a rendered message names (the   *)
(* NULL sender of a system message is none).                                *)
Rendered(m) ==
  ({m.sender} \cup (IF m.reply = NoMessage THEN {} ELSE {msgs[m.reply].sender})) \ {System}

(* Mutant: only the row's own sender is blanked, not the quote's.           *)
HideRowOnly(t, viewer, m) ==
  LET hidden == t = "ticket" /\ Involves(t, viewer)
      quoted == IF m.reply = NoMessage THEN {} ELSE {msgs[m.reply].sender}
  IN  (IF hidden THEN {m.sender} \cap {viewer} ELSE {m.sender}) \cup quoted

(* hideSupport: on a ticket thread its side, the requester, is named nobody *)
(* but themselves, by the row and by its quote.                             *)
hideSupport(t, viewer, m) ==
  {s \in Rendered(m) : t = "ticket" /\ Involves(t, viewer) => s = viewer}

Tell(accounts) == told' = told \cup accounts

(* ListMessages and an inbox row show the thread through hideSupport.       *)
Shown(t, viewer) ==
  UNION {hideSupport(t, viewer, msgs[i]) : i \in {i \in DOMAIN msgs : msgs[i].thread = t}}

(***************************************************************************)
(* Operations.                                                              *)
(***************************************************************************)
StartConversation(c) ==
  /\ Idle(c)
  /\ EnsureConversation("direct")
  /\ UNCHANGED <<msgs, marks, chatOp, told, rewrites>>

(* The thread row first, then whether it has a message yet.                 *)
OpenTicketThread(c) ==
  /\ Idle(c)
  /\ EnsureConversation("ticket")
  /\ IF HasMessages("ticket") THEN UNCHANGED chatOp ELSE Read(c, [act |-> "opening"])
  /\ UNCHANGED <<msgs, marks, told, rewrites>>

openingMessage(c) ==
  /\ chatOp[c].act = "opening"
  /\ Len(msgs) < MaxMessages
  /\ InsertMessage(Message("ticket", Requester, "user", "text", NoMessage))
  /\ Done(c)
  /\ UNCHANGED <<chatThreads, marks, told, rewrites>>

(* Mutant: the target of a reply taken from the client as it is.            *)
AnyTarget(t, i) == i = NoMessage \/ i \in DOMAIN msgs

(* A reply may only quote a message of its own thread.                      *)
replyTarget(t, i) ==
  i = NoMessage \/ (i \in DOMAIN msgs /\ FindMessageAt(i).thread = t)

(* The writer's answer is the row as it is built, its quote's sender        *)
(* included; a moderator's message is pushed to the requester hidden.       *)
SendMessage(c) ==
  /\ Idle(c)
  /\ Len(msgs) < MaxMessages
  /\ \E who \in People, t \in ThreadNames, i \in 0 .. MaxMessages :
       LET m == Message(t, who, "user", "text", i)
       IN  /\ participant(t, who)
           /\ replyTarget(t, i)
           /\ InsertMessage(m)
           /\ Tell(IF t # "ticket" THEN {}
                   ELSE IF who = Requester THEN Rendered(m) ELSE hideSupport(t, Requester, m))
  /\ UNCHANGED <<chatThreads, marks, chatOp, rewrites>>

(* Absent a bound, everything so far; a client may name an earlier one.     *)
MarkConversationRead(c) ==
  /\ Idle(c)
  /\ \E who \in People, t \in ThreadNames, at \in 0 .. Len(msgs) :
       /\ participant(t, who)
       /\ Rewrite(c, [act |-> "mark", thread |-> t,
                      copy |-> [marks[t] EXCEPT ![side(t, who)] = IF at > @ THEN at ELSE @]])
  /\ UNCHANGED <<chatThreads, msgs, marks, told>>

SaveMark(c) ==
  /\ chatOp[c].act = "mark"
  /\ SaveConversation(chatOp[c].thread, chatOp[c].copy)
  /\ Done(c)
  /\ UNCHANGED <<chatThreads, msgs, told, rewrites>>

UpdateMessage(c) ==
  /\ Idle(c)
  /\ \E who \in People, i \in DOMAIN msgs :
       /\ mutableBy(FindMessageAt(i), who)
       /\ Rewrite(c, [act |-> "save", at |-> i, row |-> [FindMessageAt(i) EXCEPT !.body = "edited"]])
  /\ UNCHANGED <<chatThreads, msgs, marks, told>>

RedactMessage(c) ==
  /\ Idle(c)
  /\ \E who \in People, i \in DOMAIN msgs :
       /\ mutableBy(FindMessageAt(i), who)
       /\ Rewrite(c, [act |-> "save", at |-> i,
                      row |-> [FindMessageAt(i) EXCEPT !.body = "none", !.deleted = TRUE]])
  /\ UNCHANGED <<chatThreads, msgs, marks, told>>

(* An edit is answered with the row as it is built, its quote's sender      *)
(* included; a redaction is answered with nothing. On a ticket thread the   *)
(* edit is pushed to nobody: the requester's other side is the desk's own   *)
(* account, and a moderator has none.                                       *)
SaveRow(c) ==
  /\ chatOp[c].act = "save"
  /\ SaveMessage(chatOp[c].at, chatOp[c].row)
  /\ LET m == chatOp[c].row
     IN  Tell(IF m.thread = "ticket" /\ m.sender = Requester /\ ~m.deleted THEN Rendered(m) ELSE {})
  /\ Done(c)
  /\ UNCHANGED <<chatThreads, marks, rewrites>>

(* Another module speaking: the thread is ensured, then the card inserted.  *)
PostTicketMessage ==
  /\ Len(msgs) < MaxMessages
  /\ EnsureConversation("ticket")
  /\ InsertMessage(Message("ticket", System, "system", "text", NoMessage))
  /\ UNCHANGED <<marks, chatOp, told, rewrites>>

PostSystemMessage ==
  /\ Len(msgs) < MaxMessages
  /\ EnsureConversation("direct")
  /\ InsertMessage(Message("direct", System, "system", "text", NoMessage))
  /\ UNCHANGED <<marks, chatOp, told, rewrites>>

(* Whose messages of the ticket thread somebody has replied to.             *)
QuotedBy(who) ==
  {msgs[msgs[i].reply].sender :
     i \in {i \in DOMAIN msgs : /\ msgs[i].thread = "ticket" /\ msgs[i].sender = who
                                /\ msgs[i].reply # NoMessage}}

(* Unread: after the viewer's mark, not theirs, not redacted.               *)
Unread(t, who) ==
  {i \in DOMAIN msgs : /\ msgs[i].thread = t /\ i > marks[t][who]
                       /\ msgs[i].sender # who /\ ~msgs[i].deleted}

ChatInit ==
  /\ chatThreads = {}
  /\ msgs = <<>>
  /\ marks = [t \in ThreadNames |-> [s \in Sides(t) |-> 0]]
  /\ chatOp = [c \in ChatCallers |-> IdleCall]
  /\ told = {}
  /\ rewrites = 0

ChatNext ==
  \/ \E c \in ChatCallers :
       \/ StartConversation(c) \/ OpenTicketThread(c) \/ openingMessage(c)
       \/ SendMessage(c) \/ MarkConversationRead(c) \/ SaveMark(c)
       \/ UpdateMessage(c) \/ RedactMessage(c) \/ SaveRow(c)
  \/ PostTicketMessage
  \/ PostSystemMessage

ChatSpec == ChatInit /\ [][ChatNext]_chatVars

(***************************************************************************)
(* Properties                                                               *)
(***************************************************************************)

(* Types.                                                                   *)
ChatTypeOK ==
  /\ chatThreads \subseteq ThreadNames
  /\ Len(msgs) <= MaxMessages
  /\ \A i \in DOMAIN msgs :
       /\ msgs[i].sender \in People \cup {System}
       /\ msgs[i].body \in {"text", "edited", "none"}
       /\ msgs[i].reply \in 0 .. MaxMessages
  /\ \A t \in ThreadNames : marks[t] \in [Sides(t) -> 0 .. MaxMessages]
  /\ \A c \in ChatCallers : chatOp[c].act \in {"idle", "opening", "mark", "save"}
  /\ told \subseteq People

(* hideSupport's promise where the code keeps it: the pages and the inbox   *)
(* row of a ticket thread name nobody but the requester, replies and the    *)
(* messages they quote included. The answers to SendMessage and             *)
(* UpdateMessage are not put through it, so a requester who replies to a    *)
(* moderator's message is named that moderator: that is the one way, and no *)
(* push adds another. And replyTarget's: a quote never reads one thread out *)
(* through another.                                                         *)
ThreadsKeepTheirSecrets ==
  /\ Shown("ticket", Requester) \subseteq {Requester}
  /\ told \subseteq {Requester} \cup QuotedBy(Requester)
  /\ \A i \in DOMAIN msgs :
       msgs[i].reply # NoMessage => msgs[msgs[i].reply].thread = msgs[i].thread

(* conversation.go: "a mark never moves backwards even if two requests      *)
(* race": what a side has read stays read, so its badge grows by a new      *)
(* message (or one brought back) and by nothing else.                       *)
ReadStaysRead ==
  \A t \in ThreadNames : \A s \in Sides(t) :
    /\ marks'[t][s] >= marks[t][s]
    /\ Unread(t, s)' \subseteq
         Unread(t, s) \cup {Len(msgs) + 1} \cup {i \in DOMAIN msgs : msgs[i].deleted}

=============================================================================
