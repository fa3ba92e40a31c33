-------------------------- MODULE NotificationFeed --------------------------
(***************************************************************************)
(* What accounts are told: the subscriber that turns another module's      *)
(* facts into feed rows and mails, and the preferences that decide them    *)
(* (account/subscriber.go, service_notification.go,                        *)
(* domain/notification.go, adapter/postgres/notification.go).              *)
(*                                                                         *)
(* The subscriber is the handler of the bus's loop: module EventBus        *)
(* delivers an entry, and this module tells its parties one after another. *)
(***************************************************************************)
EXTENDS EventBus, Sequences

CONSTANTS
  Buyer, Seller,   \* the two parties of the sale every entry is about
  MaxToggles       \* how often preferences change

\* The subscriptions pass no options (account/subscriber.go), so a batch is one entry.
ASSUME FeedAssumption == MaxToggles \in Nat /\ Buyer # Seller /\ BatchSize = 1

VARIABLES
  preference,  \* the stored deviations from the defaults
  telling,     \* the handler: which party is next, and the preferences it read for it
  row,         \* the feed: which fact each party has been told
  muted,       \* history: the pairs some handler found switched off in the feed
  toggles      \* preference changes so far

feedVars == <<preference, telling, row, muted, toggles>>
notificationVars == <<busVars, feedVars>>

Recipients == {Buyer, Seller}
Channels == {"in-app", "push", "email", "sms"}

\* The order category: everything but SMS, which is opt-in.
DefaultPreference(channel) == channel # "sms"

\* The facts about a sale, in the order notifyParties writes them.
PartyOrder == <<Buyer, Seller>>

NotTelling == [party |-> 0, at |-> "idle", on |-> {}]

\* Every variable holds a value of its kind.
FeedTypeOK ==
  /\ preference \in [Recipients \X Channels -> {"none", "on", "off"}]
  /\ telling \in [party : 0 .. 3, at : {"idle", "prefs", "insert", "mail"}, on : SUBSET Channels]
  /\ row \subseteq Entries \X Recipients /\ muted \subseteq Entries \X Recipients
  /\ toggles \in 0 .. MaxToggles

FeedInit ==
  /\ preference = [q \in Recipients \X Channels |-> "none"]
  /\ telling = NotTelling
  /\ row = {} /\ muted = {} /\ toggles = 0

-----------------------------------------------------------------------------
(* Preferences: rows only where the account differs from the default *)

Enabled(a, channel) ==
  IF preference[<<a, channel>>] = "none" THEN DefaultPreference(channel) ELSE preference[<<a, channel>>] = "on"

\* SplitPreferences: a pair set back to its default loses its row.
SplitPreference(channel, want) ==
  IF want = DefaultPreference(channel) THEN "none" ELSE IF want THEN "on" ELSE "off"

UpdateNotificationPreferences(a, channel, want) ==
  /\ preference' = [preference EXCEPT ![<<a, channel>>] = SplitPreference(channel, want)]
  /\ preference' # preference
  /\ toggles < MaxToggles /\ toggles' = toggles + 1
  /\ UNCHANGED <<busVars, telling, row, muted>>

-----------------------------------------------------------------------------
(* The subscriber: notifyParties, and CreateNotification for each of them *)

Fact == CHOOSE e \in loop.batch : TRUE
Party == PartyOrder[telling.party]

StartTelling ==
  /\ loop.at = "handle" /\ telling = NotTelling
  /\ telling' = [NotTelling EXCEPT !.party = 1, !.at = "prefs"]
  /\ UNCHANGED <<busVars, preference, row, muted, toggles>>

ListPreferences ==
  /\ telling.at = "prefs"
  /\ telling' = [telling EXCEPT !.at = "insert", !.on = {ch \in Channels : Enabled(Party, ch)}]
  /\ UNCHANGED <<busVars, preference, row, muted, toggles>>

\* The row, if the feed is on; a second row of the same fact is not told apart.
InsertNotification ==
  /\ telling.at = "insert"
  /\ telling' = [telling EXCEPT !.at = "mail"]
  /\ \/ "in-app" \in telling.on /\ row' = row \cup {<<Fact, Party>>} /\ UNCHANGED muted
     \/ "in-app" \notin telling.on /\ muted' = muted \cup {<<Fact, Party>>} /\ UNCHANGED row
  /\ UNCHANGED <<busVars, preference, toggles>>

\* The mail, best-effort, where the channel is on and the address verified; whether it
\* went is recorded nowhere.  Then the next party, or the end.
mailNotification ==
  /\ telling.at = "mail"
  /\ telling' = [NotTelling EXCEPT !.party = telling.party + 1, !.at = IF telling.party < 2 THEN "prefs" ELSE "idle"]
  /\ UNCHANGED <<busVars, preference, row, muted, toggles>>

\* Every party has been told.
ToldEveryone ==
  /\ telling.party = 3 /\ telling' = NotTelling /\ HandlerSucceeds
  /\ UNCHANGED <<preference, row, muted, toggles>>

\* Mutant: a party that cannot be told does not fail the set.
SkipFailedParty ==
  /\ telling.at \in {"prefs", "insert"}
  /\ telling' = [NotTelling EXCEPT !.party = telling.party + 1, !.at = IF telling.party < 2 THEN "prefs" ELSE "idle"]
  /\ UNCHANGED <<busVars, preference, row, muted, toggles>>

\* The first party that cannot be told fails the set.
FailParty ==
  /\ telling.at \in {"prefs", "insert"} /\ telling' = NotTelling /\ HandlerFails
  /\ UNCHANGED <<preference, row, muted, toggles>>

\* The process dies: the loop starts anew, and what was written stays.
RestartProcess ==
  /\ Restart /\ telling' = NotTelling
  /\ UNCHANGED <<preference, row, muted, toggles>>

SubscriberStep ==
  \/ StartTelling \/ ListPreferences \/ InsertNotification
  \/ mailNotification \/ ToldEveryone

NotificationNext ==
  \/ BusStep /\ UNCHANGED feedVars
  \/ SubscriberStep \/ FailParty \/ RestartProcess
  \/ \E a \in Recipients, channel \in Channels, want \in BOOLEAN : UpdateNotificationPreferences(a, channel, want)

NotificationInit == BusInit /\ FeedInit
NotificationSpec == NotificationInit /\ [][NotificationNext]_notificationVars

\* The consumer goroutine is always running, and a handler's calls return.
NotificationFairSpec ==
  /\ NotificationSpec
  /\ WF_notificationVars(LoopStep /\ UNCHANGED feedVars)
  /\ WF_notificationVars(SubscriberStep \/ FailParty)

-----------------------------------------------------------------------------
(* Properties *)

\* "So the bus retries the set rather than silently delivering half of it": an entry
\* whose handler returned without an error has a row for every party, unless the party
\* had switched the feed off, whatever failed or died on the way.
SettledIsTold ==
  \A e \in settled, a \in Recipients : <<e, a>> \in row \cup muted
=============================================================================
