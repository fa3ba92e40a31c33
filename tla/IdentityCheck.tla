--------------------------- MODULE IdentityCheck ---------------------------
(***************************************************************************)
(* The identity checks of one account: scans handed to a vendor, verdicts  *)
(* given by it or by moderators, and documents that run out                *)
(* (account/service_identity.go, domain/identity.go,                       *)
(* adapter/postgres/identity.go, account.go).                              *)
(*                                                                         *)
(* A request asks whether the account is verified, calls the vendor or     *)
(* decides on the copy it read, and writes afterwards; what holds between  *)
(* requests is held by the WHERE clause and the unique index.              *)
(***************************************************************************)
EXTENDS Integers

CONSTANTS
  Documents,        \* the rows that may be inserted
  IdentityCallers,  \* concurrent requests: the account's own and moderators'
  NoDocument

ASSUME IdentityAssumption == NoDocument \notin Documents

VARIABLES
  document,   \* the rows: verdict, kind of document, whether it has run out
  checking,   \* the running requests
  answered    \* what the last request of each caller was told

identityVars == <<document, checking, answered>>

\* A national id need not carry an expiry; a passport and a driver license must.
DocTypes == {"national-id", "passport"}
expiringDocTypes == {"passport"}

Document == [status : {"none", "pending", "verified", "rejected"}, type : DocTypes,
             expires : BOOLEAN, ranOut : BOOLEAN]

NotFiled == [status |-> "none", type |-> "national-id", expires |-> FALSE, ranOut |-> FALSE]
NoCheck == [op |-> "none", id |-> NoDocument, row |-> NotFiled]

\* Every variable holds a value of its kind.
IdentityTypeOK ==
  /\ document \in [Documents -> Document]
  /\ checking \in [IdentityCallers -> [op : {"none", "start", "read", "decide"},
                                       id : Documents \cup {NoDocument}, row : Document]]
  /\ answered \in [IdentityCallers -> {"nothing", "done", "already-verified", "already-decided", "refused"}]

IdentityInit ==
  /\ document = [d \in Documents |-> NotFiled]
  /\ checking = [c \in IdentityCallers |-> NoCheck]
  /\ answered = [c \in IdentityCallers |-> "nothing"]

-----------------------------------------------------------------------------
(* The document's rules and the table's *)

IsLive(row) == row.status = "verified" /\ ~row.ranOut
HasLiveVerifiedDocument == \E d \in Documents : IsLive(document[d])

NewIdentityDocument(type) == [NotFiled EXCEPT !.status = "pending", !.type = type]

\* Verify and Reject decide a pending copy; an expiring document needs its date.
CanVerify(row, expires) == row.status = "pending" /\ (row.type \in expiringDocTypes => expires)
Verify(row, expires) == [row EXCEPT !.status = "verified", !.expires = expires]
CanReject(row) == row.status = "pending"
Reject(row) == [row EXCEPT !.status = "rejected"]

\* Mutant: the unique index is gone.
NothingIndexed(d, row) == FALSE

\* The index that allows an account one verified row.
VerifiedTaken(d, row) ==
  row.status = "verified" /\ \E e \in Documents \ {d} : document[e].status = "verified"

\* Mutant: UPDATE ... WHERE id = @id alone.
VerdictLandsAnyway(d) == TRUE

\* UpdateIdentityVerdict only moves a pending row.
VerdictLands(d) == document[d].status = "pending"

-----------------------------------------------------------------------------
(* The requests *)

Answer(c, a) == checking' = [checking EXCEPT ![c] = NoCheck] /\ answered' = [answered EXCEPT ![c] = a]
Checking(c, op, d, row) ==
  /\ checking' = [checking EXCEPT ![c] = [op |-> op, id |-> d, row |-> row]]
  /\ answered' = [answered EXCEPT ![c] = "nothing"]
NotChecking(c) == checking[c].op = "none"

\* The account is not verified yet, every scan named is there (scans), and the vendor
\* answers: pending, or a verdict that goes through Verify or Reject.
StartIdentityVerification(c, type, verdict, expires) ==
  LET row == NewIdentityDocument(type) IN
  /\ NotChecking(c)
  /\ \/ HasLiveVerifiedDocument /\ Answer(c, "already-verified")
     \/ ~HasLiveVerifiedDocument /\ verdict = "pending" /\ Checking(c, "start", NoDocument, row)
     \/ /\ ~HasLiveVerifiedDocument /\ verdict = "verified"
        /\ IF CanVerify(row, expires) THEN Checking(c, "start", NoDocument, Verify(row, expires))
           ELSE Answer(c, "refused")
     \/ ~HasLiveVerifiedDocument /\ verdict = "rejected" /\ Checking(c, "start", NoDocument, Reject(row))
  /\ UNCHANGED document

\* scans: one of the images named is missing or was never confirmed.
ScanUnavailable(c) ==
  /\ NotChecking(c) /\ ~HasLiveVerifiedDocument /\ Answer(c, "refused") /\ UNCHANGED document

InsertIdentityDocument(c, d) ==
  LET row == checking[c].row IN
  /\ checking[c].op = "start" /\ document[d] = NotFiled
  /\ \/ VerifiedTaken(d, row) /\ Answer(c, "already-verified") /\ UNCHANGED document
     \/ ~VerifiedTaken(d, row) /\ Answer(c, "done") /\ document' = [document EXCEPT ![d] = row]

\* AdminRecordIdentityVerdict: the document is read, then, for an approval, whether
\* the account is verified; the domain decides on the copy.
FindIdentityDocument(c, d) ==
  /\ NotChecking(c) /\ document[d] # NotFiled
  /\ Checking(c, "read", d, document[d]) /\ UNCHANGED document

AdminRecordIdentityVerdict(c, verdict, expires) ==
  LET copy == checking[c].row
      d == checking[c].id IN
  /\ checking[c].op = "read" /\ UNCHANGED document
  /\ \/ /\ verdict = "verified" /\ HasLiveVerifiedDocument /\ Answer(c, "already-verified")
     \/ /\ verdict = "verified" /\ ~HasLiveVerifiedDocument
        /\ IF CanVerify(copy, expires) THEN Checking(c, "decide", d, Verify(copy, expires))
           ELSE Answer(c, IF copy.status # "pending" THEN "already-decided" ELSE "refused")
     \/ /\ verdict = "rejected"
        /\ IF CanReject(copy) THEN Checking(c, "decide", d, Reject(copy)) ELSE Answer(c, "already-decided")

UpdateIdentityVerdict(c) ==
  LET d == checking[c].id
      row == checking[c].row IN
  /\ checking[c].op = "decide"
  /\ \/ ~VerdictLands(d) /\ Answer(c, "already-decided") /\ UNCHANGED document
     \/ VerdictLands(d) /\ VerifiedTaken(d, row) /\ Answer(c, "already-verified") /\ UNCHANGED document
     \/ /\ VerdictLands(d) /\ ~VerifiedTaken(d, row) /\ Answer(c, "done")
        /\ document' = [document EXCEPT ![d] = row]

\* The date on the document passes; its row stays as it is.
RunOut(d) ==
  /\ document[d].status = "verified" /\ document[d].expires /\ ~document[d].ranOut
  /\ document' = [document EXCEPT ![d].ranOut = TRUE]
  /\ UNCHANGED <<checking, answered>>

\* The vendor or the database fails, or the process dies, in the middle of a request.
AbandonCheck(c) == ~NotChecking(c) /\ Answer(c, "nothing") /\ UNCHANGED document

IdentityNext ==
  \/ \E c \in IdentityCallers :
       \/ \E expires \in BOOLEAN :
            \/ \E type \in DocTypes, verdict \in {"pending", "verified", "rejected"} :
                 StartIdentityVerification(c, type, verdict, expires)
            \/ \E verdict \in {"verified", "rejected"} : AdminRecordIdentityVerdict(c, verdict, expires)
       \/ \E d \in Documents : InsertIdentityDocument(c, d) \/ FindIdentityDocument(c, d)
       \/ ScanUnavailable(c) \/ UpdateIdentityVerdict(c) \/ AbandonCheck(c)
  \/ \E d \in Documents : RunOut(d)

IdentitySpec == IdentityInit /\ [][IdentityNext]_identityVars

-----------------------------------------------------------------------------
(* Properties *)

\* "Two moderators deciding at once cannot overwrite each other", nor can a vendor's
\* verdict and a moderator's: what was decided about a document stands, whoever read
\* it while it was pending, and an account never has two documents that prove it.
VerdictStands ==
  \A d \in Documents : document[d].status \in {"verified", "rejected"} =>
    document'[d] = [document[d] EXCEPT !.ranOut = document'[d].ranOut]

\* Checks that both found the account unverified do not both verify it.
OneVerifiedIdentity ==
  \A d, e \in Documents : document[d].status = "verified" /\ document[e].status = "verified" => d = e

\* "One live verified identity per account": a check is turned away as already
\* verified only while some document of the account is live.
TurnedAwayOnlyWhileLive ==
  [][\A c \in IdentityCallers : answered[c] # answered'[c] /\ answered'[c] = "already-verified"
       => HasLiveVerifiedDocument]_identityVars
=============================================================================
