---------------------------- MODULE ContactBook ----------------------------
(***************************************************************************)
(* The saved addresses of one account: the two defaults an order ships     *)
(* from and to, and the number a courier dials, which a code verifies      *)
(* (account/service_contact.go, domain/contact.go,                         *)
(* adapter/postgres/contact.go).                                           *)
(*                                                                         *)
(* A row carries no version: a request reads it, changes its copy and      *)
(* writes every column back, in a READ COMMITTED transaction that first     *)
(* clears the roles it claims from the rows its statement finds.  The code  *)
(* sent to a number lies in the cache under the contact, not the number.    *)
(***************************************************************************)
EXTENDS Integers

CONSTANTS
  Contacts,          \* the rows that may be inserted
  Phones,            \* numbers
  Roles,             \* the defaults a contact may hold, delivery and pickup, handled alike
  ContactCallers,    \* concurrent requests of the owner
  MaxContactWrites,  \* how often rows are written
  NoPhone, NoContact

ASSUME ContactAssumption ==
  MaxContactWrites \in Nat /\ NoPhone \notin Phones /\ NoContact \notin Contacts

VARIABLES
  contact,      \* the rows
  phoneCode,    \* the code of each contact in the cache, by the number it was sent to
  codeHeld,     \* the numbers the throttle holds back
  editing,      \* the running requests
  writes

contactVars == <<contact, phoneCode, codeHeld, editing, writes>>

Contact == [phone : Phones \cup {NoPhone}, verified : BOOLEAN, defaults : SUBSET Roles]
NoRowYet == [phone |-> NoPhone, verified |-> FALSE, defaults |-> {}]

\* A request: its copy, and its transaction.  `looked` are the roles whose clearing
\* statement has its snapshot, `due` the holders that found, `cleared` those it has
\* locked and cleared; `raced` (history) says that another request took such a role since.
NotEditing == [op |-> "none", id |-> NoContact, row |-> NoRowYet, seen |-> NoPhone,
               looked |-> {}, due |-> {}, cleared |-> {}, raced |-> FALSE]

\* Every variable holds a value of its kind.
ContactTypeOK ==
  /\ contact \in [Contacts -> Contact]
  /\ phoneCode \in [Contacts -> Phones \cup {NoPhone}]
  /\ codeHeld \subseteq Phones
  /\ editing \in [ContactCallers ->
       [op : {"none", "create", "update", "send", "store", "match", "drop", "verify"},
        id : Contacts \cup {NoContact}, row : Contact, seen : Phones \cup {NoPhone},
        looked : SUBSET Roles, due : SUBSET (Contacts \X Roles), cleared : SUBSET (Contacts \X Roles),
        raced : BOOLEAN]]
  /\ writes \in 0 .. MaxContactWrites

ContactInit ==
  /\ contact = [k \in Contacts |-> NoRowYet]
  /\ phoneCode = [k \in Contacts |-> NoPhone]
  /\ codeHeld = {}
  /\ editing = [c \in ContactCallers |-> NotEditing]
  /\ writes = 0

-----------------------------------------------------------------------------
ContactSaved(k) == contact[k] # NoRowYet
Free(c) == editing[c].op = "none"
EditEnds(c) == editing' = [editing EXCEPT ![c] = NotEditing]
Editing(c, op, k, row, seen) ==
  editing' = [editing EXCEPT ![c].op = op, ![c].id = k, ![c].row = row, ![c].seen = seen]
GoOn(c, op) == editing' = [editing EXCEPT ![c].op = op]

\* SetPhone: another number is an unverified one.
SetPhone(row, p) == IF row.phone = p THEN row ELSE [row EXCEPT !.phone = p, !.verified = FALSE]

EditWrites(c) == editing[c].op \in {"create", "update", "verify"}
LockedByAnother(c, e) == \E d \in ContactCallers \ {c}, r \in Roles : <<e, r>> \in editing[d].cleared

\* Mutant: the previous holder keeps the role.
ClearNothing(c) == contact

\* The rows as c's transaction leaves them when its clearing statements are through.
clearDefaults(c) ==
  [e \in Contacts |->
     [contact[e] EXCEPT !.defaults = {r \in @ : <<e, r>> \notin editing[c].cleared}]]

\* One clearing statement: the rows its snapshot finds holding a role the copy claims.
LookForHolders(c, r) ==
  /\ EditWrites(c) /\ editing[c].due = {} /\ r \in editing[c].row.defaults \ editing[c].looked
  /\ editing' = [editing EXCEPT ![c].looked = @ \cup {r},
       ![c].due = {x \in Contacts \X {r} : x[1] # editing[c].id /\ r \in contact[x[1]].defaults}]
  /\ UNCHANGED <<contact, phoneCode, codeHeld, writes>>

\* It waits for whoever has the row, reads it again and clears the role if it is there
\* still; the row stays locked to the end of the transaction.
ClearHolder(c, e, r) ==
  /\ <<e, r>> \in editing[c].due /\ ~LockedByAnother(c, e)
  /\ editing' = [editing EXCEPT ![c].due = @ \ {<<e, r>>},
       ![c].cleared = IF ContactSaved(e) THEN @ \cup {<<e, r>>} ELSE @]
  /\ UNCHANGED <<contact, phoneCode, codeHeld, writes>>

\* The two partial unique indexes.
OneHolderPerRole(table) ==
  \A r \in Roles : \A d, e \in Contacts : r \in table[d].defaults \cap table[e].defaults => d = e

\* The table after the INSERT or the UPDATE.
RowsAfter(c, k) == [clearDefaults(c) EXCEPT ![k] = editing[c].row]

\* The clearing is over, and neither the row nor one the index compares it with is in
\* another transaction's hands.  A new row takes an id no request names.
MayWrite(c, k) ==
  /\ EditWrites(c) /\ editing[c].due = {} /\ editing[c].row.defaults \subseteq editing[c].looked
  /\ IF editing[c].op = "create"
     THEN /\ ~ContactSaved(k) /\ phoneCode[k] = NoPhone
          /\ \A d \in ContactCallers :
               editing[d].id # k /\ \A x \in editing[d].due \cup editing[d].cleared : x[1] # k
     ELSE editing[c].id = k
  /\ \A e \in Contacts :
       e = k \/ editing[c].row.defaults \cap contact[e].defaults # {} => ~LockedByAnother(c, e)

\* InsertContact and UpdateContact, from the write to the commit.  A row deleted
\* meanwhile is not written; an index that is not satisfied takes everything back.
WriteContact(c, k) ==
  /\ writes < MaxContactWrites /\ MayWrite(c, k)
  /\ \/ /\ editing[c].op = "create" \/ ContactSaved(k)
        /\ OneHolderPerRole(RowsAfter(c, k))
        /\ contact' = RowsAfter(c, k) /\ writes' = writes + 1
        /\ editing' = [d \in ContactCallers |->
             IF d = c THEN NotEditing
             ELSE IF editing[d].looked \cap (editing[c].row.defaults \ contact[k].defaults) = {} THEN editing[d]
             ELSE [editing[d] EXCEPT !.raced = TRUE]]
     \/ /\ ~(editing[c].op = "create" \/ ContactSaved(k)) \/ ~OneHolderPerRole(RowsAfter(c, k))
        /\ EditEnds(c) /\ UNCHANGED <<contact, writes>>
  /\ UNCHANGED <<phoneCode, codeHeld>>

\* The area resolves to a name (canonicalizeArea) and the whole row is valid.
CreateContact(c, p, roles) ==
  /\ Free(c)
  /\ Editing(c, "create", NoContact, [phone |-> p, verified |-> FALSE, defaults |-> roles], NoPhone)
  /\ UNCHANGED <<contact, phoneCode, codeHeld, writes>>

UpdateContact(c, k, p, roles) ==
  /\ Free(c) /\ ContactSaved(k)
  /\ Editing(c, "update", k, [SetPhone(contact[k], p) EXCEPT !.defaults = roles], NoPhone)
  /\ UNCHANGED <<contact, phoneCode, codeHeld, writes>>

DeleteContact(k) ==
  /\ ContactSaved(k) /\ \A c \in ContactCallers, r \in Roles : <<k, r>> \notin editing[c].cleared
  /\ contact' = [contact EXCEPT ![k] = NoRowYet]
  /\ UNCHANGED <<phoneCode, codeHeld, editing, writes>>

\* RequestContactPhoneVerification: the row read, the throttle asked, then set, the
\* code stored under the contact and sent to the number of the copy.
RequestContactPhoneVerification(c, k) ==
  /\ Free(c) /\ ContactSaved(k) /\ ~contact[k].verified /\ contact[k].phone \notin codeHeld
  /\ Editing(c, "send", k, contact[k], NoPhone)
  /\ UNCHANGED <<contact, phoneCode, codeHeld, writes>>

HoldNextCode(c) ==
  /\ editing[c].op = "send" /\ GoOn(c, "store")
  /\ codeHeld' = codeHeld \cup {editing[c].row.phone}
  /\ UNCHANGED <<contact, phoneCode, writes>>

StorePhoneCode(c) ==
  /\ editing[c].op = "store" /\ EditEnds(c)
  /\ phoneCode' = [phoneCode EXCEPT ![editing[c].id] = editing[c].row.phone]
  /\ UNCHANGED <<contact, codeHeld, writes>>

\* VerifyContactPhone: the row read, the code read and matched, the key deleted, the
\* copy written back with the flag set.
VerifyContactPhone(c, k) ==
  /\ Free(c) /\ ContactSaved(k)
  /\ Editing(c, "match", k, contact[k], NoPhone)
  /\ UNCHANGED <<contact, phoneCode, codeHeld, writes>>

MatchPhoneCode(c) ==
  LET sent == phoneCode[editing[c].id] IN
  /\ editing[c].op = "match"
  /\ \/ sent = NoPhone /\ EditEnds(c)
     \/ sent # NoPhone /\ Editing(c, "drop", editing[c].id, editing[c].row, sent)
  /\ UNCHANGED <<contact, phoneCode, codeHeld, writes>>

DropPhoneCode(c) ==
  /\ editing[c].op = "drop"
  /\ phoneCode' = [phoneCode EXCEPT ![editing[c].id] = NoPhone]
  /\ editing' = [editing EXCEPT ![c].op = "verify", ![c].row.verified = TRUE]
  /\ UNCHANGED <<contact, codeHeld, writes>>

PhoneCodeLapses(k) ==
  /\ phoneCode[k] # NoPhone /\ phoneCode' = [phoneCode EXCEPT ![k] = NoPhone]
  /\ UNCHANGED <<contact, codeHeld, editing, writes>>

CodeHoldLapses(p) ==
  /\ p \in codeHeld /\ codeHeld' = codeHeld \ {p}
  /\ UNCHANGED <<contact, phoneCode, editing, writes>>

\* A context that ends, a lost connection, or the victim of two transactions that wait
\* for each other: whatever it cleared is rolled back.
AbandonEdit(c) ==
  ~Free(c) /\ EditEnds(c) /\ UNCHANGED <<contact, phoneCode, codeHeld, writes>>

ContactNext ==
  \/ \E c \in ContactCallers :
       \/ \E p \in Phones, roles \in SUBSET Roles :
            CreateContact(c, p, roles) \/ \E k \in Contacts : UpdateContact(c, k, p, roles)
       \/ \E r \in Roles : LookForHolders(c, r) \/ \E e \in Contacts : ClearHolder(c, e, r)
       \/ \E k \in Contacts :
            WriteContact(c, k) \/ RequestContactPhoneVerification(c, k) \/ VerifyContactPhone(c, k)
       \/ HoldNextCode(c) \/ StorePhoneCode(c) \/ MatchPhoneCode(c) \/ DropPhoneCode(c) \/ AbandonEdit(c)
  \/ \E k \in Contacts : DeleteContact(k) \/ PhoneCodeLapses(k)
  \/ \E p \in Phones : CodeHoldLapses(p)

ContactSpec == ContactInit /\ [][ContactNext]_contactVars

-----------------------------------------------------------------------------
(* Properties *)

\* GetPickupContact and GetDeliveryContact answer the one row an order ships from or
\* to: whatever stale copies claim a role in turn, one row holds it, and a claim takes
\* it from the holder.  A claim is refused only when another request took the role
\* after its clearing statement had looked.
DefaultMoves ==
  /\ OneHolderPerRole(contact)
  /\ \A c \in ContactCallers, k \in Contacts :
       MayWrite(c, k) /\ ~editing[c].raced /\ (editing[c].op = "create" \/ ContactSaved(k))
       => OneHolderPerRole(RowsAfter(c, k))

=============================================================================
