------------------------------- MODULE Payees -------------------------------
(***************************************************************************)
(* Where the money goes and who it is filed under: the payout destinations *)
(* of one account, at most one of them its default, and the tax            *)
(* registrations of several, decided by an admin                           *)
(* (finance/service_payee.go, adapter/postgres/payee.go).                  *)
(*                                                                         *)
(* Every write follows a read in another statement. Two of the rules are   *)
(* kept by partial unique indexes (one live default per account, one       *)
(* verified holder per tax code), the third by the WHERE of the verdict:   *)
(* only a pending registration is decidable.                               *)
(***************************************************************************)
EXTENDS Naturals

CONSTANTS
    Banks,         \* payout destinations the account may register
    Filers,        \* accounts that file a tax registration
    TaxCodes,      \* tax codes
    PayeeCallers,  \* calls in flight at once
    Withdrawals,   \* withdrawals the account may ask for
    MaxFilings,    \* filings per account
    NoBank, NoCode

ASSUME PayeeAssumption == MaxFilings \in Nat

VARIABLES
    bank,       \* the bank_account rows
    cashOut,    \* the withdrawals: which row they name and whether they are in flight
    tax,        \* the tax_info rows
    payeeCall,  \* what each call has read
    verdicts    \* the verdicts recorded, as <<filer, filing, status>>, with the call's order

payeeVars == <<bank, cashOut, tax, payeeCall, verdicts>>

BankRow == [state : {"unregistered", "live", "deleted"}, isDefault : BOOLEAN]

TaxRow == [code : TaxCodes \union {NoCode}, filing : 0..MaxFilings,
           status : {"none", "pending", "verified", "rejected"}]

NoPayeeCall == [op |-> "idle", bank |-> NoBank, isDefault |-> FALSE,
                cleared |-> {}, filer |-> NoBank, status |-> "none"]

LiveBanks == {b \in Banks : bank[b].state = "live"}

Defaults == {b \in LiveBanks : bank[b].isDefault}

PayeeInit ==
    /\ bank = [b \in Banks |-> [state |-> "unregistered", isDefault |-> FALSE]]
    /\ cashOut = [w \in Withdrawals |-> [bank |-> NoBank, live |-> FALSE]]
    /\ tax = [a \in Filers |-> [code |-> NoCode, filing |-> 0, status |-> "none"]]
    /\ payeeCall = [c \in PayeeCallers |-> NoPayeeCall]
    /\ verdicts = [a \in Filers |-> [f \in 1..MaxFilings |-> 0]]

IdlePayee(c) == payeeCall[c] = NoPayeeCall

EndPayeeCall(c) == payeeCall' = [payeeCall EXCEPT ![c] = NoPayeeCall]

-----------------------------------------------------------------------------
(* Payout destinations.                                                    *)

(* CreateBankAccount: the list is read first, and the first destination    *)
(* becomes the default whatever the request said.                          *)
CreateBankAccount(c, b, asked) ==
    /\ IdlePayee(c) /\ bank[b].state = "unregistered"
    /\ \A d \in PayeeCallers : payeeCall[d].bank # b
    /\ payeeCall' = [payeeCall EXCEPT ![c] = [NoPayeeCall EXCEPT !.op = "insert",
            !.bank = b, !.isDefault = asked \/ LiveBanks = {}]]
    /\ UNCHANGED <<bank, cashOut, tax, verdicts>>

(* UpdateBankAccount: the row is read and the flag set on the copy.        *)
UpdateBankAccount(c, b, asked) ==
    /\ IdlePayee(c) /\ bank[b].state = "live"
    /\ payeeCall' = [payeeCall EXCEPT ![c] = [NoPayeeCall EXCEPT !.op = "save",
            !.bank = b, !.isDefault = asked]]
    /\ UNCHANGED <<bank, cashOut, tax, verdicts>>

(* clearDefaultBankAccount: the statement clears the defaults it can see,  *)
(* in the transaction of the write that claims the flag.                   *)
clearDefaultBankAccount(c) ==
    /\ payeeCall[c].op \in {"insert", "save"}
    /\ payeeCall' = [payeeCall EXCEPT ![c].op = IF @ = "insert" THEN "insert-row" ELSE "save-row",
            ![c].cleared = IF payeeCall[c].isDefault THEN Defaults ELSE {}]
    /\ UNCHANGED <<bank, cashOut, tax, verdicts>>

(* Mutant: no index behind the clear.                                      *)
NoDefaultIndex(c) == TRUE

(* The unique index: no live default but the ones this transaction cleared *)
(* and the row it writes.                                                  *)
DefaultIndexAllows(c) ==
    payeeCall[c].isDefault => Defaults \subseteq payeeCall[c].cleared \union {payeeCall[c].bank}

(* InsertBankAccount and SaveBankAccount commit, or the whole transaction  *)
(* fails: on the index, or because the row to save has been deleted.       *)
WriteBankAccount(c) ==
    LET k == payeeCall[c]
        lands == DefaultIndexAllows(c) /\ (k.op = "save-row" => bank[k.bank].state = "live") IN
    /\ k.op \in {"insert-row", "save-row"}
    /\ bank' = IF ~lands THEN bank
               ELSE [b \in Banks |->
                        IF b = k.bank THEN [state |-> "live", isDefault |-> k.isDefault]
                        ELSE IF b \in k.cleared THEN [bank[b] EXCEPT !.isDefault = FALSE]
                        ELSE bank[b]]
    /\ EndPayeeCall(c)
    /\ UNCHANGED <<cashOut, tax, verdicts>>

(* SoftDeleteBankAccount: refused while a withdrawal to it is in flight.   *)
DeleteBankAccount(b) ==
    /\ bank[b].state = "live"
    /\ \A w \in Withdrawals : ~(cashOut[w].live /\ cashOut[w].bank = b)
    /\ bank' = [bank EXCEPT ![b].state = "deleted"]
    /\ UNCHANGED <<cashOut, tax, payeeCall, verdicts>>

(* CreateWithdrawal reads the destination, then a good deal later inserts  *)
(* a session that names it. The insert does not look at the row again.     *)
NameDestination(c, b) ==
    /\ IdlePayee(c) /\ bank[b].state = "live"
    /\ payeeCall' = [payeeCall EXCEPT ![c] = [NoPayeeCall EXCEPT !.op = "withdraw", !.bank = b]]
    /\ UNCHANGED <<bank, cashOut, tax, verdicts>>

InsertWithdrawal(c, w) ==
    /\ payeeCall[c].op = "withdraw" /\ cashOut[w].bank = NoBank
    /\ cashOut' = [cashOut EXCEPT ![w] = [bank |-> payeeCall[c].bank, live |-> TRUE]]
    /\ EndPayeeCall(c)
    /\ UNCHANGED <<bank, tax, verdicts>>

(* Approved, rejected or cancelled: see PaymentSession.                    *)
SettleWithdrawal(w) ==
    /\ cashOut[w].live
    /\ cashOut' = [cashOut EXCEPT ![w].live = FALSE]
    /\ UNCHANGED <<bank, tax, payeeCall, verdicts>>

-----------------------------------------------------------------------------
(* Tax registrations.                                                      *)

(* Mutant: filing again keeps the verdict on file.                         *)
FiledAgain(row, code) == [code |-> code, filing |-> row.filing + 1,
                          status |-> IF row.status = "none" THEN "pending" ELSE row.status]

(* NewTaxInfo: a filing always starts unverified.                          *)
NewTaxInfo(row, code) == [code |-> code, filing |-> row.filing + 1, status |-> "pending"]

(* PutTaxInfo: one row per account, replaced by each filing.               *)
PutTaxInfo(a, code) ==
    /\ tax[a].filing < MaxFilings
    /\ tax' = [tax EXCEPT ![a] = NewTaxInfo(tax[a], code)]
    /\ UNCHANGED <<bank, cashOut, payeeCall, verdicts>>

(* AdminVerifyTaxInfo and Verify: the registration is read and must be     *)
(* pending.                                                                *)
AdminVerifyTaxInfo(c, a, status) ==
    /\ IdlePayee(c) /\ tax[a].status = "pending"
    /\ payeeCall' = [payeeCall EXCEPT ![c] = [NoPayeeCall EXCEPT !.op = "verdict",
            !.filer = a, !.status = status]]
    /\ UNCHANGED <<bank, cashOut, tax, verdicts>>

(* Mutant: the verdict is written whatever the row's status is by then.    *)
DecideAnyway(a) == TRUE

(* WHERE verification_status = 'pending'.                                  *)
StillPending(a) == tax[a].status = "pending"

(* Mutant: no index on verified codes.                                     *)
NoCodeIndex(a, status) == FALSE

(* tax_info_tax_code_verified_uq.                                          *)
CodeTaken(a, status) ==
    /\ status = "verified"
    /\ \E o \in Filers \ {a} : tax[o].status = "verified" /\ tax[o].code = tax[a].code

(* SaveTaxInfo: the row as it is now gets the verdict.                     *)
SaveTaxInfo(c) ==
    LET a == payeeCall[c].filer
        lands == StillPending(a) /\ ~CodeTaken(a, payeeCall[c].status) IN
    /\ payeeCall[c].op = "verdict"
    /\ IF lands
       THEN /\ tax' = [tax EXCEPT ![a].status = payeeCall[c].status]
            /\ verdicts' = [verdicts EXCEPT ![a][tax[a].filing] = @ + 1]
       ELSE UNCHANGED <<tax, verdicts>>
    /\ EndPayeeCall(c)
    /\ UNCHANGED <<bank, cashOut>>

(* A call that fails, or whose process stops, before it writes.            *)
PayeeCallFails(c) ==
    /\ ~IdlePayee(c)
    /\ EndPayeeCall(c)
    /\ UNCHANGED <<bank, cashOut, tax, verdicts>>

-----------------------------------------------------------------------------
BankNext ==
    \/ \E c \in PayeeCallers, b \in Banks, asked \in BOOLEAN :
            CreateBankAccount(c, b, asked) \/ UpdateBankAccount(c, b, asked)
    \/ \E c \in PayeeCallers : clearDefaultBankAccount(c) \/ WriteBankAccount(c)
    \/ \E b \in Banks : DeleteBankAccount(b)
    \/ \E c \in PayeeCallers, b \in Banks : NameDestination(c, b)
    \/ \E c \in PayeeCallers, w \in Withdrawals : InsertWithdrawal(c, w)
    \/ \E w \in Withdrawals : SettleWithdrawal(w)
    \/ \E c \in PayeeCallers : PayeeCallFails(c)

TaxNext ==
    \/ \E a \in Filers, code \in TaxCodes : PutTaxInfo(a, code)
    \/ \E c \in PayeeCallers, a \in Filers, status \in {"verified", "rejected"} :
            AdminVerifyTaxInfo(c, a, status)
    \/ \E c \in PayeeCallers : SaveTaxInfo(c) \/ PayeeCallFails(c)

PayeeNext == BankNext \/ TaxNext

PayeeSpec == PayeeInit /\ [][PayeeNext]_payeeVars

-----------------------------------------------------------------------------
PayeeTypeOK ==
    /\ bank \in [Banks -> BankRow]
    /\ cashOut \in [Withdrawals -> [bank : Banks \union {NoBank}, live : BOOLEAN]]
    /\ tax \in [Filers -> TaxRow]
    /\ payeeCall \in [PayeeCallers ->
            [op : {"idle", "insert", "save", "insert-row", "save-row", "withdraw", "verdict"},
             bank : Banks \union {NoBank}, isDefault : BOOLEAN, cleared : SUBSET Banks,
             filer : Filers \union {NoBank}, status : {"none", "verified", "rejected"}]]
    /\ verdicts \in [Filers -> [1..MaxFilings -> 0..2]]

(* A form has one destination to preselect and a tax code one holder, with *)
(* the reads that claim either made before other calls' writes: the clear  *)
(* and the claim of the default are one transaction under an index, and    *)
(* two admins verifying one code for two accounts do not both land.        *)
PayeesSound ==
    /\ \A b, d \in Defaults : b = d
    /\ \A a, o \in Filers :
            tax[a].status = "verified" /\ tax[o].status = "verified" /\ tax[a].code = tax[o].code
            => a = o

(* Every filing is decided at most once, and a filing on file as decided   *)
(* was decided itself: filing again resets the verdict, and two admins     *)
(* who both read it pending cannot both record theirs.                     *)
FilingDecidedOnce ==
    \A a \in Filers :
        /\ \A f \in 1..MaxFilings : verdicts[a][f] <= 1
        /\ tax[a].status \in {"verified", "rejected"} => verdicts[a][tax[a].filing] = 1

=============================================================================
