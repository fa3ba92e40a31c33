---------------------------- MODULE HttpGateway ----------------------------
(***************************************************************************)
(* The HTTP edge: router.go says which wrapper stands before a handler, the *)
(* middleware turns a credential into a caller, the handler asks for the    *)
(* caller and parses its inputs, and the service checks the caller's role.  *)
(* Three files per route have to agree, and the session and the role may    *)
(* change while the request is on its way through them.                     *)
(***************************************************************************)
EXTENDS Naturals, FiniteSets

VARIABLES
  httpRequest,    \* the request in flight
  httpSession,    \* the session the valid token names is live
  httpRole        \* the role in the account row of that session's owner

httpVars == <<httpRequest, httpSession, httpRole>>

(***************************************************************************)
(* Handlers. `who' is what the handler does with actor(r): "nobody" never   *)
(* asks, "reader" goes on without one, "actor" answers 401. `inputs' are    *)
(* the parse steps that can answer 400 before the service is called.        *)
(***************************************************************************)
Handlers(module, who, inputs, names) ==
  [of : {module}, op : names, who : {who}, inputs : {inputs}]

Path == {"path"}

Body == {"body"}

Query == {"query"}

SignInHandlers ==
  Handlers("account", "nobody", Body,
           {"Register", "Login", "LoginOAuth", "RefreshToken",
            "RequestPasswordReset", "ResetPassword", "VerifyEmail"})
  \cup Handlers("account", "actor", Body, {"Logout", "ChangePassword"})
  \cup Handlers("account", "actor", {}, {"RequestEmailVerification"})

ProfileHandlers ==
  Handlers("account", "actor", Body, {"UpdateMe", "UpdateProfile"})
  \cup Handlers("account", "reader", Path, {"GetPublicAccount"})
  \cup Handlers("account", "actor", {},
                {"GetMe", "ListOAuthIdentities", "UnlinkOAuthIdentity"})

(* The same pair of routes in account, catalog, chat, order and trust.      *)
UploadHandlers(module) ==
  Handlers(module, "actor", Body, {"CreateUpload"})
  \cup Handlers(module, "actor", Path, {"ConfirmUpload"})

AccountUploads == UploadHandlers("account")

ContactHandlers ==
  Handlers("account", "nobody", {}, {"ListAdministrativeAreas"})
  \cup Handlers("account", "actor", {}, {"ListContacts"})
  \cup Handlers("account", "actor", Body, {"CreateContact"})
  \cup Handlers("account", "actor", Path,
                {"DeleteContact", "RequestContactPhoneVerification"})
  \cup Handlers("account", "actor", Path \cup Body,
                {"UpdateContact", "VerifyContactPhone"})

DeviceHandlers ==
  Handlers("account", "actor", Body, {"RegisterDevice"})
  \cup Handlers("account", "actor", {}, {"ListDevices"})
  \cup Handlers("account", "actor", Path, {"DeleteDevice"})

NotificationHandlers ==
  Handlers("account", "actor", Query, {"ListNotifications"})
  \cup Handlers("account", "actor", {},
                {"GetNotificationUnreadCount", "GetNotificationPreferences"})
  \cup Handlers("account", "actor", Body,
                {"MarkNotificationsRead", "UpdateNotificationPreferences"})

FollowHandlers ==
  Handlers("account", "actor", Query, {"ListFollowing"})
  \cup Handlers("account", "nobody", Path \cup Query, {"ListFollowers"})
  \cup Handlers("account", "actor", Path, {"Follow", "Unfollow"})

IdentityHandlers ==
  Handlers("account", "actor", Body, {"StartIdentityVerification"})
  \cup Handlers("account", "actor", {}, {"ListIdentityDocuments"})

AccountDeskHandlers ==
  Handlers("account", "actor", Query, {"AdminListAccounts"})
  \cup Handlers("account", "actor", Path \cup Body, {"AdminSuspendAccount"})
  \cup Handlers("account", "actor", Path,
                {"AdminLiftSuspension", "AdminRevokeModerator"})
  \cup Handlers("account", "actor", Body, {"AdminCreateModerator"})

IdentityDeskHandlers ==
  Handlers("account", "actor", Query, {"AdminListIdentityDocuments"})
  \cup Handlers("account", "actor", Path \cup Body, {"AdminRecordIdentityVerdict"})

FeedHandlers ==
  Handlers("catalog", "reader", Query, {"ListShelves", "ListListings"})

SuggestionHandlers ==
  Handlers("catalog", "actor", Body, {"SuggestListing"})
  \cup Handlers("catalog", "actor", Path, {"SuggestChatQuestions"})

ListingHandlers ==
  Handlers("catalog", "actor", Body, {"CreateListing"})
  \cup Handlers("catalog", "reader", Path, {"GetListing"})
  \cup Handlers("catalog", "actor", Path \cup Query, {"ListListingHistory"})
  \cup Handlers("catalog", "actor", Path \cup Body, {"UpdateListing"})

PublicationHandlers ==
  Handlers("catalog", "actor", Path, {"DeleteListing", "HideListing"})
  \cup Handlers("catalog", "actor", Path \cup Body, {"PublishListing"})

VariantHandlers ==
  Handlers("catalog", "actor", Path \cup Body, {"CreateVariant", "UpdateVariant"})
  \cup Handlers("catalog", "actor", Path, {"DeleteVariant"})

ReaderHandlers ==
  Handlers("catalog", "reader", Body, {"RecordInteractions"})
  \cup Handlers("catalog", "actor", Path, {"AddFavorite", "RemoveFavorite"})
  \cup Handlers("catalog", "nobody", Query, {"ListCategories", "ListTags"})

DictionaryDeskHandlers ==
  Handlers("catalog", "actor", Body, {"AdminCreateCategory", "AdminPutTag"})
  \cup Handlers("catalog", "actor", Path \cup Body, {"AdminUpdateCategory"})
  \cup Handlers("catalog", "actor", Path, {"AdminDeleteCategory"})
  \cup Handlers("catalog", "actor", {}, {"AdminDeleteTag"})

ListingDeskHandlers ==
  Handlers("catalog", "actor", Query, {"AdminListListings"})
  \cup Handlers("catalog", "actor", Path \cup Body,
                {"AdminApproveListing", "AdminTakedownListing"})

CatalogUploads == UploadHandlers("catalog")

ConversationHandlers ==
  UploadHandlers("chat")
  \cup Handlers("chat", "actor", Query, {"ListConversations"})
  \cup Handlers("chat", "actor", Body, {"OpenConversation"})
  \cup Handlers("chat", "actor", {}, {"GetUnreadCount"})
  \cup Handlers("chat", "actor", Path, {"GetConversation"})

MessageHandlers ==
  Handlers("chat", "actor", Path \cup Query, {"ListMessages", "RedactMessage"})
  \cup Handlers("chat", "actor", Path \cup Body, {"SendMessage", "MarkConversationRead"})
  \cup Handlers("chat", "actor", Path \cup Query \cup Body, {"UpdateMessage"})

SessionHandlers ==
  Handlers("finance", "actor", Query, {"ListPaymentSessions", "AdminListPaymentSessions"})
  \cup Handlers("finance", "actor", Path,
                {"GetPaymentSession", "ListTransactions", "CancelPaymentSession"})
  \cup Handlers("finance", "actor", Path \cup Body, {"StartPayment"})

WalletHandlers ==
  Handlers("finance", "actor", {}, {"ListWallets", "GetWallet"})
  \cup Handlers("finance", "actor", Path, {"AdminGetWallets"})
  \cup Handlers("finance", "actor", Query, {"ListWalletTransactions"})
  \cup Handlers("finance", "actor", Path \cup Body, {"AdminAdjustWallet"})

BankHandlers ==
  Handlers("finance", "actor", {}, {"ListBankAccounts"})
  \cup Handlers("finance", "actor", Body, {"CreateBankAccount"})
  \cup Handlers("finance", "actor", Path \cup Body, {"UpdateBankAccount"})
  \cup Handlers("finance", "actor", Path, {"DeleteBankAccount"})

WithdrawalHandlers ==
  Handlers("finance", "actor", Body, {"CreateWithdrawal"})
  \cup Handlers("finance", "actor", Query, {"ListWithdrawals", "AdminListWithdrawals"})
  \cup Handlers("finance", "actor", Path, {"GetWithdrawal", "CancelWithdrawal"})
  \cup Handlers("finance", "actor", Path \cup Body,
                {"AdminApproveWithdrawal", "AdminRejectWithdrawal"})

TaxHandlers ==
  Handlers("finance", "actor", {}, {"GetTaxInfo"})
  \cup Handlers("finance", "actor", Body, {"UpsertTaxInfo"})
  \cup Handlers("finance", "actor", Path \cup Body, {"AdminVerifyTaxInfo"})

CartHandlers ==
  Handlers("order", "actor", {}, {"ListCartItems"})
  \cup Handlers("order", "actor", Body, {"AddCartItem"})
  \cup Handlers("order", "actor", Path \cup Body, {"UpdateCartItem"})
  \cup Handlers("order", "actor", Path, {"DeleteCartItem"})

DraftHandlers ==
  Handlers("order", "actor", Body, {"CreateDraft"})
  \cup Handlers("order", "actor", Query, {"ListDrafts"})
  \cup Handlers("order", "actor", Path, {"GetDraft", "CancelDraft"})
  \cup Handlers("order", "actor", Path \cup Body, {"Checkout"})

ItemHandlers ==
  Handlers("order", "actor", Query, {"ListItems"})
  \cup Handlers("order", "actor", Path, {"CancelItem"})

OfferHandlers ==
  Handlers("order", "actor", Body, {"CreateOffer"})
  \cup Handlers("order", "actor", Query, {"ListOffers"})
  \cup Handlers("order", "actor", Path, {"GetOffer", "CancelOffer"})
  \cup Handlers("order", "actor", Path \cup Body, {"CounterOffer"})

AgreementHandlers ==
  Handlers("order", "actor", Path, {"AcceptOffer"})
  \cup Handlers("order", "actor", Body, {"ShippingQuotes"})
  \cup Handlers("order", "actor", Path \cup Body, {"CheckoutOffer"})

OrderHandlers ==
  Handlers("order", "actor", Query, {"GetOrderSummary", "ListOrders"})
  \cup Handlers("order", "actor", Path,
                {"GetOrder", "GetOrderTransport", "ListOrderHistory"})
  \cup Handlers("order", "actor", Path \cup Body, {"AdvanceShipment"})

ReceiptHandlers ==
  Handlers("order", "actor", Path \cup Body, {"ConfirmReceipt", "CancelOrder"})

RefundHandlers ==
  Handlers("order", "actor", Path \cup Body, {"CreateRefund", "AddRefundAttachments"})
  \cup Handlers("order", "actor", Query, {"ListRefunds"})
  \cup Handlers("order", "actor", Path, {"GetRefund", "WithdrawRefund", "AcceptRefund"})

SellerHandlers ==
  Handlers("order", "actor", Path, {"ConfirmOrder"})
  \cup Handlers("order", "actor", Path \cup Body,
                {"DeclineOrder", "AdvanceReturnShipment", "AdminResolveRefund"})

OrderUploads == UploadHandlers("order")

FeedbackHandlers ==
  Handlers("trust", "actor", Path, {"GetOrderFeedback"})
  \cup Handlers("trust", "actor", Path \cup Body, {"SubmitFeedback"})
  \cup Handlers("trust", "nobody", Path \cup Query, {"ListAccountFeedback"})
  \cup Handlers("trust", "nobody", Path, {"GetReputation"})

ReviewHandlers ==
  Handlers("trust", "reader", Path \cup Query, {"ListReviews"})
  \cup Handlers("trust", "reader", Path, {"GetReviewSummary", "GetReview"})
  \cup Handlers("trust", "actor", Path \cup Body, {"SubmitReview", "UpdateReview"})
  \cup Handlers("trust", "actor", Path, {"DeleteReview"})

ReplyHandlers ==
  UploadHandlers("trust")
  \cup Handlers("trust", "actor", Path \cup Body, {"SubmitReviewReply", "VoteReview"})
  \cup Handlers("trust", "actor", Path, {"DeleteReviewReply", "UnvoteReview"})

TicketHandlers ==
  Handlers("trust", "actor", Body, {"OpenTicket"})
  \cup Handlers("trust", "actor", Query, {"ListMyTickets", "AdminListTickets"})
  \cup Handlers("trust", "actor", Path,
                {"GetTicket", "AdminGetTicket", "AdminClaimTicket"})
  \cup Handlers("trust", "actor", Path \cup Body, {"AdminResolveTicket"})

OptionHandlers ==
  Handlers("options", "actor", Query, {"List", "AdminList"})
  \cup Handlers("options", "actor", Query \cup Body, {"AdminSave"})

TicketRoute == Handlers("ws", "actor", {}, {"CreateTicket"})

AllHandlers ==
  UNION {SignInHandlers, ProfileHandlers, AccountUploads, ContactHandlers,
         DeviceHandlers, NotificationHandlers, FollowHandlers, IdentityHandlers,
         AccountDeskHandlers, IdentityDeskHandlers, FeedHandlers, SuggestionHandlers,
         ListingHandlers, PublicationHandlers, VariantHandlers, ReaderHandlers,
         DictionaryDeskHandlers, ListingDeskHandlers, CatalogUploads,
         ConversationHandlers, MessageHandlers, SessionHandlers, WalletHandlers,
         BankHandlers, WithdrawalHandlers, TaxHandlers, CartHandlers, DraftHandlers,
         ItemHandlers, OfferHandlers, AgreementHandlers, OrderHandlers,
         ReceiptHandlers, RefundHandlers, SellerHandlers, OrderUploads,
         FeedbackHandlers, ReviewHandlers, ReplyHandlers, TicketHandlers,
         OptionHandlers, TicketRoute}

(***************************************************************************)
(* The router: what is registered bare, what under optionalAuth; everything *)
(* else is wrapped in auth.                                                 *)
(***************************************************************************)
AccountWrapper(op) ==
  CASE op \in {"Register", "Login", "LoginOAuth", "RefreshToken",
              "RequestPasswordReset", "ResetPassword", "VerifyEmail",
              "ListFollowers", "ListAdministrativeAreas"} -> "bare"
    [] op = "GetPublicAccount" -> "optional"
    [] OTHER -> "auth"

(* Mutant: a favourite registered beside the public catalogue routes,       *)
(* without a wrapper.                                                       *)
FavouriteBare(op) ==
  CASE op \in {"ListCategories", "ListTags", "AddFavorite"} -> "bare"
    [] op \in {"ListListings", "ListShelves", "GetListing", "RecordInteractions"} -> "optional"
    [] OTHER -> "auth"

CatalogWrapper(op) ==
  CASE op \in {"ListCategories", "ListTags"} -> "bare"
    [] op \in {"ListListings", "ListShelves", "GetListing", "RecordInteractions"} -> "optional"
    [] OTHER -> "auth"

TrustWrapper(op) ==
  CASE op \in {"ListAccountFeedback", "GetReputation"} -> "bare"
    [] op \in {"ListReviews", "GetReviewSummary", "GetReview"} -> "optional"
    [] OTHER -> "auth"

(* Options, tickets, chat, finance and order have no public route.          *)
Wrapper(h) ==
  CASE h.of = "account" -> AccountWrapper(h.op)
    [] h.of = "catalog" -> CatalogWrapper(h.op)
    [] h.of = "trust" -> TrustWrapper(h.op)
    [] OTHER -> "auth"

(* The routes the router mounts under /admin.                               *)
AdminRoutes ==
  {h \in AllHandlers : h \in AccountDeskHandlers \cup IdentityDeskHandlers
                             \cup DictionaryDeskHandlers \cup ListingDeskHandlers
                       \/ h.op \in {"AdminList", "AdminSave", "AdminListWithdrawals",
                                    "AdminApproveWithdrawal", "AdminRejectWithdrawal",
                                    "AdminListPaymentSessions", "AdminGetWallets",
                                    "AdminAdjustWallet", "AdminVerifyTaxInfo",
                                    "AdminResolveRefund", "AdminListTickets",
                                    "AdminGetTicket", "AdminClaimTicket",
                                    "AdminResolveTicket"}}

(***************************************************************************)
(* Roles: each service method reads the caller's role before it acts.       *)
(***************************************************************************)
Staff == {"moderator", "admin"}

AccountRole(op) ==
  CASE op \in {"AdminListAccounts", "AdminSuspendAccount", "AdminLiftSuspension",
               "AdminListIdentityDocuments", "AdminRecordIdentityVerdict"} -> Staff
    [] op \in {"AdminCreateModerator", "AdminRevokeModerator"} -> {"admin"}
    [] OTHER -> {"user"} \cup Staff

CatalogRole(op) ==
  CASE op \in {"AdminListListings", "AdminApproveListing", "AdminTakedownListing"} -> Staff
    [] op \in {"AdminCreateCategory", "AdminUpdateCategory", "AdminDeleteCategory",
               "AdminPutTag", "AdminDeleteTag"} -> {"admin"}
    [] OTHER -> {"user"} \cup Staff

FinanceRole(op) ==
  IF op \in {"AdminListPaymentSessions", "AdminGetWallets", "AdminAdjustWallet",
             "AdminListWithdrawals", "AdminApproveWithdrawal", "AdminRejectWithdrawal",
             "AdminVerifyTaxInfo", "AdminList", "AdminSave"}
  THEN {"admin"} ELSE {"user"} \cup Staff

(* Mutant: the claim of a ticket taken for a read and left unchecked.       *)
TrustRoleUnchecked(op) ==
  IF op \in {"AdminListTickets", "AdminGetTicket", "AdminResolveTicket",
             "AdminResolveRefund"}
  THEN Staff ELSE {"user"} \cup Staff

TrustRole(op) ==
  IF op \in {"AdminListTickets", "AdminGetTicket", "AdminClaimTicket",
             "AdminResolveTicket", "AdminResolveRefund"}
  THEN Staff ELSE {"user"} \cup Staff

RolesFor(h) ==
  AccountRole(h.op) \cap CatalogRole(h.op) \cap FinanceRole(h.op) \cap TrustRole(h.op)

(***************************************************************************)
(* One request through the pipeline.                                        *)
(***************************************************************************)
Credentials == {"none", "malformed", "forged", "mixed", "valid"}

NoRequest == [stage |-> "none"]

Answered(status) ==
  httpRequest' = [httpRequest EXCEPT !.stage = "answered", !.status = status]

(* A request reaches the mux; `bad' are the inputs its handler will reject. *)
Arrive ==
  /\ httpRequest = NoRequest
  /\ \E h \in AllHandlers, c \in Credentials, bad \in {{}, {"path"}, {"query"}, {"body"}} :
       /\ bad \subseteq h.inputs
       /\ httpRequest' = [stage |-> "mux", handler |-> h, cred |-> c, bad |-> bad,
                          caller |-> FALSE, role |-> "user", status |-> 0]
  /\ UNCHANGED <<httpSession, httpRole>>

(* CORS answers a preflight itself and never routes it.                     *)
Preflight ==
  /\ httpRequest.stage = "mux"
  /\ httpRequest.cred = "none"
  /\ Answered(204)
  /\ UNCHANGED <<httpSession, httpRole>>

ToHandler(signedIn) ==
  httpRequest' = [httpRequest EXCEPT !.stage = "handler", !.caller = signedIn]

(* Header, signature, session and subject, in that order; the lookup reads  *)
(* the session store and may itself fail.                                   *)
Auth ==
  \/ /\ httpRequest.cred \in {"none", "malformed", "forged"}
     /\ Answered(401)
  \/ /\ httpRequest.cred \in {"mixed", "valid"}
     /\ \/ ~httpSession /\ Answered(401)
        \/ httpSession /\ httpRequest.cred = "mixed" /\ Answered(401)
        \/ httpSession /\ httpRequest.cred = "valid" /\ ToHandler(TRUE)
        \/ Answered(500)

(* Mutant: a token that does not check out is treated as no token at all.   *)
OptionalAuthFallsBack ==
  IF httpRequest.cred = "valid" /\ httpSession THEN ToHandler(TRUE) ELSE ToHandler(FALSE)

OptionalAuth ==
  IF httpRequest.cred = "none" THEN ToHandler(FALSE) ELSE Auth

Route ==
  /\ httpRequest.stage = "mux"
  /\ CASE Wrapper(httpRequest.handler) = "bare" -> ToHandler(FALSE)
       [] Wrapper(httpRequest.handler) = "optional" -> OptionalAuth
       [] OTHER -> Auth
  /\ UNCHANGED <<httpSession, httpRole>>

(* actor(r), then the path, query and body, then the assembled request.     *)
Handle ==
  /\ httpRequest.stage = "handler"
  /\ IF httpRequest.handler.who = "actor" /\ ~httpRequest.caller THEN Answered(401)
     ELSE IF httpRequest.bad # {} THEN Answered(400)
     ELSE httpRequest' = [httpRequest EXCEPT !.stage = "service"]
  /\ UNCHANGED <<httpSession, httpRole>>

(* What a service checks of its own and answers 401: a password, a code, a  *)
(* token sent in the body, a credential the provider does not vouch for.    *)
SecretChecked ==
  {"Login", "LoginOAuth", "RefreshToken", "ResetPassword", "VerifyEmail",
   "ChangePassword", "VerifyContactPhone"}

(* A listing filter about the caller, and nobody is signed in.              *)
AboutNobody ==
  httpRequest.handler \in FeedHandlers /\ httpRequest.handler.op = "ListListings" /\ ~httpRequest.caller

(* The service reads the caller's role and acts, or refuses for its own     *)
(* reasons; a logout ends the session it was made in.                       *)
Serve ==
  /\ httpRequest.stage = "service"
  /\ \/ /\ RolesFor(httpRequest.handler) # {"user"} \cup Staff
        /\ httpRole \notin RolesFor(httpRequest.handler)
        /\ Answered(403)
        /\ UNCHANGED httpSession
     \/ Answered(422) /\ UNCHANGED httpSession
     \/ /\ httpRequest.handler.op \in SecretChecked \/ AboutNobody
        /\ Answered(401)
        /\ UNCHANGED httpSession
     \/ /\ httpRole \in RolesFor(httpRequest.handler)
        /\ httpRequest' = [httpRequest EXCEPT !.stage = "answered", !.status = 200,
                                              !.role = httpRole]
        /\ httpSession' = (httpSession /\ httpRequest.handler.op # "Logout")
  /\ UNCHANGED httpRole

(* Another request, on any replica, ends the session.                       *)
EndSession ==
  /\ httpSession
  /\ httpSession' = FALSE
  /\ UNCHANGED <<httpRequest, httpRole>>

(* An administrator appoints or revokes the caller meanwhile.               *)
ChangeRole ==
  /\ \/ httpRole = "user" /\ httpRole' = "moderator"
     \/ httpRole = "moderator" /\ httpRole' = "user"
  /\ UNCHANGED <<httpRequest, httpSession>>

(* The response is written and the connection takes its next request.       *)
Finish ==
  /\ httpRequest.stage = "answered"
  /\ httpRequest' = NoRequest
  /\ UNCHANGED <<httpSession, httpRole>>

HttpInit ==
  /\ httpRequest = NoRequest
  /\ httpSession = TRUE
  /\ httpRole \in {"user", "moderator", "admin"}

HttpNext ==
  Arrive \/ Preflight \/ Route \/ Handle \/ Serve \/ Finish
  \/ EndSession \/ ChangeRole

(***************************************************************************)
(* Properties                                                               *)
(***************************************************************************)

(* Types.                                                                   *)
HttpTypeOK ==
  /\ httpSession \in BOOLEAN
  /\ httpRole \in {"user", "moderator", "admin"}
  /\ \/ httpRequest = NoRequest
     \/ /\ httpRequest.stage \in {"mux", "handler", "service", "answered"}
        /\ httpRequest.handler \in AllHandlers
        /\ httpRequest.cred \in Credentials
        /\ httpRequest.status \in {0, 200, 204, 400, 401, 403, 422, 500}

(* A token whose session is still live is answered 401 only where a secret  *)
(* in the request was checked and found wrong, by a service that knew its   *)
(* caller wherever the handler wants one: each handler that needs the       *)
(* caller is behind a wrapper that supplies it, or, in actor's words, "a    *)
(* missing one is a wiring mistake rather than a client error", and no      *)
(* filter about the caller is refused to one who is signed in.              *)
SignedInIsRecognised ==
  httpRequest.stage = "answered" /\ httpRequest.status = 401
    /\ httpRequest.cred = "valid" /\ httpSession
    => /\ httpRequest.handler.op \in SecretChecked
       /\ httpRequest.handler.who = "actor" => httpRequest.caller

(* What a service is asked to do, it is asked by whom the request says: a   *)
(* handler that wants its caller has one, a credential that was refused is  *)
(* never served as an anonymous reader, and no /admin route answers anyone  *)
(* the role column does not list as staff.                                  *)
ServedAsPresented ==
  /\ httpRequest.stage = "service" =>
       /\ httpRequest.handler.who = "actor" => httpRequest.caller
       /\ httpRequest.handler.who = "reader" /\ httpRequest.cred # "none"
            => httpRequest.caller
  /\ httpRequest.stage = "answered" /\ httpRequest.status = 200
       /\ httpRequest.handler \in AdminRoutes => httpRequest.role \in Staff
=============================================================================
