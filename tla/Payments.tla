------------------------------ MODULE Payments ------------------------------
(* One user's payment orders, token wallet and Frendly+ subscription.        *)
(*                                                                           *)
(* An order is paid at the bank and confirmed here by the bank's webhook, by *)
(* a client that tries, or by an Apple purchase; tokens are also spent, for  *)
(* Frendly+ or otherwise.  Every call runs its statements one at a time      *)
(* under READ COMMITTED: a read sees what has committed, a row written stays *)
(* locked, and the writes appear together at the commit.                     *)
EXTENDS Integers, Sequences, FiniteSets

CONSTANTS
    Orders,
    TokenOrders,    \* orders that buy tokens
    PlusOrders,     \* orders that buy a period of Frendly+; a bundle is both
    AppleOrders,    \* purchases verified with Apple, the others are T-Bank's
    NoOrder,
    Pack,           \* tokens of a pack
    Price,          \* tokens a spend costs
    Opening,        \* balance at the start
    Calls,          \* calls in flight at the same time
    MaxTries, MaxAborts     \* bounds: calls of the user, failures

ASSUME PaymentsAssumption ==
    /\ TokenOrders \cup PlusOrders = Orders
    /\ AppleOrders \subseteq Orders
    /\ NoOrder \notin Orders
    /\ Pack \in Nat /\ Price \in Nat /\ Opening \in Nat
    /\ MaxTries \in Nat /\ MaxAborts \in Nat

VARIABLES
    order,      \* PaymentOrder: its status, whether the payment is initialized
    bank,       \* the payment at the provider
    mail,       \* notifications the bank has not seen answered OK
    balance,    \* TokenWallet.balance
    credits,    \* ledger entries of each order
    spends,     \* ledger entries of spends
    periods,    \* UserSubscription rows, oldest first: periods paid for
    extended,   \* how often each order has extended the subscription
    call,       \* the calls in flight
    tries, aborts   \* counted for the bounds only

ledger == <<credits, spends>>
plus == <<periods, extended>>
vars == <<order, bank, mail, balance, ledger, plus, call, tries, aborts>>

Statuses == {"none", "pending", "confirmed", "failed", "expired", "canceled"}
BankStates == {"none", "new", "authorized", "confirmed", "refunded",
               "rejected", "expired", "canceled"}
Kinds == {"none", "init", "webhook", "check", "apple", "subscribe", "spend"}
Statements == {"bank", "store", "fail", "state", "mark", "look", "claim",
               "current", "extend", "credit", "afford", "debit"}
Rows == Orders \cup {"wallet", "plus"}

NoCall == [kind |-> "none", o |-> NoOrder, said |-> "none", todo |-> <<>>,
           seen |-> <<>>, locks |-> {}]

Init ==
    /\ order = [o \in Orders |-> [status |-> "none", known |-> FALSE]]
    /\ bank = [o \in Orders |-> IF o \in AppleOrders THEN "confirmed" ELSE "none"]
    /\ mail = {}
    /\ balance = Opening
    /\ credits = [o \in Orders |-> 0]
    /\ spends = 0
    /\ periods \in {<<>>, <<1>>}
    /\ extended = [o \in Orders |-> 0]
    /\ call = [c \in Calls |-> NoCall]
    /\ tries = 0
    /\ aborts = 0

-----------------------------------------------------------------------------
(* What a call still has to do.                                              *)
ConfirmTodo(o) ==
    <<"look", "claim">>
    \o (IF o \in PlusOrders THEN <<"current", "extend">> ELSE <<>>)
    \o (IF o \in TokenOrders THEN <<"credit">> ELSE <<>>)

\* Slip: every notification only stores its status.
MarkTodo(o, said) == <<"mark">>
WebhookTodo(o, said) == IF said = "confirmed" THEN ConfirmTodo(o) ELSE <<"mark">>

SpendTodo(kind) ==
    <<"afford", "debit">>
    \o (IF kind = "subscribe" THEN <<"current", "extend">> ELSE <<>>)

(* mapTbankStatus                                                            *)
MapStatus(said) ==
    CASE said \in {"expired", "canceled", "confirmed"} -> said
      [] said \in {"rejected", "refunded"} -> "failed"
      [] OTHER -> "pending"

Start(c, kind, o, said, todo) ==
    /\ call[c] = NoCall
    /\ call' = [call EXCEPT ![c] = [kind |-> kind, o |-> o, said |-> said, todo |-> todo,
                                    seen |-> <<>>, locks |-> {}]]
    /\ UNCHANGED <<mail, balance, ledger, plus, aborts>>

UserCalls ==
    /\ tries < MaxTries
    /\ tries' = tries + 1

InitPayment(c, o) ==
    /\ o \notin AppleOrders
    /\ order[o].status = "none"
    /\ Start(c, "init", o, "none", <<"bank">>)
    /\ order' = [order EXCEPT ![o].status = "pending"]
    /\ UNCHANGED <<bank, tries>>

HandleTbankWebhook(c, o, said) ==
    /\ <<o, said>> \in mail
    /\ Start(c, "webhook", o, said, WebhookTodo(o, said))
    /\ UNCHANGED <<order, bank, tries>>

CheckPayment(c, o) ==
    /\ o \notin AppleOrders
    /\ order[o].status \notin {"none", "confirmed"}
    /\ order[o].known
    /\ UserCalls
    /\ Start(c, "check", o, "none", <<"state">>)
    /\ UNCHANGED <<order, bank>>

(* A repeated purchase finds the order of its transaction.                   *)
ConfirmApplePurchase(c, o) ==
    /\ o \in AppleOrders
    /\ order[o].status # "confirmed"
    /\ UserCalls
    /\ Start(c, "apple", o, "none", ConfirmTodo(o))
    /\ order' = [order EXCEPT ![o] =
         IF @.status = "none" THEN [status |-> "pending", known |-> TRUE] ELSE @]
    /\ UNCHANGED bank

Spend(c, kind) ==
    /\ UserCalls
    /\ Start(c, kind, NoOrder, "none", SpendTodo(kind))
    /\ UNCHANGED <<order, bank>>

Begin(c) ==
    \/ \E o \in Orders :
         \/ InitPayment(c, o)
         \/ CheckPayment(c, o)
         \/ ConfirmApplePurchase(c, o)
         \/ \E said \in BankStates : HandleTbankWebhook(c, o, said)
    \/ \E kind \in {"subscribe", "spend"} : Spend(c, kind)

-----------------------------------------------------------------------------
(* The statements.                                                           *)
At(c, statement) == call[c].todo # <<>> /\ Head(call[c].todo) = statement

(* The row the next statement of a call has to lock.                         *)
Wants(c) ==
    IF At(c, "claim") \/ At(c, "mark") \/ At(c, "store") \/ At(c, "fail")
    THEN {call[c].o}
    ELSE IF At(c, "credit") \/ At(c, "debit") THEN {"wallet"}
    ELSE IF At(c, "extend") /\ call[c].seen # <<>> THEN {"plus"}
    ELSE {}

MayLock(c) == \A d \in Calls \ {c} : Wants(c) \cap call[d].locks = {}

(* The call is over; an answer OK that reaches the bank ends its retries.    *)
Answer(c) ==
    /\ call' = [call EXCEPT ![c] = NoCall]
    /\ \/ mail' = mail
       \/ /\ call[c].kind = "webhook"
          /\ mail' = mail \ {<<call[c].o, call[c].said>>}

(* The call ends in an error, its transaction is rolled back.                *)
Throw(c) ==
    /\ call' = [call EXCEPT ![c] = NoCall]
    /\ UNCHANGED mail

Proceed(c) ==
    /\ call' = [call EXCEPT ![c].todo = Tail(@), ![c].locks = @ \cup Wants(c)]
    /\ UNCHANGED mail

Silent == UNCHANGED <<order, bank, balance, ledger, plus, tries, aborts>>

(* The bank answers, answers with an error, or does not answer in time.      *)
BankInit(c) ==
    /\ At(c, "bank")
    /\ LET o == call[c].o IN
       \/ /\ bank' = [bank EXCEPT ![o] = "new"]
          /\ \E next \in {"store", "fail"} : call' = [call EXCEPT ![c].todo = <<next>>]
       \/ /\ call' = [call EXCEPT ![c].todo = <<"fail">>]
          /\ UNCHANGED bank
    /\ UNCHANGED <<order, mail, balance, ledger, plus, tries, aborts>>

SetOrder(c, row) ==
    /\ MayLock(c)
    /\ order' = [order EXCEPT ![call[c].o] = row]
    /\ Answer(c)
    /\ UNCHANGED <<bank, balance, ledger, plus, tries, aborts>>

Store(c) ==
    At(c, "store") /\ SetOrder(c, [order[call[c].o] EXCEPT !.known = TRUE])

Fail(c) ==
    At(c, "fail") /\ SetOrder(c, [order[call[c].o] EXCEPT !.status = "failed"])

(* markPaymentStatus: by order id, whatever the status is by now.            *)
Mark(c) ==
    /\ At(c, "mark")
    /\ SetOrder(c, [order[call[c].o] EXCEPT !.status = MapStatus(call[c].said)])

\* Slip: an authorized payment counts as paid.
AuthorizedIsPaid(said) == said \in {"authorized", "confirmed"}
IsPaid(said) == said = "confirmed"

(* GetState of checkPayment.                                                 *)
GetState(c) ==
    /\ At(c, "state")
    /\ LET said == bank[call[c].o] IN
       IF IsPaid(said)
       THEN /\ call' = [call EXCEPT ![c].todo = ConfirmTodo(call[c].o)]
            /\ UNCHANGED mail
       ELSE IF MapStatus(said) # "pending"
       THEN /\ call' = [call EXCEPT ![c].said = said, ![c].todo = <<"mark">>]
            /\ UNCHANGED mail
       ELSE Answer(c)
    /\ Silent

(* confirmPaymentOrder reads the order without locking it.                   *)
Look(c) ==
    /\ At(c, "look")
    /\ IF order[call[c].o].status = "confirmed" THEN Answer(c) ELSE Proceed(c)
    /\ Silent

Claim(c) == At(c, "claim") /\ MayLock(c) /\ Proceed(c) /\ Silent

(* activatePaidSubscription                                                  *)
Current(c) ==
    /\ At(c, "current")
    /\ call' = [call EXCEPT ![c].todo = Tail(@), ![c].seen = periods]
    /\ UNCHANGED mail
    /\ Silent

Extend(c) == At(c, "extend") /\ MayLock(c) /\ Proceed(c) /\ Silent

\* Slip: the ledger takes a second entry of an order.
CreditAgain(c) == At(c, "credit") /\ MayLock(c) /\ Proceed(c) /\ Silent

(* creditPurchasedTokens: one ledger entry per order.                        *)
Credit(c) ==
    /\ At(c, "credit")
    /\ MayLock(c)
    /\ IF credits[call[c].o] > 0 THEN Throw(c) ELSE Proceed(c)
    /\ Silent

(* spendTokens                                                               *)
Afford(c) ==
    /\ At(c, "afford")
    /\ IF balance < Price THEN Throw(c) ELSE Proceed(c)
    /\ Silent

\* Slip: the decrement does not compare the balance again.
DebitOnRead(c) == At(c, "debit") /\ MayLock(c) /\ Proceed(c) /\ Silent

Debit(c) ==
    /\ At(c, "debit")
    /\ MayLock(c)
    /\ IF balance < Price THEN Throw(c) ELSE Proceed(c)
    /\ Silent

(* The row found is set to the end it was read with and a period more; a new *)
(* row starts now.                                                           *)
Renewed(seen) ==
    IF seen = <<>> THEN Append(periods, 1)
    ELSE [periods EXCEPT ![Len(seen)] = seen[Len(seen)] + 1]

CommitConfirm(c) ==
    /\ call[c].kind \in {"webhook", "check", "apple"}
    /\ LET o == call[c].o IN
       /\ order' = [order EXCEPT ![o] = [status |-> "confirmed", known |-> TRUE]]
       /\ IF o \in PlusOrders
          THEN /\ periods' = Renewed(call[c].seen)
               /\ extended' = [extended EXCEPT ![o] = @ + 1]
          ELSE UNCHANGED plus
       /\ IF o \in TokenOrders
          THEN /\ balance' = balance + Pack
               /\ credits' = [credits EXCEPT ![o] = @ + 1]
          ELSE UNCHANGED <<balance, credits>>
    /\ UNCHANGED spends

CommitSpend(c) ==
    /\ call[c].kind \in {"subscribe", "spend"}
    /\ balance' = balance - Price
    /\ spends' = spends + 1
    /\ periods' = IF call[c].kind = "subscribe" THEN Renewed(call[c].seen) ELSE periods
    /\ UNCHANGED <<order, credits, extended>>

Commit(c) ==
    /\ call[c] # NoCall
    /\ call[c].todo = <<>>
    /\ CommitConfirm(c) \/ CommitSpend(c)
    /\ Answer(c)
    /\ UNCHANGED <<bank, tries, aborts>>

\* Slip: a notification that failed is answered OK.
AbortAnswersOk(c) ==
    /\ call[c] # NoCall
    /\ aborts < MaxAborts
    /\ aborts' = aborts + 1
    /\ call' = [call EXCEPT ![c] = NoCall]
    /\ mail' = mail \ {<<call[c].o, call[c].said>>}
    /\ UNCHANGED <<order, bank, balance, ledger, plus, tries>>

(* The process stops, or the database refuses.                               *)
Abort(c) ==
    /\ call[c] # NoCall
    /\ aborts < MaxAborts
    /\ aborts' = aborts + 1
    /\ Throw(c)
    /\ UNCHANGED <<order, bank, balance, ledger, plus, tries>>

(* Two calls wait for each other; the database rolls one of them back.       *)
DeadlockVictim(c) ==
    /\ \E d \in Calls \ {c} :
         /\ Wants(c) \cap call[d].locks # {}
         /\ Wants(d) \cap call[c].locks # {}
    /\ Throw(c)
    /\ Silent

Step(c) ==
    \/ BankInit(c)
    \/ Store(c)
    \/ Fail(c)
    \/ Mark(c)
    \/ GetState(c)
    \/ Look(c)
    \/ Claim(c)
    \/ Current(c)
    \/ Extend(c)
    \/ Credit(c)
    \/ Afford(c)
    \/ Debit(c)
    \/ Commit(c)

-----------------------------------------------------------------------------
(* The bank.  Whoever has the payment's address can pay it.                  *)
BankMoves(o) ==
    /\ order[o].known
    /\ o \notin AppleOrders
    /\ \E next \in CASE bank[o] = "new" -> {"authorized", "rejected", "expired", "canceled"}
                     [] bank[o] = "authorized" -> {"confirmed", "rejected", "canceled"}
                     [] bank[o] = "confirmed" -> {"refunded"}
                     [] OTHER -> {} :
         /\ bank' = [bank EXCEPT ![o] = next]
         /\ mail' = mail \cup {<<o, next>>}
    /\ UNCHANGED <<order, balance, ledger, plus, call, tries, aborts>>

Next ==
    \/ \E c \in Calls : Begin(c) \/ Step(c) \/ Abort(c) \/ DeadlockVictim(c)
    \/ \E o \in Orders : BankMoves(o)

Spec == Init /\ [][Next]_vars

(* A call in flight goes on, served again when it waits for a row (waiters   *)
(* queue), a deadlock is resolved, and the bank repeats a notification until *)
(* it is answered OK.                                                        *)
Fairness ==
    /\ \A c \in Calls : SF_vars(Step(c)) /\ WF_vars(DeadlockVictim(c))
    /\ \A o \in Orders :
         SF_vars(\E c \in Calls : HandleTbankWebhook(c, o, "confirmed"))

LiveSpec == Spec /\ Fairness
-----------------------------------------------------------------------------
InFlight == [kind : Kinds, o : Orders \cup {NoOrder}, said : BankStates,
             todo : Seq(Statements), seen : Seq(Nat), locks : SUBSET Rows]

(* Every variable holds values of its columns.                               *)
TypeOK ==
    /\ order \in [Orders -> [status : Statuses, known : BOOLEAN]]
    /\ bank \in [Orders -> BankStates]
    /\ mail \subseteq Orders \X BankStates
    /\ balance \in Int
    /\ credits \in [Orders -> Nat]
    /\ spends \in Nat
    /\ periods \in Seq(Nat)
    /\ extended \in [Orders -> Nat]
    /\ call \in [Calls -> InFlight]
    /\ tries \in 0 .. MaxTries
    /\ aborts \in 0 .. MaxAborts

(* However often an order is confirmed, by webhooks, tries or repeated       *)
(* purchases in any order, its tokens are credited once.                     *)
CreditedOnce == \A o \in Orders : credits[o] <= 1

(* Spends that race each other never take the wallet below zero.             *)
NeverOverdrawn == balance >= 0

(* The wallet counts each order once and no spend too many.                 *)
WalletHolds == CreditedOnce /\ NeverOverdrawn

(* An order shown as confirmed has delivered all it sold.                    *)
Fulfilled(o) ==
    /\ o \in TokenOrders => credits[o] > 0
    /\ o \in PlusOrders => extended[o] > 0
ConfirmedIsFulfilled ==
    \A o \in Orders : order[o].status = "confirmed" => Fulfilled(o)

(* Nothing is delivered for a payment the provider has not confirmed.        *)
NothingUnpaid ==
    \A o \in Orders :
        credits[o] + extended[o] > 0 => bank[o] \in {"confirmed", "refunded"}

(* What is delivered and what is paid agree, in both directions.             *)
DeliveredAsPaid == ConfirmedIsFulfilled /\ NothingUnpaid

(* A payment the bank has confirmed delivers in the end, although webhooks   *)
(* fail, are lost, repeated and come out of order.                           *)
PaidIsFulfilled ==
    \A o \in Orders \ AppleOrders : bank[o] = "confirmed" ~> Fulfilled(o)

(* "confirms subscription only once for the same payment order"              *)
(* (payments.service.unit.spec.ts), whatever calls confirm it.               *)
ExtendedOnce == \A o \in Orders : extended[o] <= 1
=============================================================================
