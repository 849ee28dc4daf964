--------------------------- MODULE PaymentsProofs ---------------------------
(* The wallet and what is delivered for payments, for any orders, calls and  *)
(* amounts.                                                                  *)
EXTENDS Payments, SequenceTheorems, TLAPS

-----------------------------------------------------------------------------
(* What is left of a call: every list is a rest of the call's statements.    *)
ConfirmRest(o) ==
    {<<>>} \cup
    (IF o \in PlusOrders /\ o \in TokenOrders
     THEN {<<"look", "claim", "current", "extend", "credit">>,
           <<"claim", "current", "extend", "credit">>,
           <<"current", "extend", "credit">>, <<"extend", "credit">>, <<"credit">>}
     ELSE IF o \in PlusOrders
     THEN {<<"look", "claim", "current", "extend">>, <<"claim", "current", "extend">>,
           <<"current", "extend">>, <<"extend">>}
     ELSE {<<"look", "claim", "credit">>, <<"claim", "credit">>, <<"credit">>})

Undebited(kind) ==
    IF kind = "subscribe"
    THEN {<<"afford", "debit", "current", "extend">>, <<"debit", "current", "extend">>}
    ELSE {<<"afford", "debit">>, <<"debit">>}

Debited(kind) ==
    IF kind = "subscribe" THEN {<<"current", "extend">>, <<"extend">>, <<>>} ELSE {<<>>}

Initing(c) ==
    /\ call[c].kind = "init"
    /\ call[c].o \in Orders \ AppleOrders
    /\ call[c].todo \in {<<"bank">>, <<"store">>, <<"fail">>}

Asking(c) ==
    /\ call[c].kind = "check"
    /\ call[c].o \in Orders \ AppleOrders
    /\ call[c].todo = <<"state">>

Marking(c) ==
    /\ call[c].kind \in {"webhook", "check"}
    /\ call[c].o \in Orders
    /\ call[c].said # "confirmed"
    /\ call[c].todo = <<"mark">>

Confirming(c) ==
    /\ call[c].kind \in {"webhook", "check", "apple"}
    /\ call[c].o \in Orders
    /\ call[c].todo \in ConfirmRest(call[c].o)

Spending(c) ==
    /\ call[c].kind \in {"subscribe", "spend"}
    /\ call[c].todo \in Undebited(call[c].kind) \cup Debited(call[c].kind)

Shape(c) ==
    \/ call[c] = NoCall
    \/ Initing(c)
    \/ Asking(c)
    \/ Marking(c)
    \/ Confirming(c)
    \/ Spending(c)

(* A row is locked by one call at most.                                      *)
Exclusive == \A c, d \in Calls : c # d => call[c].locks \cap call[d].locks = {}

(* A call about to commit tokens holds the wallet since it looked at it.     *)
HoldsWallet(c) ==
    /\ Confirming(c) /\ call[c].o \in TokenOrders /\ call[c].todo = <<>> =>
         "wallet" \in call[c].locks /\ credits[call[c].o] = 0
    /\ Spending(c) /\ call[c].todo \in Debited(call[c].kind) =>
         "wallet" \in call[c].locks /\ balance >= Price

WalletInv ==
    /\ TypeOK
    /\ \A c \in Calls : Shape(c) /\ HoldsWallet(c)
    /\ Exclusive
    /\ WalletHolds

-----------------------------------------------------------------------------
Paid == {"confirmed", "refunded"}

(* Apple's purchases are paid, and the bank knows nothing of them.           *)
AppleIsPaid ==
    \A o \in AppleOrders : bank[o] = "confirmed" /\ \A s \in BankStates : <<o, s>> \notin mail

(* A notification of a confirmation was true, and stays so or is refunded.   *)
MailIsTrue == \A o \in Orders : <<o, "confirmed">> \in mail => bank[o] \in Paid

(* An order the bank has not heard of is not known to have a payment.        *)
Unheard ==
    \A o \in Orders :
        bank[o] = "none" => /\ ~order[o].known
                            /\ \A s \in BankStates : <<o, s>> \notin mail

(* Nothing happens to an order before its payment is initialized ...         *)
Untouched ==
    \A o \in Orders \ AppleOrders :
        order[o].status = "none" => bank[o] = "none" /\ \A c \in Calls : call[c].o # o

(* ... and until the bank answers only the call that initializes it.         *)
InitIsAlone ==
    \A c \in Calls :
        call[c].todo = <<"bank">> =>
            bank[call[c].o] = "none" /\ \A d \in Calls \ {c} : call[d].o # call[c].o

StoredIsHeard == \A c \in Calls : call[c].todo = <<"store">> => bank[call[c].o] # "none"

ConfirmedIsPaid == \A c \in Calls : Confirming(c) => bank[call[c].o] \in Paid

PaidInv ==
    /\ AppleIsPaid
    /\ MailIsTrue
    /\ Unheard
    /\ Untouched
    /\ InitIsAlone
    /\ StoredIsHeard
    /\ ConfirmedIsPaid
    /\ DeliveredAsPaid

-----------------------------------------------------------------------------
(* The lists of statements.                                                  *)
LEMMA TwoAndTwo ==
    ASSUME NEW a, NEW b, NEW c, NEW d
    PROVE  <<a, b>> \o <<c, d>> = <<a, b, c, d>>
<1> DEFINE S == {a, b, c, d}
           s == <<a, b>>
           t == <<c, d>>
<1>1. s \in Seq(S) /\ t \in Seq(S) /\ Len(s) = 2 /\ Len(t) = 2
  OBVIOUS
<1>2. /\ s \o t \in Seq(S)
      /\ Len(s \o t) = 4
      /\ \A i \in 1 .. 4 : (s \o t)[i] = IF i <= 2 THEN s[i] ELSE t[i - 2]
  BY <1>1, ConcatProperties
<1>3. (s \o t)[1] = a /\ (s \o t)[2] = b /\ (s \o t)[3] = c /\ (s \o t)[4] = d
  BY <1>2
<1>4. <<a, b, c, d>> \in Seq(S) /\ Len(<<a, b, c, d>>) = 4
  OBVIOUS
<1>5. \A i \in 1 .. 4 : (s \o t)[i] = <<a, b, c, d>>[i]
  BY <1>3
<1> HIDE DEF s, t
<1>6. s \o t = <<a, b, c, d>>
  BY <1>2, <1>4, <1>5, SeqEqual
<1> QED BY <1>6 DEF s, t

LEMMA TwoAndOne ==
    ASSUME NEW a, NEW b, NEW c
    PROVE  <<a, b>> \o <<c>> = <<a, b, c>>
<1> DEFINE S == {a, b, c}
           s == <<a, b>>
           t == <<c>>
<1>1. s \in Seq(S) /\ t \in Seq(S) /\ Len(s) = 2 /\ Len(t) = 1
  OBVIOUS
<1>2. /\ s \o t \in Seq(S)
      /\ Len(s \o t) = 3
      /\ \A i \in 1 .. 3 : (s \o t)[i] = IF i <= 2 THEN s[i] ELSE t[i - 2]
  BY <1>1, ConcatProperties
<1>3. (s \o t)[1] = a /\ (s \o t)[2] = b /\ (s \o t)[3] = c
  BY <1>2
<1>4. <<a, b, c>> \in Seq(S) /\ Len(<<a, b, c>>) = 3
  OBVIOUS
<1>5. \A i \in 1 .. 3 : (s \o t)[i] = <<a, b, c>>[i]
  BY <1>3
<1> HIDE DEF s, t
<1>6. s \o t = <<a, b, c>>
  BY <1>2, <1>4, <1>5, SeqEqual
<1> QED BY <1>6 DEF s, t

LEMMA FourAndOne ==
    ASSUME NEW a, NEW b, NEW c, NEW d, NEW e
    PROVE  <<a, b, c, d>> \o <<e>> = <<a, b, c, d, e>>
<1> DEFINE S == {a, b, c, d, e}
           s == <<a, b, c, d>>
           t == <<e>>
<1>1. s \in Seq(S) /\ t \in Seq(S) /\ Len(s) = 4 /\ Len(t) = 1
  OBVIOUS
<1>2. /\ s \o t \in Seq(S)
      /\ Len(s \o t) = 5
      /\ \A i \in 1 .. 5 : (s \o t)[i] = IF i <= 4 THEN s[i] ELSE t[i - 4]
  BY <1>1, ConcatProperties
<1>3. (s \o t)[1] = a /\ (s \o t)[2] = b /\ (s \o t)[3] = c /\ (s \o t)[4] = d /\ (s \o t)[5] = e
  BY <1>2
<1>4. <<a, b, c, d, e>> \in Seq(S) /\ Len(<<a, b, c, d, e>>) = 5
  OBVIOUS
<1>5. \A i \in 1 .. 5 : (s \o t)[i] = <<a, b, c, d, e>>[i]
  BY <1>3
<1> HIDE DEF s, t
<1>6. s \o t = <<a, b, c, d, e>>
  BY <1>2, <1>4, <1>5, SeqEqual
<1> QED BY <1>6 DEF s, t

LEMMA ConfirmTodoIsRest ==
    ASSUME NEW o \in Orders
    PROVE  ConfirmTodo(o) \in ConfirmRest(o) /\ ConfirmTodo(o) # <<>>
<1> DEFINE head == <<"look", "claim">>
           extending == <<"look", "claim", "current", "extend">>
<1>1. head \in Seq(Statements) /\ extending \in Seq(Statements)
  BY DEF Statements
<1>2. head \o <<"current", "extend">> = extending
  BY TwoAndTwo
<1>3. head \o <<>> = head /\ extending \o <<>> = extending
  BY <1>1, ConcatEmptySeq
<1>4. head \o <<"credit">> = <<"look", "claim", "credit">>
  BY TwoAndOne
<1>5. extending \o <<"credit">> = <<"look", "claim", "current", "extend", "credit">>
  BY FourAndOne
<1> HIDE DEF head, extending
<1>6. ConfirmTodo(o) =
        (IF o \in PlusOrders THEN extending ELSE head)
        \o (IF o \in TokenOrders THEN <<"credit">> ELSE <<>>)
  BY <1>2, <1>3 DEF ConfirmTodo, head
<1>7. ConfirmTodo(o) =
        IF o \in PlusOrders
        THEN IF o \in TokenOrders THEN <<"look", "claim", "current", "extend", "credit">> ELSE extending
        ELSE <<"look", "claim", "credit">>
  BY <1>3, <1>4, <1>5, <1>6, PaymentsAssumption
<1> QED BY <1>7, PaymentsAssumption DEF ConfirmRest, extending

LEMMA SpendTodoIsRest ==
    ASSUME NEW kind \in {"subscribe", "spend"}
    PROVE  SpendTodo(kind) \in Undebited(kind)
<1>1. <<"afford", "debit">> \o <<"current", "extend">> = <<"afford", "debit", "current", "extend">>
  BY TwoAndTwo
<1>2. <<"afford", "debit">> \o <<>> = <<"afford", "debit">>
  <2>1. <<"afford", "debit">> \in Seq(Statements)
    BY DEF Statements
  <2> QED BY <2>1, ConcatEmptySeq
<1> QED BY <1>1, <1>2 DEF SpendTodo, Undebited

(* What follows the first statement of a rest is a rest.                     *)
LEMMA ConfirmRests ==
    ASSUME NEW o \in Orders, NEW t \in ConfirmRest(o)
    PROVE  /\ t \in Seq(Statements)
           /\ t # <<>> => /\ Tail(t) \in ConfirmRest(o)
                          /\ Head(t) \in {"look", "claim", "current", "extend", "credit"}
                          /\ Head(t) = "credit" => o \in TokenOrders
                          /\ o \in TokenOrders /\ Tail(t) = <<>> => Head(t) = "credit"
<1>1. CASE o \in PlusOrders /\ o \in TokenOrders /\ t # <<>>
  <2>1. CASE t = <<"look", "claim", "current", "extend", "credit">>
    BY <1>1, <2>1 DEF ConfirmRest, Statements
  <2>2. CASE t = <<"claim", "current", "extend", "credit">>
    BY <1>1, <2>2 DEF ConfirmRest, Statements
  <2>3. CASE t = <<"current", "extend", "credit">>
    BY <1>1, <2>3 DEF ConfirmRest, Statements
  <2>4. CASE t = <<"extend", "credit">>
    BY <1>1, <2>4 DEF ConfirmRest, Statements
  <2>5. CASE t = <<"credit">>
    BY <1>1, <2>5 DEF ConfirmRest, Statements
  <2> QED BY <1>1, <2>1, <2>2, <2>3, <2>4, <2>5 DEF ConfirmRest
<1>2. CASE o \in PlusOrders /\ o \notin TokenOrders /\ t # <<>>
  <2>1. CASE t = <<"look", "claim", "current", "extend">>
    BY <1>2, <2>1 DEF ConfirmRest, Statements
  <2>2. CASE t = <<"claim", "current", "extend">>
    BY <1>2, <2>2 DEF ConfirmRest, Statements
  <2>3. CASE t = <<"current", "extend">>
    BY <1>2, <2>3 DEF ConfirmRest, Statements
  <2>4. CASE t = <<"extend">>
    BY <1>2, <2>4 DEF ConfirmRest, Statements
  <2> QED BY <1>2, <2>1, <2>2, <2>3, <2>4 DEF ConfirmRest
<1>3. CASE o \notin PlusOrders /\ t # <<>>
  <2>1. o \in TokenOrders
    BY <1>3, PaymentsAssumption
  <2>2. CASE t = <<"look", "claim", "credit">>
    BY <1>3, <2>1, <2>2 DEF ConfirmRest, Statements
  <2>3. CASE t = <<"claim", "credit">>
    BY <1>3, <2>1, <2>3 DEF ConfirmRest, Statements
  <2>4. CASE t = <<"credit">>
    BY <1>3, <2>1, <2>4 DEF ConfirmRest, Statements
  <2> QED BY <1>3, <2>2, <2>3, <2>4 DEF ConfirmRest
<1>4. CASE t = <<>>
  BY <1>4
<1> QED BY <1>1, <1>2, <1>3, <1>4

LEMMA SpendRests ==
    ASSUME NEW kind \in {"subscribe", "spend"}, NEW t \in Undebited(kind) \cup Debited(kind)
    PROVE  /\ t \in Seq(Statements)
           /\ t = <<>> => t \in Debited(kind)
           /\ t # <<>> => /\ Tail(t) \in Undebited(kind) \cup Debited(kind)
                          /\ Head(t) \in {"afford", "debit", "current", "extend"}
                          /\ Tail(t) \in Debited(kind) => t \in Debited(kind) \/ Head(t) = "debit"
<1>1. CASE kind = "subscribe"
  <2>1. CASE t = <<"afford", "debit", "current", "extend">>
    BY <1>1, <2>1 DEF Undebited, Debited, Statements
  <2>2. CASE t = <<"debit", "current", "extend">>
    BY <1>1, <2>2 DEF Undebited, Debited, Statements
  <2>3. CASE t = <<"current", "extend">>
    BY <1>1, <2>3 DEF Undebited, Debited, Statements
  <2>4. CASE t = <<"extend">>
    BY <1>1, <2>4 DEF Undebited, Debited, Statements
  <2>5. CASE t = <<>>
    BY <1>1, <2>5 DEF Undebited, Debited, Statements
  <2> QED BY <1>1, <2>1, <2>2, <2>3, <2>4, <2>5 DEF Undebited, Debited
<1>2. CASE kind = "spend"
  <2>1. CASE t = <<"afford", "debit">>
    BY <1>2, <2>1 DEF Undebited, Debited, Statements
  <2>2. CASE t = <<"debit">>
    BY <1>2, <2>2 DEF Undebited, Debited, Statements
  <2>3. CASE t = <<>>
    BY <1>2, <2>3 DEF Undebited, Debited, Statements
  <2> QED BY <1>2, <2>1, <2>2, <2>3 DEF Undebited, Debited
<1> QED BY <1>1, <1>2

(* The statement a call is at tells what kind of call it is.                 *)
LEMMA WhereItIs ==
    ASSUME NEW c \in Calls, Shape(c)
    PROVE  /\ At(c, "bank") => Initing(c) /\ call[c].todo = <<"bank">>
           /\ At(c, "store") => Initing(c) /\ call[c].todo = <<"store">>
           /\ At(c, "fail") => Initing(c) /\ call[c].todo = <<"fail">>
           /\ At(c, "state") => Asking(c)
           /\ At(c, "mark") => Marking(c)
           /\ At(c, "look") \/ At(c, "claim") => Confirming(c)
           /\ At(c, "credit") => Confirming(c) /\ call[c].o \in TokenOrders
           /\ At(c, "current") \/ At(c, "extend") => Confirming(c) \/ Spending(c)
           /\ At(c, "afford") \/ At(c, "debit") => Spending(c)
<1>1. CASE call[c] = NoCall
  BY <1>1 DEF At, NoCall
<1>2. CASE Initing(c)
  BY <1>2 DEF At, Initing
<1>3. CASE Asking(c)
  BY <1>3 DEF At, Asking
<1>4. CASE Marking(c)
  BY <1>4 DEF At, Marking
<1>5. CASE Confirming(c)
  BY <1>5, ConfirmRests DEF At, Confirming
<1>6. CASE Spending(c)
  BY <1>6, SpendRests DEF At, Spending
<1> QED BY <1>1, <1>2, <1>3, <1>4, <1>5, <1>6 DEF Shape

-----------------------------------------------------------------------------
(* What the steps do to the calls.                                           *)
OnlyCall(c) == \A d \in Calls \ {c} : call'[d] = call[d]

LEMMA Ended ==
    ASSUME TypeOK, NEW c \in Calls, call' = [call EXCEPT ![c] = NoCall]
    PROVE  /\ call' \in [Calls -> InFlight]
           /\ call'[c] = NoCall
           /\ OnlyCall(c)
<1>1. NoCall \in InFlight
  BY EmptySeq DEF NoCall, InFlight, Kinds, BankStates
<1> QED BY <1>1 DEF TypeOK, OnlyCall

LEMMA Started ==
    ASSUME TypeOK, NEW c \in Calls, NEW kind \in Kinds, NEW o \in Orders \cup {NoOrder},
           NEW said \in BankStates, NEW todo \in Seq(Statements), Start(c, kind, o, said, todo)
    PROVE  /\ call' \in [Calls -> InFlight]
           /\ call'[c] = [kind |-> kind, o |-> o, said |-> said, todo |-> todo,
                          seen |-> <<>>, locks |-> {}]
           /\ OnlyCall(c)
<1> DEFINE new == [kind |-> kind, o |-> o, said |-> said, todo |-> todo,
                   seen |-> <<>>, locks |-> {}]
<1>2. new \in InFlight
  BY EmptySeq DEF InFlight
<1> HIDE DEF new
<1>3. call' = [call EXCEPT ![c] = new]
  BY DEF Start, new
<1>4. call'[c] = new
  BY <1>3 DEF TypeOK
<1> QED BY <1>2, <1>3, <1>4 DEF TypeOK, OnlyCall, new

LEMMA Proceeded ==
    ASSUME TypeOK, NEW c \in Calls, Shape(c), call[c].todo # <<>>, Proceed(c)
    PROVE  /\ call' \in [Calls -> InFlight]
           /\ UNCHANGED <<call[c].kind, call[c].o, call[c].said, call[c].seen>>
           /\ call'[c].todo = Tail(call[c].todo)
           /\ call'[c].locks = call[c].locks \cup Wants(c)
           /\ OnlyCall(c)
<1> DEFINE rest == Tail(call[c].todo)
           held == call[c].locks \cup Wants(c)
<1>1. call \in [Calls -> InFlight] /\ call[c] \in InFlight
  BY DEF TypeOK
<1>2. Wants(c) \subseteq Rows
  <2>1. At(c, "claim") \/ At(c, "mark") \/ At(c, "store") \/ At(c, "fail") => call[c].o \in Orders
    BY WhereItIs DEF Confirming, Marking, Initing
  <2> QED BY <2>1 DEF Wants, Rows
<1>3. rest \in Seq(Statements)
  BY <1>1, HeadTailProperties DEF InFlight
<1>4. held \in SUBSET Rows
  BY <1>1, <1>2 DEF InFlight
<1>5. call' = [call EXCEPT ![c].todo = rest, ![c].locks = held]
  BY <1>1 DEF Proceed, InFlight
<1> HIDE DEF rest, held
<1>6. call' \in [Calls -> InFlight] /\ OnlyCall(c)
  BY <1>1, <1>3, <1>4, <1>5 DEF InFlight, OnlyCall
<1>7. /\ UNCHANGED <<call[c].kind, call[c].o, call[c].said, call[c].seen>>
      /\ call'[c].todo = rest
      /\ call'[c].locks = held
  BY <1>1, <1>5 DEF InFlight
<1> QED BY <1>6, <1>7 DEF rest, held

LEMMA SetTodo ==
    ASSUME TypeOK, NEW c \in Calls, NEW todo \in Seq(Statements),
           call' = [call EXCEPT ![c].todo = todo]
    PROVE  /\ call' \in [Calls -> InFlight]
           /\ UNCHANGED <<call[c].kind, call[c].o, call[c].said, call[c].seen, call[c].locks>>
           /\ call'[c].todo = todo
           /\ OnlyCall(c)
<1>1. call \in [Calls -> InFlight]
  BY DEF TypeOK
<1> QED BY <1>1 DEF InFlight, OnlyCall

LEMMA SetSeen ==
    ASSUME TypeOK, NEW c \in Calls, NEW todo \in Seq(Statements), NEW found \in Seq(Nat),
           call' = [call EXCEPT ![c].todo = todo, ![c].seen = found]
    PROVE  /\ call' \in [Calls -> InFlight]
           /\ UNCHANGED <<call[c].kind, call[c].o, call[c].said, call[c].locks>>
           /\ call'[c].todo = todo
           /\ OnlyCall(c)
<1>1. call \in [Calls -> InFlight]
  BY DEF TypeOK
<1>2. call' \in [Calls -> InFlight]
  BY <1>1 DEF InFlight
<1> QED BY <1>1, <1>2 DEF InFlight, OnlyCall

LEMMA Looked ==
    ASSUME TypeOK, NEW c \in Calls, call[c].todo # <<>>,
           call' = [call EXCEPT ![c].todo = Tail(@), ![c].seen = periods]
    PROVE  /\ call' \in [Calls -> InFlight]
           /\ UNCHANGED <<call[c].kind, call[c].o, call[c].said, call[c].locks>>
           /\ call'[c].todo = Tail(call[c].todo)
           /\ OnlyCall(c)
<1>1. call \in [Calls -> InFlight] /\ call[c] \in InFlight /\ periods \in Seq(Nat)
  BY DEF TypeOK
<1>2. Tail(call[c].todo) \in Seq(Statements)
  BY <1>1, HeadTailProperties DEF InFlight
<1>3. call' = [call EXCEPT ![c].todo = Tail(call[c].todo), ![c].seen = periods]
  BY <1>1 DEF InFlight
<1> QED BY <1>1, <1>2, <1>3, SetSeen

LEMMA RenewedTyped ==
    ASSUME periods \in Seq(Nat), NEW seen \in Seq(Nat)
    PROVE  Renewed(seen) \in Seq(Nat)
<1>1. CASE seen = <<>>
  BY <1>1, AppendProperties DEF Renewed
<1>2. CASE seen # <<>>
  <2> DEFINE n == Len(seen)
  <2>1. n \in 1 .. Len(seen)
    BY <1>2, EmptySeq
  <2>2. seen[n] + 1 \in Nat
    BY <2>1, ElementOfSeq
  <2>3. CASE n \in 1 .. Len(periods)
    BY <1>2, <2>2, <2>3, ExceptSeq DEF Renewed
  <2>4. CASE n \notin 1 .. Len(periods)
    <3>1. DOMAIN periods = 1 .. Len(periods)
      BY LenProperties
    <3>2. [periods EXCEPT ![n] = seen[n] + 1] = periods
      BY <2>4, <3>1
    <3> QED BY <1>2, <3>2 DEF Renewed
  <2> QED BY <2>3, <2>4
<1> QED BY <1>1, <1>2

-----------------------------------------------------------------------------
(* The wallet.                                                               *)
LEMMA OwnKept ==
    ASSUME NEW d \in Calls, UNCHANGED <<call[d], credits, balance>>, Shape(d), HoldsWallet(d)
    PROVE  Shape(d)' /\ HoldsWallet(d)'
BY DEF Shape, HoldsWallet, Initing, Asking, Marking, Confirming, Spending

LEMMA LocksKept ==
    ASSUME Exclusive, NEW c \in Calls, OnlyCall(c), call'[c].locks \subseteq call[c].locks
    PROVE  Exclusive'
BY DEF Exclusive, OnlyCall

LEMMA LocksTaken ==
    ASSUME Exclusive, NEW c \in Calls, OnlyCall(c), MayLock(c),
           call'[c].locks = call[c].locks \cup Wants(c)
    PROVE  Exclusive'
BY DEF Exclusive, OnlyCall, MayLock

(* A step of one call that leaves the wallet alone.                          *)
LEMMA Aside ==
    ASSUME WalletInv, NEW c \in Calls, OnlyCall(c), Shape(c)', HoldsWallet(c)',
           Exclusive', TypeOK', UNCHANGED <<balance, credits>>
    PROVE  WalletInv'
<1>1. \A d \in Calls : Shape(d)' /\ HoldsWallet(d)'
  BY OwnKept DEF WalletInv, OnlyCall
<1>2. WalletHolds'
  BY DEF WalletInv, WalletHolds, CreditedOnce, NeverOverdrawn
<1> QED BY <1>1, <1>2 DEF WalletInv

(* A call that is over.                                                      *)
LEMMA AsideEnd ==
    ASSUME WalletInv, NEW c \in Calls, call' = [call EXCEPT ![c] = NoCall],
           TypeOK', UNCHANGED <<balance, credits>>
    PROVE  WalletInv'
<1>1. call'[c] = NoCall /\ OnlyCall(c)
  BY Ended DEF WalletInv
<1>2. Shape(c)' /\ HoldsWallet(c)'
  BY <1>1 DEF Shape, HoldsWallet, Confirming, Spending, NoCall
<1>3. Exclusive'
  BY <1>1, LocksKept DEF NoCall, WalletInv
<1> QED BY <1>1, <1>2, <1>3, Aside

LEMMA AsideStart ==
    ASSUME WalletInv, NEW c \in Calls, OnlyCall(c), TypeOK', UNCHANGED <<balance, credits>>,
           call'[c].locks = {}, call'[c].todo # <<>>,
           Initing(c)' \/ Asking(c)' \/ Marking(c)' \/ Confirming(c)' \/
             (Spending(c)' /\ call'[c].todo \in Undebited(call'[c].kind))
    PROVE  WalletInv'
<1>1. Shape(c)'
  BY DEF Shape
<1>2. HoldsWallet(c)'
  <2>1. ~(Spending(c)' /\ call'[c].todo \in Debited(call'[c].kind))
    BY DEF Initing, Asking, Marking, Confirming, Spending, Undebited, Debited
  <2> QED BY <2>1 DEF HoldsWallet
<1>3. Exclusive'
  BY LocksKept DEF WalletInv
<1> QED BY <1>1, <1>2, <1>3, Aside

(* A statement that leaves the wallet alone for now.                         *)
LEMMA AsideProceed ==
    ASSUME WalletInv, NEW c \in Calls, call[c].todo # <<>>, TypeOK',
           UNCHANGED <<balance, credits>>, Confirming(c) \/ Spending(c),
           UNCHANGED <<call[c].kind, call[c].o>>, call'[c].todo = Tail(call[c].todo),
           call[c].locks \subseteq call'[c].locks, OnlyCall(c), Exclusive',
           At(c, "credit") => "wallet" \in call'[c].locks /\ credits[call[c].o] = 0,
           At(c, "debit") => "wallet" \in call'[c].locks /\ balance >= Price
    PROVE  WalletInv'
<1>1. CASE Confirming(c)
  <2>1. Confirming(c)'
    BY <1>1, ConfirmRests DEF Confirming
  <2>2. call[c].o \in TokenOrders /\ call'[c].todo = <<>> => At(c, "credit")
    BY <1>1, ConfirmRests DEF Confirming, At
  <2>3. ~Spending(c)'
    BY <2>1 DEF Confirming, Spending
  <2>4. Shape(c)' /\ HoldsWallet(c)'
    BY <2>1, <2>2, <2>3 DEF Shape, HoldsWallet
  <2> QED BY <2>4, Aside
<1>2. CASE Spending(c)
  <2>1. Spending(c)'
    BY <1>2, SpendRests DEF Spending
  <2>2. call'[c].todo \in Debited(call[c].kind) =>
          call[c].todo \in Debited(call[c].kind) \/ At(c, "debit")
    BY <1>2, SpendRests DEF Spending, At
  <2>3. ~Confirming(c)'
    BY <2>1 DEF Confirming, Spending
  <2>4. HoldsWallet(c)
    BY DEF WalletInv
  <2>5. Shape(c)' /\ HoldsWallet(c)'
    BY <1>2, <2>1, <2>2, <2>3, <2>4 DEF Shape, HoldsWallet
  <2> QED BY <2>5, Aside
<1> QED BY <1>1, <1>2

LEMMA WalletInit == Init => WalletInv
<1> SUFFICES ASSUME Init PROVE WalletInv
  OBVIOUS
<1> USE PaymentsAssumption DEF Init
<1>1. call \in [Calls -> InFlight] /\ \A c \in Calls : call[c] = NoCall
  BY EmptySeq DEF NoCall, InFlight, Kinds, BankStates
<1>2. order \in [Orders -> [status : Statuses, known : BOOLEAN]]
  BY DEF Statuses
<1>3. bank \in [Orders -> BankStates] /\ mail \subseteq Orders \X BankStates
  BY DEF BankStates
<1>4. periods \in Seq(Nat)
  <2>1. <<1>> \in Seq(Nat) /\ <<>> \in Seq(Nat)
    BY EmptySeq
  <2> QED BY <2>1
<1>5. TypeOK
  BY <1>1, <1>2, <1>3, <1>4 DEF TypeOK
<1>6. \A c \in Calls : Shape(c) /\ HoldsWallet(c)
  BY <1>1 DEF Shape, HoldsWallet, Confirming, Spending, NoCall
<1>7. Exclusive
  BY <1>1 DEF Exclusive, NoCall
<1>8. WalletHolds
  BY DEF WalletHolds, CreditedOnce, NeverOverdrawn
<1> QED BY <1>5, <1>6, <1>7, <1>8 DEF WalletInv

(* What a call begins with.                                                  *)
LEMMA BeginKeepsWallet ==
    ASSUME WalletInv, NEW c \in Calls, Begin(c)
    PROVE  WalletInv'
<1> USE PaymentsAssumption
<1>0. TypeOK /\ mail \subseteq Orders \X BankStates
  BY DEF WalletInv, TypeOK
<1>1. ASSUME NEW o \in Orders, InitPayment(c, o) PROVE WalletInv'
  <2>1. /\ call' \in [Calls -> InFlight]
        /\ call'[c] = [kind |-> "init", o |-> o, said |-> "none", todo |-> <<"bank">>,
                       seen |-> <<>>, locks |-> {}]
        /\ OnlyCall(c)
    <3>1. <<"bank">> \in Seq(Statements) /\ "init" \in Kinds /\ "none" \in BankStates
      BY DEF Statements, Kinds, BankStates
    <3> QED BY <1>0, <1>1, <3>1, Started DEF InitPayment
  <2>2. TypeOK'
    BY <1>0, <1>1, <2>1 DEF InitPayment, Start, TypeOK, Statuses, ledger, plus
  <2>3. Initing(c)' /\ call'[c].locks = {} /\ call'[c].todo # <<>>
    BY <1>1, <2>1 DEF Initing, InitPayment
  <2> QED BY <1>1, <2>1, <2>2, <2>3, AsideStart DEF InitPayment, Start, ledger
<1>2. ASSUME NEW o \in Orders, CheckPayment(c, o) PROVE WalletInv'
  <2>1. /\ call' \in [Calls -> InFlight]
        /\ call'[c] = [kind |-> "check", o |-> o, said |-> "none", todo |-> <<"state">>,
                       seen |-> <<>>, locks |-> {}]
        /\ OnlyCall(c)
    <3>1. <<"state">> \in Seq(Statements) /\ "check" \in Kinds /\ "none" \in BankStates
      BY DEF Statements, Kinds, BankStates
    <3> QED BY <1>0, <1>2, <3>1, Started DEF CheckPayment
  <2>2. TypeOK'
    BY <1>0, <1>2, <2>1 DEF CheckPayment, Start, TypeOK, UserCalls, ledger, plus
  <2>3. Asking(c)' /\ call'[c].locks = {} /\ call'[c].todo # <<>>
    BY <1>2, <2>1 DEF Asking, CheckPayment
  <2> QED BY <1>2, <2>1, <2>2, <2>3, AsideStart DEF CheckPayment, Start, ledger
<1>3. ASSUME NEW o \in Orders, ConfirmApplePurchase(c, o) PROVE WalletInv'
  <2>0. ConfirmTodo(o) \in ConfirmRest(o) /\ ConfirmTodo(o) # <<>>
        /\ ConfirmTodo(o) \in Seq(Statements)
    BY ConfirmTodoIsRest, ConfirmRests
  <2>1. /\ call' \in [Calls -> InFlight]
        /\ call'[c] = [kind |-> "apple", o |-> o, said |-> "none", todo |-> ConfirmTodo(o),
                       seen |-> <<>>, locks |-> {}]
        /\ OnlyCall(c)
    <3>1. "apple" \in Kinds /\ "none" \in BankStates
      BY DEF Kinds, BankStates
    <3> QED BY <1>0, <1>3, <2>0, <3>1, Started DEF ConfirmApplePurchase
  <2>2. TypeOK'
    BY <1>0, <1>3, <2>1 DEF ConfirmApplePurchase, Start, TypeOK, Statuses, UserCalls, ledger, plus
  <2>3. Confirming(c)' /\ call'[c].locks = {} /\ call'[c].todo # <<>>
    BY <1>3, <2>0, <2>1 DEF Confirming
  <2> QED BY <1>3, <2>1, <2>2, <2>3, AsideStart DEF ConfirmApplePurchase, Start, ledger
<1>4. ASSUME NEW o \in Orders, NEW said \in BankStates, HandleTbankWebhook(c, o, said)
      PROVE  WalletInv'
  <2>0. /\ WebhookTodo(o, said) # <<>>
        /\ WebhookTodo(o, said) \in Seq(Statements)
        /\ \/ WebhookTodo(o, said) \in ConfirmRest(o)
           \/ WebhookTodo(o, said) = <<"mark">> /\ said # "confirmed"
    <3>1. <<"mark">> \in Seq(Statements)
      BY DEF Statements
    <3> QED BY <3>1, ConfirmTodoIsRest, ConfirmRests DEF WebhookTodo
  <2>1. /\ call' \in [Calls -> InFlight]
        /\ call'[c] = [kind |-> "webhook", o |-> o, said |-> said, todo |-> WebhookTodo(o, said),
                       seen |-> <<>>, locks |-> {}]
        /\ OnlyCall(c)
    <3>1. "webhook" \in Kinds
      BY DEF Kinds
    <3> QED BY <1>0, <1>4, <2>0, <3>1, Started DEF HandleTbankWebhook
  <2>2. TypeOK'
    BY <1>0, <1>4, <2>1 DEF HandleTbankWebhook, Start, TypeOK, ledger, plus
  <2>3. Confirming(c)' \/ Marking(c)'
    BY <2>0, <2>1 DEF Confirming, Marking
  <2>4. call'[c].locks = {} /\ call'[c].todo # <<>>
    BY <2>0, <2>1
  <2> QED BY <1>4, <2>1, <2>2, <2>3, <2>4, AsideStart DEF HandleTbankWebhook, Start, ledger
<1>5. ASSUME NEW kind \in {"subscribe", "spend"}, Spend(c, kind) PROVE WalletInv'
  <2>0. SpendTodo(kind) \in Undebited(kind) /\ SpendTodo(kind) # <<>>
        /\ SpendTodo(kind) \in Seq(Statements)
    <3>1. SpendTodo(kind) \in Undebited(kind) /\ SpendTodo(kind) \in Seq(Statements)
      BY SpendTodoIsRest, SpendRests
    <3>2. \A t \in Undebited(kind) : t # <<>>
      BY DEF Undebited
    <3> QED BY <3>1, <3>2
  <2>1. /\ call' \in [Calls -> InFlight]
        /\ call'[c] = [kind |-> kind, o |-> NoOrder, said |-> "none", todo |-> SpendTodo(kind),
                       seen |-> <<>>, locks |-> {}]
        /\ OnlyCall(c)
    <3>1. kind \in Kinds /\ "none" \in BankStates
      BY DEF Kinds, BankStates
    <3> QED BY <1>0, <1>5, <2>0, <3>1, Started DEF Spend
  <2>2. TypeOK'
    BY <1>0, <1>5, <2>1 DEF Spend, Start, TypeOK, UserCalls, ledger, plus
  <2>3. Spending(c)' /\ call'[c].todo \in Undebited(call'[c].kind)
    BY <2>0, <2>1 DEF Spending
  <2>4. call'[c].locks = {} /\ call'[c].todo # <<>>
    BY <2>0, <2>1
  <2> QED BY <1>5, <2>1, <2>2, <2>3, <2>4, AsideStart DEF Spend, Start, ledger
<1> QED BY <1>1, <1>2, <1>3, <1>4, <1>5 DEF Begin

(* The columns a statement leaves alone, and the calls it may change.        *)
LEMMA TypedAside ==
    ASSUME TypeOK, call' \in [Calls -> InFlight],
           UNCHANGED <<balance, ledger, plus, tries, aborts>>,
           order' \in [Orders -> [status : Statuses, known : BOOLEAN]],
           bank' \in [Orders -> BankStates], mail' \subseteq mail
    PROVE  TypeOK'
BY DEF TypeOK, ledger, plus

LEMMA TypedOver ==
    ASSUME TypeOK, NEW c \in Calls, call' = [call EXCEPT ![c] = NoCall],
           UNCHANGED <<balance, ledger, plus, tries, bank>>, aborts' \in 0 .. MaxAborts,
           order' \in [Orders -> [status : Statuses, known : BOOLEAN]], mail' \subseteq mail
    PROVE  TypeOK'
<1>1. call' \in [Calls -> InFlight]
  BY Ended
<1> QED BY <1>1 DEF TypeOK, ledger, plus

LEMMA SetOrderKeepsWallet ==
    ASSUME WalletInv, NEW c \in Calls, call[c].o \in Orders,
           NEW row \in [status : Statuses, known : BOOLEAN], SetOrder(c, row)
    PROVE  WalletInv'
<1>1. TypeOK
  BY DEF WalletInv
<1>2. order' \in [Orders -> [status : Statuses, known : BOOLEAN]]
  BY <1>1 DEF SetOrder, TypeOK
<1>3. TypeOK'
  BY <1>1, <1>2, TypedOver DEF SetOrder, Answer, TypeOK
<1> QED BY <1>3, AsideEnd DEF SetOrder, Answer, ledger

LEMMA AnswerKeepsWallet ==
    ASSUME WalletInv, NEW c \in Calls, Answer(c) \/ Throw(c), Silent
    PROVE  WalletInv'
<1>1. TypeOK
  BY DEF WalletInv
<1>2. TypeOK'
  BY <1>1, TypedOver DEF Answer, Throw, Silent, TypeOK
<1> QED BY <1>2, AsideEnd DEF Answer, Throw, Silent, ledger

LEMMA ProceedKeepsWallet ==
    ASSUME WalletInv, NEW c \in Calls, call[c].todo # <<>>, Proceed(c), Silent,
           Confirming(c) \/ Spending(c), Wants(c) # {} => MayLock(c),
           At(c, "credit") => credits[call[c].o] <= 0,
           At(c, "debit") => balance >= Price
    PROVE  WalletInv'
<1>1. TypeOK /\ Shape(c) /\ Exclusive
  BY DEF WalletInv
<1>2. /\ call' \in [Calls -> InFlight]
      /\ UNCHANGED <<call[c].kind, call[c].o, call[c].said, call[c].seen>>
      /\ call'[c].todo = Tail(call[c].todo)
      /\ call'[c].locks = call[c].locks \cup Wants(c)
      /\ OnlyCall(c)
  BY <1>1, Proceeded
<1>3. TypeOK'
  BY <1>1, <1>2, TypedAside DEF Silent, Proceed, TypeOK
<1>4. Exclusive'
  <2>1. CASE Wants(c) = {}
    BY <1>1, <1>2, <2>1, LocksKept
  <2>2. CASE MayLock(c)
    BY <1>1, <1>2, <2>2, LocksTaken
  <2> QED BY <2>1, <2>2
<1>5. At(c, "credit") => credits[call[c].o] = 0
  <2>1. At(c, "credit") => call[c].o \in Orders
    BY <1>1, WhereItIs DEF Confirming
  <2> QED BY <1>1, <2>1 DEF TypeOK
<1>6. At(c, "credit") \/ At(c, "debit") => "wallet" \in call'[c].locks
  BY <1>2 DEF Wants, At
<1> QED BY <1>2, <1>3, <1>4, <1>5, <1>6, AsideProceed DEF Silent, ledger

OrderRows == [status : Statuses, known : BOOLEAN]

LEMMA RowKnown == ASSUME NEW row \in OrderRows PROVE [row EXCEPT !.known = TRUE] \in OrderRows
BY Zenon DEF OrderRows

LEMMA RowStatus ==
    ASSUME NEW row \in OrderRows, NEW status \in Statuses
    PROVE  [row EXCEPT !.status = status] \in OrderRows
BY Zenon DEF OrderRows

(* The statements.                                                           *)
LEMMA StepKeepsWallet ==
    ASSUME WalletInv, NEW c \in Calls, Step(c)
    PROVE  WalletInv'
<1> USE PaymentsAssumption
<1>0. /\ TypeOK /\ Shape(c) /\ HoldsWallet(c) /\ Exclusive
      /\ call[c] \in InFlight
      /\ call[c].todo \in Seq(Statements) /\ call[c].said \in BankStates
  BY DEF WalletInv, TypeOK, InFlight
<1>1. CASE BankInit(c)
  <2>1. Initing(c) /\ call[c].todo = <<"bank">>
    BY <1>0, <1>1, WhereItIs DEF BankInit
  <2>2. PICK next \in {"store", "fail"} : call' = [call EXCEPT ![c].todo = <<next>>]
    BY <1>1 DEF BankInit
  <2>3. /\ call' \in [Calls -> InFlight]
        /\ UNCHANGED <<call[c].kind, call[c].o, call[c].seen, call[c].locks, call[c].said>>
        /\ call'[c].todo = <<next>>
        /\ OnlyCall(c)
    <3>1. <<next>> \in Seq(Statements)
      BY DEF Statements
    <3> QED BY <1>0, <2>2, <3>1, SetTodo
  <2>4. bank' \in [Orders -> BankStates]
    BY <1>0, <1>1 DEF BankInit, TypeOK, BankStates
  <2>5. TypeOK'
    BY <1>0, <1>1, <2>3, <2>4, TypedAside DEF BankInit, TypeOK
  <2>6. Initing(c)' /\ Shape(c)' /\ HoldsWallet(c)'
    BY <2>1, <2>3 DEF Initing, Shape, HoldsWallet, Confirming, Spending
  <2>7. Exclusive'
    BY <1>0, <2>3, LocksKept
  <2> QED BY <1>1, <2>3, <2>5, <2>6, <2>7, Aside DEF BankInit, ledger
<1>2. CASE Store(c)
  <2>1. call[c].o \in Orders
    BY <1>0, <1>2, WhereItIs DEF Store, Initing
  <2>2. order[call[c].o] \in OrderRows
    BY <1>0, <2>1 DEF TypeOK, OrderRows
  <2>3. [order[call[c].o] EXCEPT !.known = TRUE] \in OrderRows
    BY <2>2, RowKnown
  <2> QED BY <1>2, <2>1, <2>3, SetOrderKeepsWallet DEF Store, OrderRows
<1>3. CASE Fail(c)
  <2>1. call[c].o \in Orders
    BY <1>0, <1>3, WhereItIs DEF Fail, Initing
  <2>2. order[call[c].o] \in OrderRows /\ "failed" \in Statuses
    BY <1>0, <2>1 DEF TypeOK, OrderRows, Statuses
  <2>3. [order[call[c].o] EXCEPT !.status = "failed"] \in OrderRows
    BY <2>2, RowStatus
  <2> QED BY <1>3, <2>1, <2>3, SetOrderKeepsWallet DEF Fail, OrderRows
<1>4. CASE Mark(c)
  <2>1. call[c].o \in Orders
    BY <1>0, <1>4, WhereItIs DEF Mark, Marking
  <2>2. MapStatus(call[c].said) \in Statuses
    BY DEF MapStatus, Statuses
  <2>4. order[call[c].o] \in OrderRows
    BY <1>0, <2>1 DEF TypeOK, OrderRows
  <2>3. [order[call[c].o] EXCEPT !.status = MapStatus(call[c].said)] \in OrderRows
    BY <2>2, <2>4, RowStatus
  <2> QED BY <1>4, <2>1, <2>3, SetOrderKeepsWallet DEF Mark, OrderRows
<1>5. CASE GetState(c)
  <2> DEFINE o == call[c].o
             said == bank[o]
  <2>1. Asking(c) /\ o \in Orders
    BY <1>0, <1>5, WhereItIs DEF GetState, Asking
  <2>2. said \in BankStates
    BY <1>0, <2>1 DEF TypeOK
  <2>3. CASE IsPaid(said)
    <3>1. ConfirmTodo(o) \in ConfirmRest(o) /\ ConfirmTodo(o) # <<>>
          /\ ConfirmTodo(o) \in Seq(Statements)
      BY <2>1, ConfirmTodoIsRest, ConfirmRests
    <3>2. call' = [call EXCEPT ![c].todo = ConfirmTodo(o)] /\ mail' = mail
      BY <1>5, <2>3 DEF GetState
    <3>3. /\ call' \in [Calls -> InFlight]
          /\ UNCHANGED <<call[c].kind, call[c].o, call[c].seen, call[c].locks, call[c].said>>
          /\ call'[c].todo = ConfirmTodo(o)
          /\ OnlyCall(c)
      BY <1>0, <3>1, <3>2, SetTodo
    <3>4. Confirming(c)'
      BY <2>1, <3>1, <3>3 DEF Asking, Confirming
    <3>5. Shape(c)' /\ HoldsWallet(c)'
      BY <3>1, <3>3, <3>4 DEF Shape, HoldsWallet, Confirming, Spending
    <3>6. TypeOK' /\ Exclusive'
      BY <1>0, <1>5, <3>2, <3>3, TypedAside, LocksKept DEF GetState, Silent, TypeOK
    <3> QED BY <1>5, <3>3, <3>5, <3>6, Aside DEF GetState, Silent, ledger
  <2>4. CASE ~IsPaid(said) /\ MapStatus(said) # "pending"
    <3>1. <<"mark">> \in Seq(Statements) /\ <<"mark">> # <<>>
      BY DEF Statements
    <3>0. PICK s \in BankStates, todo \in Seq(Statements) : s = said /\ todo = <<"mark">>
      BY <2>2, <3>1
    <3>2. call' = [call EXCEPT ![c].said = s, ![c].todo = todo] /\ mail' = mail
      BY <1>5, <2>4, <3>0 DEF GetState
    <3>3. /\ call' \in [Calls -> InFlight]
          /\ UNCHANGED <<call[c].kind, call[c].o, call[c].seen, call[c].locks>>
          /\ call'[c].todo = todo
          /\ call'[c].said = s
          /\ OnlyCall(c)
      <4>1. call \in [Calls -> InFlight]
        BY <1>0 DEF TypeOK
      <4> QED BY <3>2, <4>1 DEF InFlight, OnlyCall
    <3>4. Marking(c)'
      BY <2>1, <2>4, <3>0, <3>3 DEF Asking, Marking, IsPaid
    <3>5. Shape(c)' /\ HoldsWallet(c)'
      BY <3>0, <3>1, <3>3, <3>4 DEF Shape, Marking, HoldsWallet, Confirming, Spending
    <3>6. TypeOK' /\ Exclusive'
      BY <1>0, <1>5, <3>2, <3>3, TypedAside, LocksKept DEF GetState, Silent, TypeOK
    <3> QED BY <1>5, <3>3, <3>5, <3>6, Aside DEF GetState, Silent, ledger
  <2>5. CASE ~IsPaid(said) /\ MapStatus(said) = "pending"
    BY <1>5, <2>5, AnswerKeepsWallet DEF GetState
  <2> QED BY <2>3, <2>4, <2>5
<1>6. CASE Look(c)
  <2>1. Confirming(c)
    BY <1>0, <1>6, WhereItIs DEF Look
  <2>2. Wants(c) = {} /\ call[c].todo # <<>> /\ ~At(c, "credit") /\ ~At(c, "debit")
    BY <1>6 DEF Look, Wants, At
  <2>3. CASE Answer(c)
    BY <1>6, <2>3, AnswerKeepsWallet DEF Look
  <2>4. CASE Proceed(c)
    BY <1>6, <2>1, <2>2, <2>4, ProceedKeepsWallet DEF Look
  <2> QED BY <1>6, <2>3, <2>4 DEF Look
<1>7. CASE Claim(c)
  <2>1. Confirming(c) /\ call[c].todo # <<>> /\ ~At(c, "credit") /\ ~At(c, "debit")
    BY <1>0, <1>7, WhereItIs DEF Claim, At
  <2> QED BY <1>7, <2>1, ProceedKeepsWallet DEF Claim
<1>8. CASE Current(c)
  <2>1. (Confirming(c) \/ Spending(c)) /\ call[c].todo # <<>>
        /\ ~At(c, "credit") /\ ~At(c, "debit")
    BY <1>0, <1>8, WhereItIs DEF Current, At
  <2>2. /\ call' \in [Calls -> InFlight]
        /\ UNCHANGED <<call[c].kind, call[c].o, call[c].said, call[c].locks>>
        /\ call'[c].todo = Tail(call[c].todo)
        /\ OnlyCall(c)
    BY <1>0, <1>8, <2>1, Looked DEF Current
  <2>3. TypeOK' /\ Exclusive'
    BY <1>0, <1>8, <2>2, TypedAside, LocksKept DEF Current, Silent, TypeOK
  <2> QED BY <1>8, <2>1, <2>2, <2>3, AsideProceed DEF Current, Silent, ledger
<1>9. CASE Extend(c)
  <2>1. (Confirming(c) \/ Spending(c)) /\ call[c].todo # <<>>
        /\ ~At(c, "credit") /\ ~At(c, "debit")
    BY <1>0, <1>9, WhereItIs DEF Extend, At
  <2> QED BY <1>9, <2>1, ProceedKeepsWallet DEF Extend
<1>10. CASE Credit(c)
  <2>1. Confirming(c) /\ call[c].o \in Orders /\ call[c].todo # <<>> /\ ~At(c, "debit")
    BY <1>0, <1>10, WhereItIs DEF Credit, At, Confirming
  <2>2. CASE credits[call[c].o] > 0
    BY <1>10, <2>2, AnswerKeepsWallet DEF Credit
  <2>3. CASE ~(credits[call[c].o] > 0)
    <3>1. credits[call[c].o] <= 0
      BY <1>0, <2>1, <2>3 DEF TypeOK
    <3> QED BY <1>10, <2>1, <2>3, <3>1, ProceedKeepsWallet DEF Credit
  <2> QED BY <2>2, <2>3
<1>11. CASE Afford(c)
  <2>1. Spending(c) /\ call[c].todo # <<>> /\ ~At(c, "credit") /\ ~At(c, "debit")
    BY <1>0, <1>11, WhereItIs DEF Afford, At
  <2>2. Wants(c) = {}
    BY <1>11 DEF Afford, Wants, At
  <2>3. CASE Throw(c)
    BY <1>11, <2>3, AnswerKeepsWallet DEF Afford
  <2>4. CASE Proceed(c)
    BY <1>11, <2>1, <2>2, <2>4, ProceedKeepsWallet DEF Afford
  <2> QED BY <1>11, <2>3, <2>4 DEF Afford
<1>12. CASE Debit(c)
  <2>1. Spending(c) /\ call[c].todo # <<>> /\ ~At(c, "credit")
    BY <1>0, <1>12, WhereItIs DEF Debit, At
  <2>2. CASE balance < Price
    BY <1>12, <2>2, AnswerKeepsWallet DEF Debit
  <2>3. CASE ~(balance < Price)
    <3>1. balance >= Price
      BY <1>0, <2>3 DEF TypeOK
    <3> QED BY <1>12, <2>1, <2>3, <3>1, ProceedKeepsWallet DEF Debit
  <2> QED BY <2>2, <2>3
<1>13. CASE Commit(c)
  <2> DEFINE o == call[c].o
  <2>1. call'[c] = NoCall /\ OnlyCall(c) /\ call' \in [Calls -> InFlight]
    BY <1>0, <1>13, Ended DEF Commit, Answer
  <2>2. Shape(c)' /\ HoldsWallet(c)'
    BY <2>1 DEF Shape, HoldsWallet, Confirming, Spending, NoCall
  <2>3. Exclusive'
    BY <1>0, <2>1, LocksKept DEF NoCall
  <2>4. Renewed(call[c].seen) \in Seq(Nat)
    BY <1>0, RenewedTyped DEF TypeOK, InFlight
  <2>5. CASE CommitConfirm(c)
    <3>1. Confirming(c) /\ o \in Orders /\ call[c].todo = <<>>
      BY <1>0, <1>13, <2>5
      DEF Commit, CommitConfirm, Shape, Confirming, NoCall, Initing, Asking, Marking, Spending
    <3>2. order' \in [Orders -> [status : Statuses, known : BOOLEAN]]
      BY <1>0, <2>5, <3>1 DEF CommitConfirm, TypeOK, Statuses
    <3>3. periods' \in Seq(Nat) /\ extended' \in [Orders -> Nat]
      <4>1. periods \in Seq(Nat) /\ extended \in [Orders -> Nat]
        BY <1>0 DEF TypeOK
      <4>2. CASE o \in PlusOrders
        BY <2>4, <2>5, <3>1, <4>1, <4>2 DEF CommitConfirm
      <4>3. CASE o \notin PlusOrders
        BY <2>5, <4>1, <4>3 DEF CommitConfirm, plus
      <4> QED BY <4>2, <4>3
    <3>4. CASE o \in TokenOrders
      <4>1. "wallet" \in call[c].locks /\ credits[o] = 0
        BY <1>0, <3>1, <3>4 DEF HoldsWallet
      <4>2. balance' = balance + Pack /\ credits' = [credits EXCEPT ![o] = @ + 1]
        BY <2>5, <3>4 DEF CommitConfirm
      <4>3. balance' \in Int /\ credits' \in [Orders -> Nat]
        BY <1>0, <3>1, <4>2 DEF TypeOK
      <4>4. TypeOK'
        BY <1>0, <1>13, <2>1, <2>5, <3>2, <3>3, <4>3 DEF Commit, CommitConfirm, TypeOK, Answer
      <4>5. WalletHolds'
        BY <1>0, <3>1, <4>1, <4>2 DEF WalletInv, WalletHolds, CreditedOnce, NeverOverdrawn, TypeOK
      <4>6. ASSUME NEW d \in Calls, d # c PROVE Shape(d)' /\ HoldsWallet(d)'
        <5>1. call'[d] = call[d] /\ "wallet" \notin call[d].locks /\ Shape(d) /\ HoldsWallet(d)
          BY <1>0, <2>1, <4>1, <4>6 DEF OnlyCall, Exclusive, WalletInv
        <5> QED BY <5>1 DEF Shape, HoldsWallet, Initing, Asking, Marking, Confirming, Spending
      <4> QED BY <2>2, <2>3, <4>4, <4>5, <4>6 DEF WalletInv
    <3>5. CASE o \notin TokenOrders
      <4>1. UNCHANGED <<balance, credits>>
        BY <2>5, <3>5 DEF CommitConfirm
      <4>2. TypeOK'
        BY <1>0, <1>13, <2>1, <2>5, <3>2, <3>3, <4>1 DEF Commit, CommitConfirm, TypeOK, Answer
      <4> QED BY <2>1, <2>2, <2>3, <4>1, <4>2, Aside
    <3> QED BY <3>4, <3>5
  <2>6. CASE CommitSpend(c)
    <3>1. Spending(c) /\ call[c].todo \in Debited(call[c].kind)
      BY <1>0, <1>13, <2>6, SpendRests
      DEF Commit, CommitSpend, Shape, Confirming, NoCall, Initing, Asking, Marking, Spending
    <3>2. "wallet" \in call[c].locks /\ balance >= Price
      BY <1>0, <3>1 DEF HoldsWallet
    <3>3. periods' \in Seq(Nat) /\ balance' \in Int /\ spends' \in Nat
      BY <1>0, <2>4, <2>6 DEF CommitSpend, TypeOK
    <3>4. TypeOK'
      BY <1>0, <1>13, <2>1, <2>6, <3>3 DEF Commit, CommitSpend, TypeOK, Answer
    <3>5. WalletHolds'
      BY <1>0, <2>6, <3>2 DEF CommitSpend, WalletInv, WalletHolds, CreditedOnce, NeverOverdrawn, TypeOK
    <3>6. ASSUME NEW d \in Calls, d # c PROVE Shape(d)' /\ HoldsWallet(d)'
      <4>1. call'[d] = call[d] /\ "wallet" \notin call[d].locks /\ Shape(d) /\ HoldsWallet(d)
        BY <1>0, <2>1, <3>2, <3>6 DEF OnlyCall, Exclusive, WalletInv
      <4>2. credits' = credits
        BY <2>6 DEF CommitSpend
      <4> QED BY <4>1, <4>2 DEF Shape, HoldsWallet, Initing, Asking, Marking, Confirming, Spending
    <3> QED BY <2>2, <2>3, <3>4, <3>5, <3>6 DEF WalletInv
  <2> QED BY <1>13, <2>5, <2>6 DEF Commit
<1> QED BY <1>1, <1>2, <1>3, <1>4, <1>5, <1>6, <1>7, <1>8, <1>9, <1>10, <1>11, <1>12, <1>13 DEF Step

LEMMA WalletStep == WalletInv /\ [Next]_vars => WalletInv'
<1> SUFFICES ASSUME WalletInv, [Next]_vars PROVE WalletInv'
  OBVIOUS
<1>1. ASSUME NEW c \in Calls, Begin(c) PROVE WalletInv'
  BY <1>1, BeginKeepsWallet
<1>2. ASSUME NEW c \in Calls, Step(c) PROVE WalletInv'
  BY <1>2, StepKeepsWallet
<1>3. ASSUME NEW c \in Calls, Abort(c) PROVE WalletInv'
  <2>0. TypeOK /\ aborts' \in 0 .. MaxAborts /\ mail' \subseteq mail
    BY <1>3, PaymentsAssumption DEF Abort, Throw, WalletInv, TypeOK
  <2>2. order' \in [Orders -> [status : Statuses, known : BOOLEAN]]
    BY <1>3, <2>0 DEF Abort, TypeOK
  <2>1. TypeOK'
    BY <1>3, <2>0, <2>2, TypedOver DEF Abort, Throw
  <2> QED BY <1>3, <2>1, AsideEnd DEF Abort, Throw, ledger
<1>4. ASSUME NEW c \in Calls, DeadlockVictim(c) PROVE WalletInv'
  BY <1>4, AnswerKeepsWallet DEF DeadlockVictim
<1>5. ASSUME NEW o \in Orders, BankMoves(o) PROVE WalletInv'
  <2>1. PICK next \in BankStates :
          bank' = [bank EXCEPT ![o] = next] /\ mail' = mail \cup {<<o, next>>}
    BY <1>5 DEF BankMoves, BankStates
  <2>2. TypeOK'
    BY <1>5, <2>1 DEF BankMoves, WalletInv, TypeOK, ledger, plus
  <2>3. \A c \in Calls : Shape(c)' /\ HoldsWallet(c)'
    BY <1>5, OwnKept DEF BankMoves, WalletInv, ledger
  <2>4. Exclusive' /\ WalletHolds'
    BY <1>5 DEF BankMoves, WalletInv, Exclusive, WalletHolds, CreditedOnce, NeverOverdrawn, ledger
  <2> QED BY <2>2, <2>3, <2>4 DEF WalletInv
<1>6. CASE UNCHANGED vars
  <2>1. TypeOK'
    BY <1>6 DEF WalletInv, TypeOK, vars, ledger, plus
  <2>2. \A c \in Calls : Shape(c)' /\ HoldsWallet(c)'
    BY <1>6, OwnKept DEF vars, WalletInv, ledger
  <2>3. Exclusive' /\ WalletHolds'
    BY <1>6 DEF vars, WalletInv, Exclusive, WalletHolds, CreditedOnce, NeverOverdrawn, ledger
  <2> QED BY <2>1, <2>2, <2>3 DEF WalletInv
<1> QED BY <1>1, <1>2, <1>3, <1>4, <1>5, <1>6 DEF Next

(* An order's tokens are credited once and the wallet never goes below zero, *)
(* whatever calls confirm orders and spend tokens, in any order.             *)
THEOREM WalletSafe == Spec => []WalletHolds
<1>1. WalletInv => WalletHolds
  BY DEF WalletInv
<1> QED BY <1>1, WalletInit, WalletStep, PTL DEF Spec

-----------------------------------------------------------------------------
(* What is delivered and what is paid.                                       *)

(* An order learns of a payment, starts and is confirmed only when it may.   *)
KnownKept == \A o \in Orders : order'[o].known => order[o].known \/ bank[o] # "none"

StatusKept(c) ==
    \A o \in Orders :
      /\ order'[o].status = "none" => order[o].status = "none"
      /\ order'[o].status = "none" /\ o \notin AppleOrders => call'[c].o # o
      /\ order'[o].status = "confirmed" => order[o].status = "confirmed"

StatusNoMore ==
    \A o \in Orders :
      /\ order'[o].status = "none" => order[o].status = "none"
      /\ order'[o].status = "confirmed" => order[o].status = "confirmed"

LEMMA PaidAside ==
    ASSUME WalletInv, PaidInv, NEW c \in Calls, OnlyCall(c),
           UNCHANGED <<bank, credits, extended>>, mail' \subseteq mail,
           KnownKept, StatusKept(c),
           call'[c].todo = <<"bank">> =>
             bank[call'[c].o] = "none" /\ \A d \in Calls \ {c} : call[d].o # call'[c].o,
           \A d \in Calls \ {c} : call[d].todo = <<"bank">> => call[d].o # call'[c].o,
           call'[c].todo = <<"store">> => bank[call'[c].o] # "none",
           Confirming(c)' => bank[call'[c].o] \in Paid
    PROVE  PaidInv'
<1>1. AppleIsPaid' /\ MailIsTrue' /\ Unheard'
  BY DEF PaidInv, AppleIsPaid, MailIsTrue, Unheard, KnownKept
<1>2. Untouched'
  BY DEF PaidInv, Untouched, OnlyCall, StatusKept
<1>3. InitIsAlone'
  BY DEF PaidInv, InitIsAlone, OnlyCall
<1>4. StoredIsHeard'
  BY DEF PaidInv, StoredIsHeard, OnlyCall
<1>5. ConfirmedIsPaid'
  BY DEF PaidInv, ConfirmedIsPaid, OnlyCall, Confirming
<1>6. DeliveredAsPaid'
  BY DEF PaidInv, DeliveredAsPaid, ConfirmedIsFulfilled, NothingUnpaid, Fulfilled, StatusKept
<1> QED BY <1>1, <1>2, <1>3, <1>4, <1>5, <1>6 DEF PaidInv

(* A call that is over and leaves its order's status as little confirmed.    *)
LEMMA PaidOver ==
    ASSUME WalletInv, PaidInv, NEW c \in Calls, call' = [call EXCEPT ![c] = NoCall],
           UNCHANGED <<bank, credits, extended>>, mail' \subseteq mail, KnownKept, StatusNoMore
    PROVE  PaidInv'
<1>1. call'[c] = NoCall /\ OnlyCall(c)
  BY Ended DEF WalletInv
<1>2. call'[c].todo # <<"bank">> /\ call'[c].todo # <<"store">> /\ ~Confirming(c)'
  BY <1>1 DEF NoCall, Confirming
<1>3. \A o \in Orders : call'[c].o # o
  BY <1>1, PaymentsAssumption DEF NoCall
<1>4. \A d \in Calls \ {c} : call[d].todo = <<"bank">> => call[d].o # call'[c].o
  <2> SUFFICES ASSUME NEW d \in Calls \ {c}, call[d].todo = <<"bank">>
               PROVE  call[d].o # call'[c].o
    OBVIOUS
  <2>1. At(d, "bank") /\ Shape(d)
    BY DEF At, WalletInv
  <2>2. call[d].o \in Orders
    BY <2>1, WhereItIs DEF Initing
  <2> QED BY <1>3, <2>2
<1>5. StatusKept(c)
  BY <1>3 DEF StatusKept, StatusNoMore
<1> QED BY <1>1, <1>2, <1>3, <1>4, <1>5, PaidAside

LEMMA PaidInit == Init => PaidInv
<1> SUFFICES ASSUME Init PROVE PaidInv
  OBVIOUS
<1> USE PaymentsAssumption DEF Init
<1>1. AppleIsPaid /\ MailIsTrue /\ Unheard
  BY DEF AppleIsPaid, MailIsTrue, Unheard
<1>2. Untouched /\ InitIsAlone /\ StoredIsHeard /\ ConfirmedIsPaid
  BY DEF Untouched, InitIsAlone, StoredIsHeard, ConfirmedIsPaid, Confirming, NoCall
<1>3. DeliveredAsPaid
  BY DEF DeliveredAsPaid, ConfirmedIsFulfilled, NothingUnpaid
<1> QED BY <1>1, <1>2, <1>3 DEF PaidInv

(* A call that confirms belongs to an order that is paid.                    *)
LEMMA BeginKeepsPaid ==
    ASSUME WalletInv, PaidInv, NEW c \in Calls, Begin(c)
    PROVE  PaidInv'
<1> USE PaymentsAssumption
<1>0. /\ TypeOK /\ call \in [Calls -> InFlight] /\ order \in [Orders -> OrderRows]
      /\ \A d \in Calls : call[d].todo = <<"bank">> => Initing(d)
  <2>2. ASSUME NEW d \in Calls, call[d].todo = <<"bank">> PROVE Initing(d)
    <3>1. Shape(d)
      BY DEF WalletInv
    <3>2. At(d, "bank")
      BY <2>2 DEF At
    <3> QED BY <3>1, <3>2, WhereItIs
  <2> QED BY <2>2 DEF WalletInv, TypeOK, OrderRows
<1>1. ASSUME NEW o \in Orders, InitPayment(c, o) PROVE PaidInv'
  <2>1. call'[c] = [kind |-> "init", o |-> o, said |-> "none", todo |-> <<"bank">>,
                    seen |-> <<>>, locks |-> {}] /\ OnlyCall(c)
    BY <1>0, <1>1 DEF InitPayment, Start, OnlyCall
  <2>2. o \notin AppleOrders /\ order[o].status = "none"
    BY <1>1 DEF InitPayment
  <2>3. bank[o] = "none" /\ \A d \in Calls : call[d].o # o
    BY <2>2 DEF PaidInv, Untouched
  <2>4. \A p \in Orders : /\ order'[p].known = order[p].known
                           /\ order'[p].status = IF p = o THEN "pending" ELSE order[p].status
    BY <1>0, <1>1 DEF InitPayment, OrderRows
  <2>5. ~Confirming(c)' /\ call'[c].todo # <<"store">>
    BY <2>1 DEF Confirming
  <2>6. KnownKept
    BY <2>4 DEF KnownKept
  <2>7. StatusKept(c)
    BY <2>1, <2>2, <2>4 DEF StatusKept
  <2> QED BY <1>1, <2>1, <2>3, <2>5, <2>6, <2>7, PaidAside DEF InitPayment, Start, ledger, plus
<1>2. ASSUME NEW o \in Orders, CheckPayment(c, o) PROVE PaidInv'
  <2>1. call'[c] = [kind |-> "check", o |-> o, said |-> "none", todo |-> <<"state">>,
                    seen |-> <<>>, locks |-> {}] /\ OnlyCall(c)
    BY <1>0, <1>2 DEF CheckPayment, Start, OnlyCall
  <2>2. order[o].status # "none" /\ order[o].known
    BY <1>2 DEF CheckPayment
  <2>3. bank[o] # "none"
    BY <2>2 DEF PaidInv, Unheard
  <2>4. \A d \in Calls : call[d].todo = <<"bank">> => call[d].o # o
    BY <2>3 DEF PaidInv, InitIsAlone
  <2>5. call'[c].todo # <<"bank">> /\ call'[c].todo # <<"store">> /\ call'[c].o = o
    BY <2>1
  <2>6. ~Confirming(c)'
    <3>1. \A t \in ConfirmRest(o) : t # <<>> => Head(t) # "state"
      BY ConfirmRests
    <3> QED BY <2>1, <3>1 DEF Confirming
  <2>7. KnownKept
    BY <1>2 DEF KnownKept, CheckPayment
  <2>8. StatusKept(c)
    BY <1>2, <2>1, <2>2 DEF StatusKept, CheckPayment
  <2> QED BY <1>2, <2>1, <2>4, <2>5, <2>6, <2>7, <2>8, PaidAside DEF CheckPayment, Start, ledger, plus
<1>3. ASSUME NEW o \in Orders, ConfirmApplePurchase(c, o) PROVE PaidInv'
  <2>1. call'[c] = [kind |-> "apple", o |-> o, said |-> "none", todo |-> ConfirmTodo(o),
                    seen |-> <<>>, locks |-> {}] /\ OnlyCall(c)
    BY <1>0, <1>3 DEF ConfirmApplePurchase, Start, OnlyCall
  <2>2. o \in AppleOrders /\ bank[o] = "confirmed"
    BY <1>3 DEF ConfirmApplePurchase, PaidInv, AppleIsPaid
  <2>3. \A d \in Calls : call[d].todo = <<"bank">> => call[d].o # o
    BY <1>0, <2>2 DEF Initing
  <2>4. ConfirmTodo(o) # <<"bank">> /\ ConfirmTodo(o) # <<"store">>
    BY ConfirmTodoIsRest, ConfirmRests
  <2>5. \A p \in Orders :
          /\ p # o => order'[p].known = order[p].known /\ order'[p].status = order[p].status
          /\ p = o => order'[p].status # "none"
          /\ p = o => (order'[p].status = "confirmed" => order[p].status = "confirmed")
    BY <1>0, <1>3 DEF ConfirmApplePurchase, OrderRows
  <2>6. KnownKept
    BY <2>2, <2>5 DEF KnownKept
  <2>7. StatusKept(c)
    BY <2>1, <2>2, <2>5 DEF StatusKept
  <2>8. ~(call'[c].todo = <<"bank">>) /\ ~(call'[c].todo = <<"store">>) /\ bank[call'[c].o] \in Paid
        /\ call'[c].o = o
    BY <2>1, <2>2, <2>4 DEF Paid
  <2> QED BY <1>3, <2>1, <2>3, <2>6, <2>7, <2>8, PaidAside
      DEF ConfirmApplePurchase, Start, ledger, plus
<1>4. ASSUME NEW o \in Orders, NEW said \in BankStates, HandleTbankWebhook(c, o, said)
      PROVE  PaidInv'
  <2>1. call'[c] = [kind |-> "webhook", o |-> o, said |-> said, todo |-> WebhookTodo(o, said),
                    seen |-> <<>>, locks |-> {}] /\ OnlyCall(c)
    BY <1>0, <1>4 DEF HandleTbankWebhook, Start, OnlyCall
  <2>2. <<o, said>> \in mail
    BY <1>4 DEF HandleTbankWebhook
  <2>3. o \notin AppleOrders /\ bank[o] # "none" /\ (said = "confirmed" => bank[o] \in Paid)
    BY <2>2 DEF PaidInv, AppleIsPaid, Unheard, MailIsTrue
  <2>4. order[o].status # "none"
    BY <2>3 DEF PaidInv, Untouched
  <2>5. \A d \in Calls : call[d].todo = <<"bank">> => call[d].o # o
    BY <2>3 DEF PaidInv, InitIsAlone
  <2>6. /\ WebhookTodo(o, said) # <<"bank">>
        /\ WebhookTodo(o, said) # <<"store">>
        /\ said # "confirmed" => WebhookTodo(o, said) = <<"mark">>
    BY ConfirmTodoIsRest, ConfirmRests DEF WebhookTodo
  <2>7. Confirming(c)' => said = "confirmed"
    <3>1. \A t \in ConfirmRest(o) : t # <<>> => Head(t) # "mark"
      BY ConfirmRests
    <3> QED BY <2>1, <2>6, <3>1 DEF Confirming
  <2>8. KnownKept
    BY <1>4 DEF KnownKept, HandleTbankWebhook
  <2>9. StatusKept(c)
    BY <1>4, <2>1, <2>4 DEF StatusKept, HandleTbankWebhook
  <2>10. call'[c].todo # <<"bank">> /\ call'[c].todo # <<"store">> /\ call'[c].o = o
    BY <2>1, <2>6
  <2> QED BY <1>4, <2>1, <2>3, <2>5, <2>7, <2>8, <2>9, <2>10, PaidAside
      DEF HandleTbankWebhook, Start, ledger, plus
<1>5. ASSUME NEW kind \in {"subscribe", "spend"}, Spend(c, kind) PROVE PaidInv'
  <2>1. call'[c] = [kind |-> kind, o |-> NoOrder, said |-> "none", todo |-> SpendTodo(kind),
                    seen |-> <<>>, locks |-> {}] /\ OnlyCall(c)
    BY <1>0, <1>5 DEF Spend, Start, OnlyCall
  <2>2. \A d \in Calls : call[d].todo = <<"bank">> => call[d].o # NoOrder
    BY <1>0 DEF Initing
  <2>3. SpendTodo(kind) # <<"bank">> /\ SpendTodo(kind) # <<"store">>
    <3>1. SpendTodo(kind) \in Undebited(kind)
      BY SpendTodoIsRest
    <3> QED BY <3>1, SpendRests
  <2>4. ~Confirming(c)'
    BY <2>1 DEF Confirming
  <2>5. \A p \in Orders : call'[c].o # p
    BY <2>1
  <2>6. KnownKept
    BY <1>5 DEF KnownKept, Spend
  <2>7. StatusKept(c)
    BY <1>5, <2>5 DEF StatusKept, Spend
  <2>8. call'[c].todo # <<"bank">> /\ call'[c].todo # <<"store">> /\ call'[c].o = NoOrder
    BY <2>1, <2>3
  <2> QED BY <1>5, <2>1, <2>2, <2>4, <2>6, <2>7, <2>8, PaidAside DEF Spend, Start, ledger, plus
<1> QED BY <1>1, <1>2, <1>3, <1>4, <1>5 DEF Begin

LEMMA AnswerKeepsPaid ==
    ASSUME WalletInv, PaidInv, NEW c \in Calls, Answer(c) \/ Throw(c), Silent
    PROVE  PaidInv'
<1>1. KnownKept /\ StatusNoMore
  BY DEF KnownKept, StatusNoMore, Silent
<1> QED BY <1>1, PaidOver DEF Answer, Throw, Silent, ledger, plus

(* A statement of a call that confirms or spends, its order unchanged.       *)
LEMMA ProceedKeepsPaid ==
    ASSUME WalletInv, PaidInv, NEW c \in Calls, call[c].todo # <<>>,
           Confirming(c) \/ Spending(c), Silent, mail' = mail,
           UNCHANGED <<call[c].kind, call[c].o>>, call'[c].todo = Tail(call[c].todo),
           OnlyCall(c)
    PROVE  PaidInv'
<1>1. KnownKept
  BY DEF KnownKept, Silent
<1>2. StatusKept(c)
  BY DEF StatusKept, Silent, PaidInv, Untouched
<1>3. call'[c].todo # <<"bank">> /\ call'[c].todo # <<"store">>
  <2>1. CASE Confirming(c)
    <3>1. Tail(call[c].todo) \in ConfirmRest(call[c].o) /\ call[c].o \in Orders
      BY <2>1, ConfirmRests DEF Confirming
    <3>2. \A t \in ConfirmRest(call[c].o) : t # <<"bank">> /\ t # <<"store">>
      BY <3>1, ConfirmRests
    <3> QED BY <3>1, <3>2
  <2>2. CASE Spending(c)
    <3>1. Tail(call[c].todo) \in Undebited(call[c].kind) \cup Debited(call[c].kind)
          /\ call[c].kind \in {"subscribe", "spend"}
      BY <2>2, SpendRests DEF Spending
    <3>2. \A t \in Undebited(call[c].kind) \cup Debited(call[c].kind) :
            t # <<"bank">> /\ t # <<"store">>
      BY <3>1, SpendRests
    <3> QED BY <3>1, <3>2
  <2> QED BY <2>1, <2>2
<1>4. Confirming(c)' => bank[call'[c].o] \in Paid
  BY DEF Confirming, Spending, PaidInv, ConfirmedIsPaid
<1>5. \A d \in Calls \ {c} : call[d].todo = <<"bank">> => call[d].o # call'[c].o
  BY DEF PaidInv, InitIsAlone
<1> QED BY <1>1, <1>2, <1>3, <1>4, <1>5, PaidAside DEF Silent, ledger, plus

LEMMA ProceedIs ==
    ASSUME WalletInv, PaidInv, NEW c \in Calls, call[c].todo # <<>>, Proceed(c), Silent,
           Confirming(c) \/ Spending(c)
    PROVE  PaidInv'
<1>1. /\ UNCHANGED <<call[c].kind, call[c].o>>
      /\ call'[c].todo = Tail(call[c].todo)
      /\ OnlyCall(c)
  BY Proceeded DEF WalletInv
<1> QED BY <1>1, ProceedKeepsPaid DEF Proceed

(* A write to the order ends the call.                                       *)
LEMMA SetOrderKeepsPaid ==
    ASSUME WalletInv, PaidInv, NEW c \in Calls, call[c].o \in Orders,
           NEW row \in OrderRows, SetOrder(c, row),
           row.known = order[call[c].o].known \/ bank[call[c].o] # "none",
           row.status = order[call[c].o].status \/ row.status \notin {"none", "confirmed"}
    PROVE  PaidInv'
<1> DEFINE o == call[c].o
<1>1. order \in [Orders -> OrderRows]
  BY DEF WalletInv, TypeOK, OrderRows
<1>2. \A p \in Orders : order'[p] = IF p = o THEN row ELSE order[p]
  BY <1>1 DEF SetOrder
<1>3. \A p \in Orders : order'[p].known = order[p].known \/ bank[p] # "none"
  BY <1>2
<1>4. KnownKept
  BY <1>3 DEF KnownKept
<1>5. StatusNoMore
  BY <1>2 DEF StatusNoMore
<1>6. /\ call' = [call EXCEPT ![c] = NoCall]
      /\ bank' = bank /\ credits' = credits /\ extended' = extended
      /\ mail' \subseteq mail
  BY DEF SetOrder, Answer, ledger, plus
<1> QED BY <1>4, <1>5, <1>6, PaidOver

LEMMA StepKeepsPaid ==
    ASSUME WalletInv, PaidInv, NEW c \in Calls, Step(c)
    PROVE  PaidInv'
<1> USE PaymentsAssumption
<1> DEFINE o == call[c].o
<1>0. /\ TypeOK /\ Shape(c)
      /\ call \in [Calls -> InFlight] /\ call[c] \in InFlight
      /\ order \in [Orders -> OrderRows] /\ bank \in [Orders -> BankStates]
  BY DEF WalletInv, TypeOK, OrderRows
<1>1. CASE BankInit(c)
  <2>1. Initing(c) /\ call[c].todo = <<"bank">> /\ o \in Orders \ AppleOrders
    BY <1>0, <1>1, WhereItIs DEF BankInit, Initing
  <2>2. bank[o] = "none" /\ \A d \in Calls \ {c} : call[d].o # o
    BY <2>1 DEF PaidInv, InitIsAlone
  <2>3. order[o].status # "none"
    BY <2>1 DEF PaidInv, Untouched
  <2>4. /\ OnlyCall(c)
        /\ UNCHANGED <<call[c].kind, call[c].o>>
        /\ call'[c].todo \in {<<"store">>, <<"fail">>}
        /\ call'[c].todo = <<"store">> => bank'[o] # "none"
    <3>1. CASE \E next \in {"store", "fail"} :
                 bank' = [bank EXCEPT ![o] = "new"] /\ call' = [call EXCEPT ![c].todo = <<next>>]
      BY <1>0, <2>1, <3>1 DEF OnlyCall, InFlight
    <3>2. CASE call' = [call EXCEPT ![c].todo = <<"fail">>]
      BY <1>0, <3>2 DEF OnlyCall, InFlight
    <3> QED BY <1>1, <3>1, <3>2 DEF BankInit
  <2>5. /\ \A p \in Orders : p # o => bank'[p] = bank[p]
        /\ bank'[o] \in {"none", "new"}
    BY <1>0, <1>1, <2>1, <2>2 DEF BankInit
  <2>6. UNCHANGED <<order, mail, credits, extended>>
    BY <1>1 DEF BankInit, ledger, plus
  <2>7. AppleIsPaid'
    BY <2>1, <2>5, <2>6 DEF PaidInv, AppleIsPaid
  <2>8. MailIsTrue'
    <3>1. \A s \in BankStates : <<o, s>> \notin mail
      BY <2>1, <2>2 DEF PaidInv, Unheard
    <3>2. "confirmed" \in BankStates
      BY DEF BankStates
    <3> QED BY <2>5, <2>6, <3>1, <3>2 DEF PaidInv, MailIsTrue
  <2>9. Unheard'
    BY <2>1, <2>2, <2>5, <2>6 DEF PaidInv, Unheard
  <2>10. Untouched'
    BY <2>3, <2>4, <2>5, <2>6 DEF PaidInv, Untouched, OnlyCall
  <2>11. InitIsAlone'
    <3> SUFFICES ASSUME NEW d \in Calls, call'[d].todo = <<"bank">>
                 PROVE  bank'[call'[d].o] = "none" /\ \A e \in Calls \ {d} : call'[e].o # call'[d].o
      BY DEF InitIsAlone
    <3>1. d # c
      BY <2>4
    <3>2. call'[d] = call[d]
      BY <2>4, <3>1 DEF OnlyCall
    <3>3. bank[call[d].o] = "none" /\ \A e \in Calls \ {d} : call[e].o # call[d].o
      BY <3>2 DEF PaidInv, InitIsAlone
    <3>4. call[d].o # o /\ call[d].o \in Orders
      <4>1. call[d].todo = <<"bank">>
        BY <3>2
      <4>2. At(d, "bank")
        BY <4>1 DEF At
      <4>3. Shape(d)
        BY DEF WalletInv
      <4>4. call[d].o \in Orders
        BY <4>2, <4>3, WhereItIs DEF Initing
      <4> QED BY <3>1, <3>3, <4>4
    <3> QED BY <2>4, <2>5, <3>2, <3>3, <3>4 DEF OnlyCall
  <2>12. StoredIsHeard'
    <3> SUFFICES ASSUME NEW d \in Calls, call'[d].todo = <<"store">>
                 PROVE  bank'[call'[d].o] # "none"
      BY DEF StoredIsHeard
    <3>1. CASE d = c
      BY <2>4, <3>1
    <3>2. CASE d # c
      <4>1. call'[d] = call[d]
        BY <2>4, <3>2 DEF OnlyCall
      <4>2. call[d].o # o /\ call[d].o \in Orders
        <5>1. At(d, "store") /\ Shape(d)
          BY <4>1 DEF At, WalletInv
        <5>2. call[d].o \in Orders
          BY <5>1, WhereItIs DEF Initing
        <5> QED BY <2>2, <3>2, <5>2
      <4> QED BY <2>5, <4>1, <4>2 DEF PaidInv, StoredIsHeard
    <3> QED BY <3>1, <3>2
  <2>13. ConfirmedIsPaid'
    <3> SUFFICES ASSUME NEW d \in Calls, Confirming(d)' PROVE bank'[call'[d].o] \in Paid
      BY DEF ConfirmedIsPaid
    <3>1. d # c
      BY <2>1, <2>4 DEF Confirming, Initing
    <3>2. call'[d] = call[d]
      BY <2>4, <3>1 DEF OnlyCall
    <3>3. Confirming(d) /\ call[d].o # o /\ call[d].o \in Orders
      BY <2>2, <3>1, <3>2 DEF Confirming
    <3> QED BY <2>5, <3>2, <3>3 DEF PaidInv, ConfirmedIsPaid
  <2>14. DeliveredAsPaid'
    <3>1. ~(credits[o] + extended[o] > 0)
      BY <2>1, <2>2 DEF PaidInv, DeliveredAsPaid, NothingUnpaid
    <3> QED BY <2>5, <2>6, <3>1
        DEF PaidInv, DeliveredAsPaid, ConfirmedIsFulfilled, NothingUnpaid, Fulfilled
  <2> QED BY <2>7, <2>8, <2>9, <2>10, <2>11, <2>12, <2>13, <2>14 DEF PaidInv
<1>2. CASE Store(c)
  <2>1. o \in Orders /\ call[c].todo = <<"store">>
    BY <1>0, <1>2, WhereItIs DEF Store, Initing
  <2>2. bank[o] # "none"
    BY <2>1 DEF PaidInv, StoredIsHeard
  <2>3. order[o] \in OrderRows
    BY <1>0, <2>1
  <2>4. [order[o] EXCEPT !.known = TRUE] \in OrderRows
    BY <2>3, RowKnown
  <2>5. [order[o] EXCEPT !.known = TRUE].status = order[o].status
    BY <2>3 DEF OrderRows
  <2> QED BY <1>2, <2>1, <2>2, <2>4, <2>5, SetOrderKeepsPaid DEF Store
<1>3. CASE Fail(c)
  <2>1. o \in Orders /\ "failed" \in Statuses
    BY <1>0, <1>3, WhereItIs DEF Fail, Initing, Statuses
  <2>2. order[o] \in OrderRows
    BY <1>0, <2>1
  <2>3. [order[o] EXCEPT !.status = "failed"] \in OrderRows
    BY <2>1, <2>2, RowStatus
  <2>4. /\ [order[o] EXCEPT !.status = "failed"].status = "failed"
        /\ [order[o] EXCEPT !.status = "failed"].known = order[o].known
    BY <2>2 DEF OrderRows
  <2> QED BY <1>3, <2>1, <2>3, <2>4, SetOrderKeepsPaid DEF Fail
<1>4. CASE Mark(c)
  <2> DEFINE new == MapStatus(call[c].said)
  <2>1. o \in Orders /\ call[c].said # "confirmed"
    BY <1>0, <1>4, WhereItIs DEF Mark, Marking
  <2>2. new \in Statuses /\ new \notin {"none", "confirmed"}
    BY <2>1 DEF MapStatus, Statuses
  <2> HIDE DEF new
  <2>3. order[o] \in OrderRows
    BY <1>0, <2>1
  <2>4. [order[o] EXCEPT !.status = new] \in OrderRows
    BY <2>2, <2>3, RowStatus
  <2>5. /\ [order[o] EXCEPT !.status = new].status = new
        /\ [order[o] EXCEPT !.status = new].known = order[o].known
    BY <2>3 DEF OrderRows
  <2>6. SetOrder(c, [order[o] EXCEPT !.status = new])
    BY <1>4 DEF Mark, new
  <2> QED BY <2>1, <2>2, <2>4, <2>5, <2>6, SetOrderKeepsPaid
<1>5. CASE GetState(c)
  <2> DEFINE said == bank[o]
  <2>1. Asking(c) /\ o \in Orders \ AppleOrders
    BY <1>0, <1>5, WhereItIs DEF GetState, Asking
  <2>2. KnownKept
    BY <1>5 DEF KnownKept, GetState, Silent
  <2>3. order[o].status # "none"
    BY <2>1 DEF PaidInv, Untouched
  <2>4. bank[o] # "none" => \A d \in Calls \ {c} : call[d].todo = <<"bank">> => call[d].o # o
    BY DEF PaidInv, InitIsAlone
  <2>5. ASSUME OnlyCall(c), call'[c].o = o, mail' = mail, bank[o] # "none",
               call'[c].todo # <<"bank">>, call'[c].todo # <<"store">>,
               Confirming(c)' => bank[o] \in Paid
        PROVE  PaidInv'
    <3>1. StatusKept(c)
      BY <1>5, <2>3, <2>5 DEF StatusKept, GetState, Silent
    <3> QED BY <1>5, <2>2, <2>4, <2>5, <3>1, PaidAside DEF GetState, Silent, ledger, plus
  <2>6. CASE IsPaid(said)
    <3>1. call' = [call EXCEPT ![c].todo = ConfirmTodo(o)] /\ mail' = mail
      BY <1>5, <2>6 DEF GetState
    <3>2. OnlyCall(c) /\ call'[c].o = o /\ call'[c].todo = ConfirmTodo(o)
      BY <1>0, <3>1 DEF OnlyCall, InFlight
    <3>3. ConfirmTodo(o) # <<"bank">> /\ ConfirmTodo(o) # <<"store">>
      BY <2>1, ConfirmTodoIsRest, ConfirmRests
    <3>4. said = "confirmed"
      BY <2>6 DEF IsPaid
    <3> QED BY <2>5, <3>1, <3>2, <3>3, <3>4 DEF Paid
  <2>7. CASE ~IsPaid(said) /\ MapStatus(said) # "pending"
    <3>1. call' = [call EXCEPT ![c].said = said, ![c].todo = <<"mark">>] /\ mail' = mail
      BY <1>5, <2>7 DEF GetState
    <3>2. OnlyCall(c) /\ call'[c].o = o /\ call'[c].todo = <<"mark">>
      BY <1>0, <3>1 DEF OnlyCall, InFlight
    <3>3. said # "none"
      BY <2>7 DEF MapStatus
    <3>4. ~Confirming(c)'
      <4>1. \A t \in ConfirmRest(o) : t # <<>> => Head(t) # "mark"
        BY <2>1, ConfirmRests
      <4> QED BY <3>2, <4>1 DEF Confirming
    <3> QED BY <2>5, <3>1, <3>2, <3>3, <3>4
  <2>8. CASE ~IsPaid(said) /\ MapStatus(said) = "pending"
    BY <1>5, <2>8, AnswerKeepsPaid DEF GetState
  <2> QED BY <2>6, <2>7, <2>8
<1>6. CASE Look(c)
  <2>1. Confirming(c) /\ call[c].todo # <<>>
    BY <1>0, <1>6, WhereItIs DEF Look, At
  <2>2. CASE Answer(c)
    BY <1>6, <2>2, AnswerKeepsPaid DEF Look
  <2>3. CASE Proceed(c)
    BY <1>6, <2>1, <2>3, ProceedIs DEF Look
  <2> QED BY <1>6, <2>2, <2>3 DEF Look
<1>7. CASE Claim(c)
  <2>1. Confirming(c) /\ call[c].todo # <<>>
    BY <1>0, <1>7, WhereItIs DEF Claim, At
  <2> QED BY <1>7, <2>1, ProceedIs DEF Claim
<1>8. CASE Current(c)
  <2>1. (Confirming(c) \/ Spending(c)) /\ call[c].todo # <<>>
    BY <1>0, <1>8, WhereItIs DEF Current, At
  <2>2. /\ UNCHANGED <<call[c].kind, call[c].o>>
        /\ call'[c].todo = Tail(call[c].todo)
        /\ OnlyCall(c)
    BY <1>0, <1>8, <2>1, Looked DEF Current
  <2> QED BY <1>8, <2>1, <2>2, ProceedKeepsPaid DEF Current
<1>9. CASE Extend(c)
  <2>1. (Confirming(c) \/ Spending(c)) /\ call[c].todo # <<>>
    BY <1>0, <1>9, WhereItIs DEF Extend, At
  <2> QED BY <1>9, <2>1, ProceedIs DEF Extend
<1>10. CASE Credit(c)
  <2>1. Confirming(c) /\ call[c].todo # <<>>
    BY <1>0, <1>10, WhereItIs DEF Credit, At
  <2>2. CASE Throw(c)
    BY <1>10, <2>2, AnswerKeepsPaid DEF Credit
  <2>3. CASE Proceed(c)
    BY <1>10, <2>1, <2>3, ProceedIs DEF Credit
  <2> QED BY <1>10, <2>2, <2>3 DEF Credit
<1>11. CASE Afford(c)
  <2>1. Spending(c) /\ call[c].todo # <<>>
    BY <1>0, <1>11, WhereItIs DEF Afford, At
  <2>2. CASE Throw(c)
    BY <1>11, <2>2, AnswerKeepsPaid DEF Afford
  <2>3. CASE Proceed(c)
    BY <1>11, <2>1, <2>3, ProceedIs DEF Afford
  <2> QED BY <1>11, <2>2, <2>3 DEF Afford
<1>12. CASE Debit(c)
  <2>1. Spending(c) /\ call[c].todo # <<>>
    BY <1>0, <1>12, WhereItIs DEF Debit, At
  <2>2. CASE Throw(c)
    BY <1>12, <2>2, AnswerKeepsPaid DEF Debit
  <2>3. CASE Proceed(c)
    BY <1>12, <2>1, <2>3, ProceedIs DEF Debit
  <2> QED BY <1>12, <2>2, <2>3 DEF Debit
<1>13. CASE Commit(c)
  <2>1. call'[c] = NoCall /\ OnlyCall(c) /\ call' = [call EXCEPT ![c] = NoCall] /\ mail' \subseteq mail
    BY <1>0, <1>13, Ended DEF Commit, Answer
  <2>2. CASE CommitSpend(c)
    <3>1. KnownKept /\ StatusNoMore
      BY <2>2 DEF KnownKept, StatusNoMore, CommitSpend
    <3> QED BY <1>13, <2>1, <2>2, <3>1, PaidOver DEF Commit, CommitSpend
  <2>3. CASE CommitConfirm(c)
    <3>1. Confirming(c) /\ o \in Orders
      BY <1>0, <1>13, <2>3
      DEF Commit, CommitConfirm, Shape, Confirming, NoCall, Initing, Asking, Marking, Spending
    <3>2. bank[o] \in Paid /\ bank' = bank
      BY <1>13, <3>1 DEF PaidInv, ConfirmedIsPaid, Commit
    <3>3. \A p \in Orders : order'[p] = IF p = o THEN [status |-> "confirmed", known |-> TRUE]
                                        ELSE order[p]
      BY <1>0, <2>3 DEF CommitConfirm
    <3>4. /\ credits \in [Orders -> Nat] /\ extended \in [Orders -> Nat]
      BY <1>0 DEF TypeOK
    <3>5. /\ \A p \in Orders : p # o => credits'[p] = credits[p] /\ extended'[p] = extended[p]
          /\ credits'[o] = IF o \in TokenOrders THEN credits[o] + 1 ELSE credits[o]
          /\ extended'[o] = IF o \in PlusOrders THEN extended[o] + 1 ELSE extended[o]
      <4>1. /\ \A p \in Orders : p # o => credits'[p] = credits[p]
            /\ credits'[o] = IF o \in TokenOrders THEN credits[o] + 1 ELSE credits[o]
        BY <2>3, <3>1, <3>4 DEF CommitConfirm
      <4>2. /\ \A p \in Orders : p # o => extended'[p] = extended[p]
            /\ extended'[o] = IF o \in PlusOrders THEN extended[o] + 1 ELSE extended[o]
        BY <2>3, <3>1, <3>4 DEF CommitConfirm, plus
      <4> QED BY <4>1, <4>2
    <3>6. AppleIsPaid' /\ MailIsTrue'
      BY <2>1, <3>2 DEF PaidInv, AppleIsPaid, MailIsTrue
    <3>7. Unheard'
      BY <2>1, <3>2, <3>3 DEF PaidInv, Unheard, Paid
    <3>8. Untouched'
      <4>1. \A p \in Orders : call'[c].o # p
        BY <2>1 DEF NoCall
      <4>2. \A p \in Orders : order'[p].status = "none" => order[p].status = "none"
        BY <3>3
      <4> QED BY <2>1, <3>2, <4>1, <4>2 DEF PaidInv, Untouched, OnlyCall
    <3>9. InitIsAlone'
      <4> SUFFICES ASSUME NEW d \in Calls, call'[d].todo = <<"bank">>
                   PROVE  bank'[call'[d].o] = "none" /\ \A e \in Calls \ {d} : call'[e].o # call'[d].o
        BY DEF InitIsAlone
      <4>1. d # c
        BY <2>1 DEF NoCall
      <4>2. call'[d] = call[d] /\ At(d, "bank") /\ Shape(d)
        BY <2>1, <4>1 DEF OnlyCall, At, WalletInv
      <4>3. call[d].o \in Orders
        BY <4>2, WhereItIs DEF Initing
      <4>4. call'[c].o # call[d].o
        BY <2>1, <4>3 DEF NoCall
      <4> QED BY <2>1, <3>2, <4>2, <4>4 DEF PaidInv, InitIsAlone, OnlyCall
    <3>10. StoredIsHeard' /\ ConfirmedIsPaid'
      BY <2>1, <3>2 DEF PaidInv, StoredIsHeard, ConfirmedIsPaid, OnlyCall, NoCall, Confirming
    <3>11. ConfirmedIsFulfilled'
      BY <3>3, <3>4, <3>5 DEF PaidInv, DeliveredAsPaid, ConfirmedIsFulfilled, Fulfilled
    <3>12. NothingUnpaid'
      BY <3>2, <3>5 DEF PaidInv, DeliveredAsPaid, NothingUnpaid, Paid
    <3> QED BY <3>6, <3>7, <3>8, <3>9, <3>10, <3>11, <3>12 DEF PaidInv, DeliveredAsPaid
  <2> QED BY <1>13, <2>2, <2>3 DEF Commit
<1> QED BY <1>1, <1>2, <1>3, <1>4, <1>5, <1>6, <1>7, <1>8, <1>9, <1>10, <1>11, <1>12, <1>13 DEF Step

(* The bank's own moves: a confirmed payment can only be refunded.           *)
LEMMA BankKeepsPaid ==
    ASSUME WalletInv, PaidInv, NEW o \in Orders, BankMoves(o)
    PROVE  PaidInv'
<1>0. bank \in [Orders -> BankStates] /\ order \in [Orders -> OrderRows]
  BY DEF WalletInv, TypeOK, OrderRows
<1>1. order[o].known /\ o \notin AppleOrders /\ UNCHANGED <<order, credits, extended, call>>
  BY DEF BankMoves, ledger, plus
<1>2. bank[o] # "none"
  BY <1>1 DEF PaidInv, Unheard
<1>3. PICK next \in BankStates :
        /\ bank' = [bank EXCEPT ![o] = next]
        /\ mail' = mail \cup {<<o, next>>}
        /\ bank[o] \in Paid => next = "refunded"
        /\ next # "none"
  BY DEF BankMoves, BankStates, Paid
<1>4. \A p \in Orders : bank'[p] = IF p = o THEN next ELSE bank[p]
  BY <1>0, <1>3
<1>5. \A p \in Orders, s \in BankStates : <<p, s>> \in mail' => <<p, s>> \in mail \/ (p = o /\ s = next)
  BY <1>3
<1>6. \A p \in Orders : bank[p] \in Paid => bank'[p] \in Paid
  BY <1>3, <1>4 DEF Paid
<1>7. AppleIsPaid'
  <2> SUFFICES ASSUME NEW p \in AppleOrders
               PROVE  bank'[p] = "confirmed" /\ \A s \in BankStates : <<p, s>> \notin mail'
    BY DEF AppleIsPaid
  <2> QED BY <1>1, <1>4, <1>5, PaymentsAssumption DEF PaidInv, AppleIsPaid
<1>8. MailIsTrue'
  <2>1. "confirmed" \in BankStates
    BY DEF BankStates
  <2> QED BY <1>4, <1>5, <1>6, <2>1 DEF PaidInv, MailIsTrue, Paid
<1>9. Unheard'
  BY <1>1, <1>3, <1>4, <1>5 DEF PaidInv, Unheard
<1>10. Untouched'
  BY <1>1, <1>2, <1>4 DEF PaidInv, Untouched
<1>11. InitIsAlone'
  <2> SUFFICES ASSUME NEW d \in Calls, call[d].todo = <<"bank">> PROVE bank'[call[d].o] = "none"
    BY <1>1 DEF InitIsAlone, PaidInv
  <2>1. bank[call[d].o] = "none"
    BY DEF PaidInv, InitIsAlone
  <2>2. At(d, "bank") /\ Shape(d)
    BY DEF At, WalletInv
  <2>3. call[d].o \in Orders
    BY <2>2, WhereItIs DEF Initing
  <2> QED BY <1>2, <1>4, <2>1, <2>3
<1>12. StoredIsHeard'
  <2> SUFFICES ASSUME NEW d \in Calls, call[d].todo = <<"store">> PROVE bank'[call[d].o] # "none"
    BY <1>1 DEF StoredIsHeard
  <2>1. bank[call[d].o] # "none"
    BY DEF PaidInv, StoredIsHeard
  <2>2. At(d, "store") /\ Shape(d)
    BY DEF At, WalletInv
  <2>3. call[d].o \in Orders
    BY <2>2, WhereItIs DEF Initing
  <2> QED BY <1>3, <1>4, <2>1, <2>3
<1>13. ConfirmedIsPaid'
  BY <1>1, <1>6 DEF PaidInv, ConfirmedIsPaid, Confirming
<1>14. DeliveredAsPaid'
  BY <1>1, <1>6 DEF PaidInv, DeliveredAsPaid, ConfirmedIsFulfilled, Fulfilled, NothingUnpaid, Paid
<1> QED BY <1>7, <1>8, <1>9, <1>10, <1>11, <1>12, <1>13, <1>14 DEF PaidInv

LEMMA PaidStep == WalletInv /\ PaidInv /\ [Next]_vars => PaidInv'
<1> SUFFICES ASSUME WalletInv, PaidInv, [Next]_vars PROVE PaidInv'
  OBVIOUS
<1>1. ASSUME NEW c \in Calls, Begin(c) PROVE PaidInv'
  BY <1>1, BeginKeepsPaid
<1>2. ASSUME NEW c \in Calls, Step(c) PROVE PaidInv'
  BY <1>2, StepKeepsPaid
<1>3. ASSUME NEW c \in Calls, Abort(c) PROVE PaidInv'
  <2>1. KnownKept /\ StatusNoMore
    BY <1>3 DEF KnownKept, StatusNoMore, Abort
  <2> QED BY <1>3, <2>1, PaidOver DEF Abort, Throw, ledger, plus
<1>4. ASSUME NEW c \in Calls, DeadlockVictim(c) PROVE PaidInv'
  BY <1>4, AnswerKeepsPaid DEF DeadlockVictim
<1>5. ASSUME NEW o \in Orders, BankMoves(o) PROVE PaidInv'
  BY <1>5, BankKeepsPaid
<1>6. CASE UNCHANGED vars
  <2>1. UNCHANGED <<order, bank, mail, credits, extended, call>>
    BY <1>6 DEF vars, ledger, plus
  <2>2. AppleIsPaid' /\ MailIsTrue' /\ Unheard' /\ Untouched'
    BY <2>1 DEF PaidInv, AppleIsPaid, MailIsTrue, Unheard, Untouched
  <2>3. InitIsAlone' /\ StoredIsHeard' /\ ConfirmedIsPaid' /\ DeliveredAsPaid'
    BY <2>1 DEF PaidInv, InitIsAlone, StoredIsHeard, ConfirmedIsPaid, Confirming,
                DeliveredAsPaid, ConfirmedIsFulfilled, Fulfilled, NothingUnpaid
  <2> QED BY <2>2, <2>3 DEF PaidInv
<1> QED BY <1>1, <1>2, <1>3, <1>4, <1>5, <1>6 DEF Next

(* An order shown as confirmed has delivered all it sold, and nothing is     *)
(* delivered for a payment its provider has not confirmed.                   *)
THEOREM PaidSafe == Spec => []DeliveredAsPaid
<1>1. PaidInv => DeliveredAsPaid
  BY DEF PaidInv
<1>2. Init => WalletInv /\ PaidInv
  BY WalletInit, PaidInit
<1>3. WalletInv /\ PaidInv /\ [Next]_vars => WalletInv' /\ PaidInv'
  BY WalletStep, PaidStep
<1> QED BY <1>1, <1>2, <1>3, PTL DEF Spec

=============================================================================
