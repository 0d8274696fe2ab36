------------------------------- MODULE Gateways -------------------------------
(***************************************************************************)
(* The two gateways and their dialects: what is asked of them, what their  *)
(* deliveries and answers mean, what they are answered.  VNPay counts in   *)
(* hundredths, says twice whether it was paid and calls with GET; MoMo     *)
(* counts in VND and posts JSON, whose transaction id may be a number.     *)
(* One delivery is handled at a time; how deliveries, sweeps and expiry    *)
(* race is in TopUp.                                                       *)
(***************************************************************************)
EXTENDS Integers

CONSTANTS
    Orders,
    Amounts,       \* VND a member may pay: the range of the settings
    Rates,         \* VND a Coin may cost
    MaxChanges     \* bound: changes of the rate and of a secret

VARIABLES
    rate,          \* coinRateVnd of the settings
    agreed,        \* whether our secret is the one the gateways sign with
    order,         \* CoinTopUp and its Payment, None before
    till,          \* what the gateway knows of the order
    credited,      \* Coins the wallet got for it
    callback,      \* PaymentCallback row of the one event: none, handled, or refused
    told,          \* what the gateway and the member were told
    changes

vars == <<rate, agreed, order, till, credited, callback, told, changes>>

None == [status |-> "NONE"]
NoLink == [state |-> "none"]

Init ==
    /\ rate \in Rates /\ agreed = TRUE
    /\ order = [o \in Orders |-> None]
    /\ till = [o \in Orders |-> NoLink]
    /\ credited = [o \in Orders |-> 0]
    /\ callback = [o \in Orders |-> "none"]
    /\ told = [o \in Orders |-> {}]
    /\ changes = 0

\* The Admin sets another rate; a gateway issues another secret, or ours is brought up to date.
Configure ==
    /\ changes < MaxChanges /\ changes' = changes + 1
    /\ \/ rate' \in Rates \ {rate} /\ UNCHANGED agreed
       \/ agreed' = ~agreed /\ UNCHANGED rate
    /\ UNCHANGED <<order, till, credited, callback, told>>

-----------------------------------------------------------------------------
(* The order and its link.                                                  *)

\* create: rounded down, so that the Coins cost no more than is paid.
Create(o, provider, amount) ==
    /\ order[o] = None
    /\ order' = [order EXCEPT ![o] = [status |-> "PENDING", provider |-> provider, amount |-> amount,
                                      rate |-> rate, coins |-> amount \div rate]]
    /\ UNCHANGED <<rate, agreed, till, credited, callback, told, changes>>

\* Mutant: VNPay is asked for VND.
InVnd(provider, amount) == amount

\* The amount in the unit of the gateway.
Asked(provider, amount) == IF provider = "VNPAY" THEN amount * 100 ELSE amount

Linked(o) ==
    /\ order[o].status = "PENDING" /\ till[o] = NoLink
    /\ till' = [till EXCEPT ![o] = [state |-> "open",
                                    asked |-> Asked(order[o].provider, order[o].amount)]]
    /\ UNCHANGED <<rate, agreed, order, credited, callback, told, changes>>

\* The link of VNPay is signed here: nobody checks the signature before the member comes with it.
VnpayLink(o) == order[o] # None /\ order[o].provider = "VNPAY" /\ Linked(o)

\* The link of MoMo is what MoMo answers to a request it can verify.
MomoLink(o) == order[o] # None /\ order[o].provider = "MOMO" /\ agreed /\ Linked(o)

\* Not configured, refused or not answered: the attempt and its order fail.
LinkFails(o) ==
    /\ order[o].status = "PENDING" /\ till[o] = NoLink
    /\ order' = [order EXCEPT ![o].status = "FAILED"]
    /\ UNCHANGED <<rate, agreed, till, credited, callback, told, changes>>

-----------------------------------------------------------------------------
(* The gateway takes what it was asked for or another sum, or the member    *)
(* does not pay; a delivery says so in two codes, the second of which may   *)
(* be left out, and carries a number that is text, a number or absent.      *)

Verdicts == [code : {"00"}, state : {"00", "absent"}] \cup [code : {"00", "24"}, state : {"02"}]

Paid(o) == till[o].state = "paid"

\* What the gateway took, in VND.
Took(o) == IF order[o].provider = "VNPAY" THEN till[o].sum \div 100 ELSE till[o].sum

GatewayDecides(o, verdict, sum, number) ==
    /\ till[o].state = "open"
    /\ till' = [till EXCEPT ![o] =
          [state |-> IF verdict.state = "02" THEN "failed" ELSE "paid",
           asked |-> till[o].asked, sum |-> sum, verdict |-> verdict, number |-> number]]
    /\ UNCHANGED <<rate, agreed, order, credited, callback, told, changes>>

Decided(o) == till[o].state \in {"paid", "failed"}

-----------------------------------------------------------------------------
(* normalizeCallback.                                                       *)

\* Text only; VNPay has a fallback, the reference and the code.
EventKnown(o) == till[o].number = "text" \/ order[o].provider = "VNPAY"

\* Mutant: the amount is read as it stands.
AsReported(o) == till[o].sum

AmountVnd(o) == IF order[o].provider = "VNPAY" THEN till[o].sum \div 100 ELSE till[o].sum

\* Mutant: the second code is not looked at.
FirstCode(verdict) == verdict.code = "00"

\* VNPay needs both codes; the resultCode of MoMo is the outcome itself.
BothCodes(verdict) == verdict.code = "00" /\ verdict.state \in {"absent", "00"}

Success(o) == IF order[o].provider = "VNPAY" THEN BothCodes(till[o].verdict) ELSE Paid(o)

-----------------------------------------------------------------------------
(* What a delivery does and is answered.                                    *)

Tell(o, answer) == told' = [told EXCEPT ![o] = @ \cup {answer}]

\* Mutant: an order that is over counts as confirmed.
NotPending(status) == status # "PENDING"

\* "Order already confirmed"
Confirmed(status) == status = "PAID"

\* RspCode 00 or 02, or the view of the order.
View(status) == IF Confirmed(status) THEN "confirmed" ELSE "recorded"

\* The hash of the fields, with the secret of the gateway that sent them.
VnpaySigned(o) == order[o].provider = "VNPAY" /\ agreed
MomoSigned(o) == order[o].provider = "MOMO" /\ agreed
Signed(o) == VnpaySigned(o) \/ MomoSigned(o)

\* A MoMo delivery whose event has no id is refused as invalid.
Unreadable(o) ==
    /\ Decided(o) /\ ~EventKnown(o)
    /\ Tell(o, "invalid")
    /\ UNCHANGED <<rate, agreed, order, till, credited, callback, changes>>

\* The IPN answers RspCode 97; handleCallback keeps the delivery, as handled, without an order.
BadSignature(o) ==
    /\ Decided(o) /\ EventKnown(o) /\ ~Signed(o)
    /\ callback' = IF order[o].provider = "MOMO" /\ callback[o] = "none"
                   THEN [callback EXCEPT ![o] = "refused"] ELSE callback
    /\ Tell(o, "checksum")
    /\ UNCHANGED <<rate, agreed, order, till, credited, changes>>

Readable(o) == Decided(o) /\ EventKnown(o) /\ Signed(o)

\* The order of the row, and none for a row that has no order.
TopUpView(o) == IF callback[o] = "handled" THEN View(order[o].status) ELSE "missing"

\* A delivery points at its attempt, and that at its order.
Resolved(o) == order[o] # None

Replay(o) ==
    /\ Readable(o) /\ callback[o] # "none"
    /\ Tell(o, TopUpView(o))
    /\ UNCHANGED <<rate, agreed, order, till, credited, callback, changes>>

\* Mutant: the Coins are counted at the rate of the moment.
BecomesAtRate(o, status) ==
    /\ order' = [order EXCEPT ![o].status = status]
    /\ credited' = IF status = "PAID" THEN [credited EXCEPT ![o] = @ + order[o].amount \div rate]
                   ELSE credited

Becomes(o, status) ==
    /\ order' = [order EXCEPT ![o].status = status]
    /\ credited' = IF status = "PAID" THEN [credited EXCEPT ![o] = @ + order[o].coins] ELSE credited

\* The attempt the IPN of VNPay looks at before anything else.
Peeked(o) == order[o].provider = "VNPAY" /\ Confirmed(order[o].status)

\* The IPN of a paid order is answered before anything is kept of it.
Kept(o) == ~Peeked(o)

\* handleCallback, and what the IPN makes of its outcome.
Handle(o) ==
    /\ Readable(o) /\ callback[o] = "none" /\ Resolved(o)
    /\ callback' = IF Kept(o) THEN [callback EXCEPT ![o] = "handled"] ELSE callback
    /\ \/ /\ order[o].status # "PENDING"
          /\ Tell(o, View(order[o].status)) /\ UNCHANGED <<order, credited>>
       \/ /\ order[o].status = "PENDING" /\ ~Success(o)
          /\ Becomes(o, "FAILED") /\ Tell(o, "recorded")
       \/ /\ order[o].status = "PENDING" /\ Success(o) /\ AmountVnd(o) # order[o].amount
          /\ Becomes(o, "FAILED") /\ Tell(o, "amount")
       \/ /\ order[o].status = "PENDING" /\ Success(o) /\ AmountVnd(o) = order[o].amount
          /\ Becomes(o, "PAID") /\ Tell(o, "confirmed")
    /\ UNCHANGED <<rate, agreed, till, changes>>

\* reconcile: a pending order whose event was not handled; a wrong amount is thrown, and
\* rolled back.  The answer says its amount (TopUp has one that does not).
Reconciled(o) ==
    /\ order[o].status = "PENDING" /\ callback[o] # "handled"
    /\ AmountVnd(o) = order[o].amount
    /\ Becomes(o, "PAID")
    /\ UNCHANGED <<rate, agreed, till, callback, told, changes>>

\* querydr settles what both codes confirm.
VnpayQuery(o) ==
    /\ Decided(o) /\ order[o].provider = "VNPAY" /\ agreed
    /\ till[o].verdict = [code |-> "00", state |-> "00"]
    /\ Reconciled(o)

\* The status query of MoMo settles result code 0.
MomoQuery(o) ==
    /\ Paid(o) /\ order[o].provider = "MOMO" /\ agreed
    /\ Reconciled(o)

\* The browser comes back, or the member polls: the order is shown as it is, and nothing settles.
Shown(o) ==
    /\ Tell(o, View(order[o].status))
    /\ UNCHANGED <<rate, agreed, order, till, credited, callback, changes>>

\* The signature of the return trip is not looked at.
VnpayReturn(o) == till[o] # NoLink /\ order[o].provider = "VNPAY" /\ Shown(o)
MomoReturn(o) == till[o] # NoLink /\ order[o].provider = "MOMO" /\ Shown(o)
Poll(o) == order[o] # None /\ Shown(o)

Next ==
    \/ Configure
    \/ \E o \in Orders :
          \/ \E provider \in {"VNPAY", "MOMO"}, amount \in Amounts : Create(o, provider, amount)
          \/ VnpayLink(o) \/ MomoLink(o) \/ LinkFails(o)
          \/ \E verdict \in Verdicts, amount \in Amounts, number \in {"text", "number", "absent"} :
                order[o] # None /\ GatewayDecides(o, verdict, Asked(order[o].provider, amount), number)
          \/ Unreadable(o) \/ BadSignature(o) \/ Replay(o) \/ Handle(o) \/ VnpayQuery(o) \/ MomoQuery(o)
          \/ VnpayReturn(o) \/ MomoReturn(o) \/ Poll(o)

Spec == Init /\ [][Next]_vars

-----------------------------------------------------------------------------
(* An order is PAID only when the gateway took its amount, and its Coins    *)
(* cost at most what was paid at the rate it was quoted, however the rate,  *)
(* the units of the gateway and repeated deliveries and queries meet.       *)
PaidIsTaken == \A o \in Orders :
    /\ credited[o] > 0 => order[o].status = "PAID"
    /\ order[o].status = "PAID" =>
          Paid(o) /\ Took(o) = order[o].amount /\ credited[o] * order[o].rate <= Took(o)

(* A payment the gateway took as it was asked to never fails the order: the *)
(* unit of the link and the unit of the delivery are the same one.          *)
TakenIsNotFailed == \A o \in Orders :
    Paid(o) /\ till[o].sum = till[o].asked => order[o].status # "FAILED"

(* What the gateway and the member were told of an order is still so: a     *)
(* confirmation for a paid one, the wrong amount for one that failed on it. *)
AnswerIsTrue == \A o \in Orders :
    /\ "confirmed" \in told[o] => order[o].status = "PAID"
    /\ "amount" \in told[o] => order[o].status = "FAILED" /\ Took(o) # order[o].amount

(* PaymentCallbackRequestDto: the fields of VNPay "and MoMo IPN fields are  *)
(* accepted too and normalised to this shape".  The transaction id of a     *)
(* MoMo delivery is a number, which textOf does not read.                   *)
EveryDialectIsRead == \A o \in Orders : "invalid" \notin told[o]

(* "a repeated delivery answers with the same order".  One that was refused *)
(* while the secrets differed is answered with no order when it is repeated *)
(* after they agree again, and is not settled.                              *)
RepeatFindsTheOrder == \A o \in Orders : "missing" \notin told[o]

(* The order, the books of the gateway and what both were told agree.       *)
PaymentIsTrue == PaidIsTaken /\ TakenIsNotFailed /\ AnswerIsTrue

-----------------------------------------------------------------------------
(* What the proofs add to the properties.                                   *)

Order == [status : {"PENDING", "PAID", "FAILED"}, provider : {"VNPAY", "MOMO"},
          amount : Nat, rate : Nat \ {0}, coins : Nat]
Link == [state : {"open"}, asked : Nat]
Decision == [state : {"paid", "failed"}, asked : Nat, sum : Nat, verdict : Verdicts,
             number : {"text", "number", "absent"}]

TypeOK ==
    /\ rate \in Nat \ {0}
    /\ order \in [Orders -> {None} \cup Order]
    /\ till \in [Orders -> {NoLink} \cup Link \cup Decision]
    /\ credited \in [Orders -> Nat]
    /\ callback \in [Orders -> {"none", "handled", "refused"}]
    /\ told \in [Orders -> SUBSET {"invalid", "checksum", "confirmed", "recorded", "missing", "amount"}]

\* What was quoted costs no more than is paid, the link asks for it, and an order waits for its
\* link to be paid or not; the codes of a decision say which it was.
Sound(o) ==
    /\ order[o] = None => till[o] = NoLink
    /\ order[o] # None => order[o].coins * order[o].rate <= order[o].amount
    /\ till[o] # NoLink => till[o].asked = Asked(order[o].provider, order[o].amount)
    /\ till[o].state = "open" => order[o].status = "PENDING"
    /\ order[o].status = "PAID" => Paid(o) /\ Took(o) = order[o].amount
    /\ credited[o] = IF order[o].status = "PAID" THEN order[o].coins ELSE 0
    /\ Decided(o) => (Paid(o) <=> till[o].verdict.state # "02")

IInv == TypeOK /\ (\A o \in Orders : Sound(o)) /\ TakenIsNotFailed /\ AnswerIsTrue
=============================================================================
