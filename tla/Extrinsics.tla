----------------------------- MODULE Extrinsics -----------------------------
(***************************************************************************)
(* What createExtrinsic stores for the extrinsics of a block: whether they *)
(* succeeded, the fee the node estimates and the fee that was used.  The   *)
(* fees of a signed extrinsic come from its events and from two calls to   *)
(* the node, either of which may fail.  Amounts are whole; a quotient is   *)
(* kept in units of which FeeUnit make a whole: 10^16 in the code, where   *)
(* the decimal library has 16 decimals.                                    *)
(***************************************************************************)
EXTENDS Integers, Sequences, FiniteSetsExt

CONSTANTS
    FeeBlocks,      \* blocks: sequences of extrinsics [signed, events]
    BasicFee,       \* base fee and length fee of an extrinsic
    WeightFees,     \* what the node may estimate for the weight
    Estimates,      \* weights the node may estimate
    FeeUnit

FeeEvent == [kind : STRING, weight : Nat, fee : Nat, tip : Nat]

ASSUME FeeAssumption ==
    /\ BasicFee \in Nat
    /\ WeightFees \subseteq Nat
    /\ Estimates \subseteq Nat
    /\ FeeUnit \in Nat \ {0}
    /\ FeeBlocks \subseteq Seq([signed : BOOLEAN, events : Seq(FeeEvent)])

VARIABLES
    feeBlock,       \* the block under way
    extrinsicRows,  \* the rows of its extrinsics so far
    answers         \* history: what the node answered about each

feeVars == <<feeBlock, extrinsicRows, answers>>

\* A dispatch event tells the weight; the event of the payment the fee and the tip.
Dispatched(kind, w)   == [kind |-> kind, weight |-> w, fee |-> 0, tip |-> 0]
TransactionFeePaid(f, t) == [kind |-> "TransactionFeePaid", weight |-> 0, fee |-> f, tip |-> t]

\* The places of the events of some kinds.
PlacesOf(events, kinds) == {i \in DOMAIN events : events[i].kind \in kinds}

\* The last of the events counts; a fee of -1 is no event of a payment.
CheckoutWeight(events) ==
    LET dispatch == PlacesOf(events, {"ExtrinsicSuccess", "ExtrinsicFailed"})
        paid     == PlacesOf(events, {"TransactionFeePaid"})
    IN  [weight |-> IF dispatch = {} THEN 0 ELSE events[Max(dispatch)].weight,
         fee    |-> IF paid = {} THEN -1 ELSE events[Max(paid)].fee - events[Max(paid)].tip]

\* No event has both names: the loop passes over every event of the system module.
getExtrinsicSuccess(events) ==
    \A i \in PlacesOf(events, {"ExtrinsicSuccess"}) \cap PlacesOf(events, {"ExtrinsicFailed"}) :
        events[i].kind = "ExtrinsicSuccess"

\* x / y, rounded to units.
Div(x, y) == (2 * (x * FeeUnit) + y) \div (2 * y)

ActualFee(details, estimate, actual) ==
    IF estimate = 0 \/ actual = 0 THEN 0
    ELSE BasicFee + (Div(details.weightFee, estimate) * actual) \div FeeUnit

EstimateFee(details) == BasicFee + details.weightFee

\* A failed call of the fee details and an extrinsic that pays nothing have none.
NoDetails  == [ok |-> FALSE, weightFee |-> 0]
FeeDetails == {NoDetails} \cup [ok : {TRUE}, weightFee : WeightFees]

NoInfo       == [ok |-> FALSE, weight |-> 0, partial |-> 0]
PaymentInfos == {NoInfo} \cup [ok : {TRUE}, weight : Estimates \cup {0}, partial : {BasicFee + f : f \in WeightFees}]

Answers == [details : FeeDetails, info : PaymentInfos]

\* Both calls are answered out of one state of the chain.
Consistent(a) == a.details.ok /\ a.info.ok => a.info.partial = EstimateFee(a.details)

Fees(fee, used) == [fee |-> fee, used |-> used]

\* Mutant: a fee that an event tells is computed again.
GetExtrinsicFeeAgain(weight, byEvent, a) ==
    IF ~a.details.ok \/ ~a.info.ok THEN Fees(0, 0)
    ELSE Fees(EstimateFee(a.details), ActualFee(a.details, a.info.weight, weight))

\* The error of the fee details is overwritten by the call that follows; without
\* that call a missing answer leaves both fees 0.
GetExtrinsicFee(weight, byEvent, a) ==
    LET computed == IF byEvent > 0 THEN byEvent ELSE ActualFee(a.details, a.info.weight, weight)
    IN  CASE byEvent <= 0 /\ ~a.info.ok                                    -> Fees(0, byEvent)
          [] byEvent <= 0 /\ a.info.ok /\ a.info.weight = 0                 -> Fees(0, 0)
          [] byEvent = 0 /\ a.info.ok /\ a.info.weight > 0                  -> Fees(a.info.partial, 0)
          [] byEvent < 0 /\ a.info.ok /\ a.info.weight > 0 /\ weight = a.info.weight ->
               Fees(a.info.partial, a.info.partial)
          [] OTHER -> IF a.details.ok THEN Fees(EstimateFee(a.details), computed) ELSE Fees(0, 0)

Extrinsic(e, a) ==
    LET told == CheckoutWeight(e.events)
        fees == IF e.signed THEN GetExtrinsicFee(told.weight, told.fee, a) ELSE Fees(0, 0)
    IN  [success |-> getExtrinsicSuccess(e.events), fee |-> fees.fee, used |-> fees.used]

FeesInit == feeBlock \in FeeBlocks /\ extrinsicRows = <<>> /\ answers = <<>>

\* One round of the loop.  An error is logged and the extrinsic stored all the same.
createExtrinsic ==
    /\ Len(extrinsicRows) < Len(feeBlock)
    /\ \E a \in Answers :
         /\ Consistent(a)
         /\ extrinsicRows' = Append(extrinsicRows, Extrinsic(feeBlock[Len(extrinsicRows) + 1], a))
         /\ answers' = Append(answers, a)
    /\ UNCHANGED feeBlock

FeesNext == createExtrinsic

FeesSpec == FeesInit /\ [][FeesNext]_feeVars

-----------------------------------------------------------------------------
\* A signed extrinsic whose events tell a weight and a fee, and its row.
RowExact(told, a, row) ==
    LET exact == BasicFee + (a.details.weightFee * told.weight) \div a.info.weight
    IN  /\ told.fee > 0 => IF a.details.ok THEN row.used = told.fee ELSE row.fee = 0 /\ row.used = 0
        /\ told.fee <= 0 /\ ~a.info.ok => row.fee = 0 /\ row.used = told.fee
        /\ told.weight < 2 * FeeUnit /\ told.fee < 0 =>
             /\ a.info.ok /\ a.info.weight > 0 /\ a.details.ok /\ told.weight > 0 =>
                  row.used \in exact - 1 .. exact + 1
             /\ told.weight <= a.info.weight => row.used <= row.fee

\* The used fee that is stored is the one the chain took: what the event says, or
\* nothing when the node gave no details; without an event, the share of the
\* estimate that the weight used is of the weight estimated, 1 more or 1 less for
\* the rounded quotient (fee.go), and never more than the estimate for a weight
\* within it; -1 when the node did not answer.  Half a unit of the quotient times
\* the weight used must be less than a whole, or the rounding spoils more than that:
\* a weight of 2 * 10^16, far above the limit of a block.
FeesExact ==
    \A i \in DOMAIN extrinsicRows :
        feeBlock[i].signed => RowExact(CheckoutWeight(feeBlock[i].events), answers[i], extrinsicRows[i])
=============================================================================
