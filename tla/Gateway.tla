------------------------------- MODULE Gateway -------------------------------
(***************************************************************************)
(* Payments of one service request through iPay88: the checkout page handed*)
(* to the customer for a purpose, the transactions he starts there, and    *)
(* what PaymentService and PaymentGatewayResponseRepository make of the    *)
(* answers.  The customer's browser brings an answer (payment.controller), *)
(* iPay88 itself sends another (webhook.controller): once, twice, in any   *)
(* order, or only one of them.                                             *)
(*                                                                         *)
(* RefNo, split at its delimiter, names the request and Xfield1 the        *)
(* purpose, so that the fee and the surcharge of one request share their   *)
(* reference.  Amount, currency and signature go out with the page; no     *)
(* handler compares them with what comes back, and they are left out here, *)
(* as is the row that keeps each webhook: nothing reads it.                *)
(***************************************************************************)
EXTENDS Naturals, Sequences

CONSTANT MaxAnswers       \* bound on the answers received

ASSUME GatewayAssumption == MaxAnswers \in Nat

VARIABLES pages,          \* the purposes a checkout page was handed out for
          responses,      \* payment_gateway_responses, by time of creation
          answers         \* how many answers came, for the bound

gateway == <<pages, responses, answers>>

Purpose         == {"FEE", "EC_RESCHEDULE_SURCHARGE"}
AnswerStatus    == {"FAILED", "SUCCEEDED"}
GatewayResponse == [purpose : Purpose, status : AnswerStatus]

GatewayTypeOK ==
  /\ pages \subseteq Purpose
  /\ responses \in Seq(GatewayResponse)
  /\ answers \in Nat

GatewayInit == pages = {"FEE"} /\ responses = <<>> /\ answers = 0

\* PaymentRequest: the form that the customer's browser posts to iPay88.
HandOut(purpose) == pages' = pages \cup {purpose}

History(purpose)  == {i \in DOMAIN responses : responses[i].purpose = purpose}
Received(purpose) == \E i \in History(purpose) : responses[i].status = "SUCCEEDED"

\* Wrong: the oldest response of the history.
OldestResponse(purpose) ==
  CHOOSE i \in History(purpose) : \A j \in History(purpose) : i <= j

\* lookupCustomerPaymentGatewayResponseHistoryOfServiceRequest, mostRecentResponse
MostRecentResponse(purpose) ==
  CHOOSE i \in History(purpose) : \A j \in History(purpose) : j <= i

Answered == answers < MaxAnswers /\ answers' = answers + 1

\* insertIfNotExist: the first answer to a transaction started at a page.
Insert(purpose, status) ==
  /\ purpose \in pages
  /\ Answered
  /\ responses' = Append(responses, [purpose |-> purpose, status |-> status])

\* (transaction, reference, principal group) is unique: a second answer fails to
\* be inserted.  From the browser it is dismissed and nothing changes.  From the
\* webhook it overrides: the row takes the new status and keeps its time of
\* creation.  iPay88 never takes a success back.
Overwrite(i, status) ==
  /\ responses[i].status = "SUCCEEDED" => status = "SUCCEEDED"
  /\ Answered
  /\ responses' = [responses EXCEPT ![i].status = status]
==============================================================================
