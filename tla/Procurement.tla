------------------------------ MODULE Procurement ------------------------------
(* Delta's procurement records (erp/, invoicing/): purchase orders, invoices    *)
(* against them, and payments.                                                  *)
(*                                                                              *)
(* A handler is one database transaction.  One whose decision is a single       *)
(* conditional UPDATE is one action.  create_invoice decides on a sum it read   *)
(* earlier and is split at its statements.                                      *)
EXTENDS Integers, FiniteSets, FiniteSetsExt

CONSTANTS
    Orders, Committed,      \* purchase orders and their amounts
    Invoices, OrderOf, Billed, \* invoices, the order each is for, its amount
    Payable,                \* amounts a payment may have
    Clerks,                 \* create_invoice calls in progress at once
    NoClerk, NotYet

\* An invoice bills something; no amount is negative.
ASSUME ProcurementAssumption ==
    /\ IsFiniteSet(Invoices) /\ OrderOf \in [Invoices -> Orders]
    /\ Billed \in [Invoices -> Nat \ {0}] /\ Committed \in [Orders -> Nat]
    /\ Payable \subseteq Nat /\ NoClerk \notin Clerks

VARIABLES
    orderStatus,    \* requested, approved, rejected
    invoiceStatus,  \* none, submitted, approved, disputed, partially_paid, paid
    amountPaid,     \* amountPaid[i]: invoices.amount_paid_minor_units
    paymentRows,    \* paymentRows[i]: total of i's rows in invoice_payments
    orderHeld,      \* the call that holds the order's row (FOR UPDATE)
    clerk           \* clerk[c]: where a create_invoice call is, and its sum

procurementVars ==
    <<orderStatus, invoiceStatus, amountPaid, paymentRows, orderHeld, clerk>>

IdleClerk == [at |-> "idle", invoice |-> NotYet, sum |-> 0]

ProcurementInit ==
    /\ orderStatus = [o \in Orders |-> "requested"]
    /\ invoiceStatus = [i \in Invoices |-> "none"]
    /\ amountPaid = [i \in Invoices |-> 0]
    /\ paymentRows = [i \in Invoices |-> 0]
    /\ orderHeld = [o \in Orders |-> NoClerk]
    /\ clerk = [c \in Clerks |-> IdleClerk]

NonDisputed == {"submitted", "approved", "partially_paid", "paid"}

\* sum_non_disputed_invoiced_for_po, over committed rows.
Invoiced(o) ==
    MapThenSumSet(LAMBDA i : Billed[i],
        {i \in Invoices : OrderOf[i] = o /\ invoiceStatus[i] \in NonDisputed})

-----------------------------------------------------------------------------
decide_purchase_order(o, verdict) ==
    /\ orderStatus[o] = "requested"
    /\ orderHeld[o] = NoClerk
    /\ orderStatus' = [orderStatus EXCEPT ![o] = verdict]
    /\ UNCHANGED <<invoiceStatus, amountPaid, paymentRows, orderHeld, clerk>>

MutReadWithoutLock(c, i) ==
    /\ clerk[c].at = "idle" /\ invoiceStatus[i] = "none"
    /\ orderStatus[OrderOf[i]] = "approved"
    /\ clerk' = [clerk EXCEPT ![c] = [at |-> "locked", invoice |-> i, sum |-> 0]]
    /\ UNCHANGED <<orderStatus, invoiceStatus, amountPaid, paymentRows, orderHeld>>

\* create_invoice: the order is read FOR UPDATE and must be approved (a refusal
\* rolls back and changes nothing).
get_purchase_order_summary_for_update(c, i) ==
    /\ clerk[c].at = "idle" /\ invoiceStatus[i] = "none"
    /\ orderHeld[OrderOf[i]] = NoClerk
    /\ orderStatus[OrderOf[i]] = "approved"
    /\ orderHeld' = [orderHeld EXCEPT ![OrderOf[i]] = c]
    /\ clerk' = [clerk EXCEPT ![c] = [at |-> "locked", invoice |-> i, sum |-> 0]]
    /\ UNCHANGED <<orderStatus, invoiceStatus, amountPaid, paymentRows>>

SumInvoices(c) ==
    /\ clerk[c].at = "locked"
    /\ clerk' = [clerk EXCEPT ![c].at = "summed",
                              ![c].sum = Invoiced(OrderOf[clerk[c].invoice])]
    /\ UNCHANGED <<orderStatus, invoiceStatus, amountPaid, paymentRows, orderHeld>>

\* The over-invoicing guard, the insert and the commit; a refusal or a failed
\* commit ends the call with nothing written.  invoice ids are fresh.
CommitInvoice(c) ==
    LET i == clerk[c].invoice
    IN  /\ clerk[c].at = "summed"
        /\ \/ /\ clerk[c].sum + Billed[i] <= Committed[OrderOf[i]]
              /\ invoiceStatus[i] = "none"
              /\ invoiceStatus' = [invoiceStatus EXCEPT ![i] = "submitted"]
           \/ UNCHANGED invoiceStatus
        /\ orderHeld' = [orderHeld EXCEPT ![OrderOf[i]] = NoClerk]
        /\ clerk' = [clerk EXCEPT ![c] = IdleClerk]
        /\ UNCHANGED <<orderStatus, amountPaid, paymentRows>>
    
decide_invoice(i, verdict) ==
    /\ invoiceStatus[i] = "submitted"
    /\ invoiceStatus' = [invoiceStatus EXCEPT ![i] = verdict]
    /\ UNCHANGED <<orderStatus, amountPaid, paymentRows, orderHeld, clerk>>

\* record_payment: the guarded increment and the payment row commit together.
record_payment(i, amount) ==
    /\ invoiceStatus[i] \in {"approved", "partially_paid"}
    /\ amountPaid[i] + amount <= Billed[i]
    /\ amountPaid' = [amountPaid EXCEPT ![i] = @ + amount]
    /\ invoiceStatus' = [invoiceStatus EXCEPT ![i] =
           IF amountPaid[i] + amount = Billed[i] THEN "paid" ELSE "partially_paid"]
    /\ paymentRows' = [paymentRows EXCEPT ![i] = @ + amount]
    /\ UNCHANGED <<orderStatus, orderHeld, clerk>>

ProcurementNext ==
    \/ \E o \in Orders, verdict \in {"approved", "rejected"} : decide_purchase_order(o, verdict)
    \/ \E c \in Clerks :
          \/ \E i \in Invoices : get_purchase_order_summary_for_update(c, i)
          \/ SumInvoices(c) \/ CommitInvoice(c)
    \/ \E i \in Invoices :
          \/ \E verdict \in {"approved", "disputed"} : decide_invoice(i, verdict)
          \/ \E amount \in Payable : record_payment(i, amount)

ProcurementSpec == ProcurementInit /\ [][ProcurementNext]_procurementVars

-----------------------------------------------------------------------------
\* Concurrent submissions never invoice more than the order commits to, whatever
\* was disputed in between (the row lock of create_invoice).
InvoicedWithinOrder ==
    \A o \in Orders : Invoiced(o) <= (IF orderStatus[o] = "approved" THEN Committed[o] ELSE 0)

\* The running total of an invoice is what its payment rows add up to, never more
\* than was billed, and "paid" means exactly paid (record_payment).
PaymentsAddUp ==
    \A i \in Invoices :
        /\ amountPaid[i] = paymentRows[i]
        /\ amountPaid[i] <= Billed[i]
        /\ invoiceStatus[i] = "paid" <=> amountPaid[i] = Billed[i]

\* No interleaving of submissions, decisions and payments puts the books of an order
\* out: both parts hold (create_invoice, decide_invoice, record_payment).
OrdersAddUp == InvoicedWithinOrder /\ PaymentsAddUp
=============================================================================
