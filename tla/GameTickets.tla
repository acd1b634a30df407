----------------------------- MODULE GameTickets -----------------------------
(***************************************************************************)
(* What the gaming pool promises to whoever enters a team, seen as a       *)
(* ticket: tickets are sold until the office closes, for good; after that  *)
(* each one is refunded at most once and its prize paid at most once.      *)
(***************************************************************************)
EXTENDS Naturals

CONSTANT Tickets

VARIABLES
  open,       \* tickets are sold
  sold,       \* tickets sold so far
  refunds,    \* how often each ticket was refunded
  prizes      \* how often each ticket's prize was paid

ticketVars == <<open, sold, refunds, prizes>>

TicketInit ==
  /\ open = TRUE
  /\ sold = {}
  /\ refunds = [t \in Tickets |-> 0]
  /\ prizes = [t \in Tickets |-> 0]

Sell(t) ==
  /\ open
  /\ t \notin sold
  /\ sold' = sold \cup {t}
  /\ UNCHANGED <<open, refunds, prizes>>

Close ==
  /\ open
  /\ open' = FALSE
  /\ UNCHANGED <<sold, refunds, prizes>>

Once(paid, ts) == [t \in Tickets |-> IF t \in ts THEN 1 ELSE paid[t]]

Refund(ts) ==
  /\ ~open
  /\ \A t \in ts : t \in sold /\ refunds[t] = 0
  /\ refunds' = Once(refunds, ts)
  /\ UNCHANGED <<open, sold, prizes>>

PayPrizes(ts) ==
  /\ ~open
  /\ \A t \in ts : t \in sold /\ prizes[t] = 0
  /\ prizes' = Once(prizes, ts)
  /\ UNCHANGED <<open, sold, refunds>>

TicketNext ==
  \/ \E t \in Tickets : Sell(t)
  \/ Close
  \/ \E ts \in SUBSET Tickets : Refund(ts) \/ PayPrizes(ts)

TicketSpec == TicketInit /\ [][TicketNext]_ticketVars
=============================================================================
