------------------------- MODULE PaymentPromise -------------------------
(***************************************************************************)
(* What paying a bill promises the member, whatever the bot, the web form, *)
(* the database and the network do in between: an intention turns into at  *)
(* most one payment at a time, and one that was given up never does.       *)
(***************************************************************************)
CONSTANTS Intentions, Ids

VARIABLES
  payments,  \* recorded payments, each with the intention it came from
  released   \* intentions given up: cancelled, expired or replaced

promiseVars == <<payments, released>>

Unpaid(d) == \A p \in payments : p.id # d

Init == payments = {} /\ released = {}

Pay(d, i) ==
  /\ d \notin released
  /\ Unpaid(d)
  /\ payments' = payments \cup {[rid |-> i, id |-> d]}
  /\ UNCHANGED released

Undo(p) ==
  /\ payments' = payments \ {p}
  /\ UNCHANGED released

Release(d) ==
  /\ Unpaid(d)
  /\ released' = released \cup {d}
  /\ UNCHANGED payments

Next == \/ \E d \in Intentions, i \in Ids : Pay(d, i)
        \/ \E p \in payments : Undo(p)
        \/ \E d \in Intentions : Release(d)

Spec == Init /\ [][Next]_promiseVars
=============================================================================
