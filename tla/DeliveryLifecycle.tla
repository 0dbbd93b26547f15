-------------------------- MODULE DeliveryLifecycle --------------------------
(***************************************************************************)
(* What the dispatcher promises about orders, with no roads, no routes and  *)
(* no queue: an order only moves forward through its lifecycle              *)
(* (domain/order.go), its outcome is final, the driver it is given is never *)
(* exchanged for another, and no driver works on two orders at once.  One   *)
(* step may advance many orders, as one tick does.                          *)
(***************************************************************************)
EXTENDS Integers, Sequences

CONSTANTS Courier, NoCourier

VARIABLES stage,    \* stage[o]: status of the o-th order
          carrier   \* carrier[o]: the driver it was given

vars == <<stage, carrier>>

Stage == {"pending", "assigned", "en_route", "delivered", "unassignable"}

\* The stages an order may have reached when it was last seen in stage s.
Later(s) ==
  CASE s = "pending"      -> Stage
    [] s = "assigned"     -> Stage \ {"pending"}
    [] s = "en_route"     -> {"en_route", "delivered", "unassignable"}
    [] s = "delivered"    -> {"delivered"}
    [] s = "unassignable" -> {"unassignable"}

InProgress(o) == stage[o] \in {"assigned", "en_route"}

\* A driver works on one order at a time.
Exclusive ==
  \A o, p \in DOMAIN stage : InProgress(o) /\ InProgress(p) /\ carrier[o] = carrier[p] => o = p

\* Work cannot be under way, or done, without somebody to do it.
Carried ==
  \A o \in DOMAIN stage : /\ stage[o] = "pending" => carrier[o] = NoCourier
                          /\ stage[o] \in {"assigned", "en_route", "delivered"}
                               => carrier[o] \in Courier

Init == stage = <<>> /\ carrier = <<>>

\* At most one order is placed, any number advance.
Advance ==
  /\ stage' \in Seq(Stage)
  /\ Len(stage') \in {Len(stage), Len(stage) + 1}
  /\ carrier' \in Seq(Courier \union {NoCourier})
  /\ Len(carrier') = Len(stage')
  /\ \A o \in DOMAIN stage : /\ stage'[o] \in Later(stage[o])
                             /\ stage[o] # "pending" => carrier'[o] = carrier[o]
  /\ \A o \in DOMAIN stage' \ DOMAIN stage : stage'[o] # "delivered"
  /\ Exclusive'
  /\ Carried'

Clear == stage' = <<>> /\ carrier' = <<>>

Next == Advance \/ Clear

Spec == Init /\ [][Next]_vars

=============================================================================
