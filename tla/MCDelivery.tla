----------------------------- MODULE MCDelivery -----------------------------
(* The instance TLC checks: one object with each combination of options     *)
(* that interacts, to a page or an agent, or two tasks for one terminal.     *)
EXTENDS Delivery, TLC

CONSTANTS o1, o2

Options(g, n, e) == [gated |-> g, once |-> n, expires |-> e]

Note    == Payload(Options(FALSE, TRUE, FALSE), FALSE, FALSE)
Secret  == Payload(Options(TRUE, TRUE, TRUE), FALSE, FALSE)
Gated   == Payload(Options(TRUE, TRUE, FALSE), TRUE, FALSE)
Lasting == Payload(Options(FALSE, FALSE, TRUE), TRUE, FALSE)
Command == Payload(Options(FALSE, FALSE, FALSE), FALSE, TRUE)
Asked   == Payload(Options(TRUE, TRUE, TRUE), FALSE, TRUE)

To(a, f) == [agent |-> a, opt |-> f]

MCScenario ==
  {To(FALSE, o1 :> p) : p \in {Note, Secret, Gated, Lasting}}
    \cup {To(TRUE, o1 :> Asked), To(TRUE, o1 :> Command @@ o2 :> Command)}
=============================================================================
