----------------------------- MODULE MCDashboard -----------------------------
(* Every page with two elements; the two routes share their destination.   *)
EXTENDS Dashboard, TLC

CONSTANTS i1, i2, g1, g2, g3, free, basic

MCSourceOf == (i1 :> g1) @@ (i2 :> g2)
MCDestinationOf == [i \in Item |-> g3]

(* One group fills the limit of destinations; the source may be too many. *)
MCLimits ==
  [p \in Plan |-> [sessions |-> IF p = basic THEN 2 ELSE 1,
                  sources |-> IF p = basic THEN 2 ELSE 1, destinations |-> 1]]

Bounds(open, click, edit, fail, change) ==
  [open |-> open, click |-> click, edit |-> edit, fail |-> fail, change |-> change]

(* Two handlers at once, or a page opened again, or a failure; the page of  *)
(* the sessions polls meanwhile.                                            *)
MCBudgets ==
  [p \in Page |->
     CASE p = "whatsapp" ->
            {Bounds(0, 2, 0, 0, 0), Bounds(0, 1, 0, 1, 2), Bounds(1, 1, 0, 0, 0)}
       [] p = "routes" ->
            {Bounds(0, 4, 0, 0, 0), Bounds(0, 3, 0, 0, 1), Bounds(0, 2, 0, 1, 1),
             Bounds(1, 1, 0, 1, 1)}
       [] p = "referrals" ->
            {Bounds(0, 3, 0, 0, 1), Bounds(0, 2, 0, 1, 1), Bounds(1, 1, 0, 1, 1)}
       [] p \in Forms -> {Bounds(0, 2, 1, 1, 1), Bounds(1, 1, 1, 1, 1)}
       [] OTHER -> {Bounds(1, 1, 0, 1, 1), Bounds(0, 2, 0, 1, 2)}]
=============================================================================
