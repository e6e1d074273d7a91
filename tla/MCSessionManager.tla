-------------------------- MODULE MCSessionManager --------------------------
EXTENDS SessionManager

CONSTANTS p1, p2

(* What may come together in one behaviour: everything but a lapse under a  *)
(* live process, and a lapse with one handler suspended at a time.          *)
MCScenarios ==
  {[comes |-> {"reconnect", "delete", "dbError", "crash"}, tasks |-> 2],
   [comes |-> {"lapse", "dbError", "crash"}, tasks |-> 1]}

(* Only what the socket reports, for the shortest counterexamples. *)
MCQuiet == {[comes |-> {}, tasks |-> 2]}
=============================================================================
