---------------------------- MODULE MCInterface ----------------------------
(***************************************************************************)
(* Events and streams that break meet mounting, connecting and              *)
(* disconnecting; operations on sessions and rules meet each other and the  *)
(* loss of the connection over a quiet stream, two of them when one fails.  *)
(* The editor is open, and identifiers of rules are chosen, among operations *)
(* on sessions and rules that do not fail.                                  *)
(***************************************************************************)
EXTENDS Interface

Apart ==
  /\ (count > 0 \/ breaks > 0 \/ ~hubOpen \/ cleared) =>
       \A o \in Ops : op[o].kind \notin Guarded /\ (o > 1 => op[o] = Unstarted)
  /\ lost > 0 => \A o \in Ops : o > 2 => op[o] = Unstarted
  /\ (editing.open \/ chosen # {}) =>
       /\ lost = 0
       /\ \A o \in Ops : op[o].kind \notin {"connect", "disconnect", "run", "load", "raw"}
=============================================================================
