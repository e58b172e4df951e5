----------------------------- MODULE SeqNoTraces -----------------------------
(***************************************************************************)
(* What the observers of a chat see of it, whichever application runs it:  *)
(* LatestSeqNoTrace fires when an application generates a message, and     *)
(* SeqNoTrace fires when an application generates or receives one.  The    *)
(* observers overwrite the number they have with the number they get, so   *)
(* they rely on the numbers of one sender never going down at an           *)
(* application and never running ahead of the sender.                      *)
(***************************************************************************)
EXTENDS Naturals

CONSTANT App   \* the chat applications

VARIABLES
  latest,  \* latest[p]: one more than the last number p generated, or 0
  seen     \* seen[n][p]: one more than the last number of p fired at n, or 0

traceVars == << latest, seen >>

TracesInit ==
  /\ latest = [p \in App |-> 0]
  /\ seen = [n \in App |-> [p \in App |-> 0]]

(* An application generates its next message and reports it to itself.     *)
Generate(p) ==
  /\ latest' = [latest EXCEPT ![p] = @ + 1]
  /\ seen' = [seen EXCEPT ![p][p] = latest[p] + 1]

(* An application receives messages of others.                             *)
Receive(n) ==
  /\ \A m \in App \ {n} : seen'[m] = seen[m]
  /\ seen'[n][n] = seen[n][n]
  /\ \A p \in App : seen[n][p] <= seen'[n][p] /\ seen'[n][p] <= latest[p]
  /\ UNCHANGED latest

TracesNext == \E n \in App : Generate(n) \/ Receive(n)

TracesSpec == TracesInit /\ [][TracesNext]_traceVars
=============================================================================
