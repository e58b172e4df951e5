------------------------------ MODULE LogReader ------------------------------
(***************************************************************************)
(* What it means to read a log without one's own messages.                 *)
(***************************************************************************)
EXTENDS Naturals, Sequences

(* q is what c is shown of the messages behind position from, up to        *)
(* position to: in log order exactly those that others wrote.  at[i] is    *)
(* the place of q[i] in the log.                                           *)
Reads(q, log, c, from, to) ==
  \E at \in [DOMAIN q -> { h \in from + 1 .. to : log[h].src # c }] :
    /\ \A i, j \in DOMAIN q : i < j => at[i] < at[j]
    /\ \A i \in DOMAIN q : q[i] = log[at[i]]
    /\ \A h \in from + 1 .. to : log[h].src # c => \E i \in DOMAIN q : at[i] = h
=============================================================================
