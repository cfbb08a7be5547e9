--------------------------- MODULE MessageStream ---------------------------
(***************************************************************************)
(* What a message protocol on top of CAN promises to its users: on every   *)
(* stream the messages that arrive are the ones that were sent, unchanged, *)
(* in the order of sending and none of them twice.  A lossy service may    *)
(* leave messages out; a reliable one delivers them all.                   *)
(***************************************************************************)
EXTENDS Naturals, Sequences

CONSTANTS
  Streams,   \* who talks to whom
  Messages,  \* what can be sent
  Lossy      \* TRUE: messages may be left out

VARIABLES
  sent,      \* sent[p]: the messages handed over for sending on stream p
  passed,    \* passed[p]: how many of them are delivered or left out
  got        \* got[p]: the messages delivered on stream p

vars == <<sent, passed, got>>

Init ==
  /\ sent = [p \in Streams |-> <<>>]
  /\ passed = [p \in Streams |-> 0]
  /\ got = [p \in Streams |-> <<>>]

Send(p) ==
  /\ \E m \in Messages : sent' = [sent EXCEPT ![p] = Append(@, m)]
  /\ UNCHANGED <<passed, got>>

Deliver(p) ==
  \E k \in passed[p] + 1 .. Len(sent[p]) :
    /\ Lossy \/ k = passed[p] + 1
    /\ passed' = [passed EXCEPT ![p] = k]
    /\ got' = [got EXCEPT ![p] = Append(@, sent[p][k])]
    /\ UNCHANGED sent

Next == \E p \in Streams : Send(p) \/ Deliver(p)

Spec == Init /\ [][Next]_vars

FairSpec == Spec /\ \A p \in Streams : WF_vars(Deliver(p))
=============================================================================
