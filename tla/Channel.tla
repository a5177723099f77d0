------------------------------ MODULE Channel -------------------------------
(***************************************************************************)
(* What a pipe between a child and its parent promises, without ends,      *)
(* lengths or bytes: the frames a child begins are numbered, and the       *)
(* parent receives complete frames one by one, in that order, none twice   *)
(* and none skipped, until the channel is cut.                             *)
(***************************************************************************)
EXTENDS Naturals

CONSTANTS Channels,
          Frames     \* the numbers a channel's frames may have

VARIABLES sent,      \* the numbers of the frames written completely, per channel
          received,  \* how many frames the parent has received
          cut        \* the channels the parent gets nothing from any more

vars == <<sent, received, cut>>

Init == /\ sent = [c \in Channels |-> {}]
        /\ received = [c \in Channels |-> 0]
        /\ cut = {}

Send(c, n) == /\ n \notin sent[c]
              /\ sent' = [sent EXCEPT ![c] = @ \cup {n}]
              /\ UNCHANGED <<received, cut>>

Receive(c) == /\ c \notin cut
              /\ received[c] + 1 \in sent[c]
              /\ received' = [received EXCEPT ![c] = @ + 1]
              /\ UNCHANGED <<sent, cut>>

Cut(C) == cut' = cut \cup C /\ UNCHANGED <<sent, received>>

Next == \/ \E c \in Channels : Receive(c) \/ \E n \in Frames : Send(c, n)
        \/ \E C \in SUBSET Channels : Cut(C)

Spec == Init /\ [][Next]_vars
=============================================================================
