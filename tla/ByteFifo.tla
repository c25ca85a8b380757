------------------------------ MODULE ByteFifo ------------------------------
(* What the connections rely on of a Buffer: a bounded FIFO of bytes, from *)
(* which any number of bytes is taken at the front and to which any number *)
(* that fits is added at the back, unchanged and in order.                 *)
EXTENDS Naturals, Sequences

CONSTANTS Bytes, Capacity

VARIABLES content,    \* the bytes put in and not yet taken out
          put, got    \* what the last operation was given, what it handed out

vars == <<content, put, got>>

Init == content = <<>> /\ put = <<>> /\ got = <<>>

Put == \E n \in 0..Capacity - Len(content) : \E bytes \in [1..n -> Bytes] :
         content' = content \o bytes /\ put' = bytes /\ got' = <<>>

Take == \E n \in 0..Len(content) :
          /\ put' = <<>> /\ got' = SubSeq(content, 1, n)
          /\ content' = SubSeq(content, n + 1, Len(content))

Drop == \E n \in 0..Len(content) :
          /\ put' = <<>> /\ got' = <<>>
          /\ content' = SubSeq(content, n + 1, Len(content))

Look == \E i \in DOMAIN content :
          put' = <<>> /\ got' = <<content[i]>> /\ UNCHANGED content

Next == Put \/ Take \/ Drop \/ Look

Spec == Init /\ [][Next]_vars
=============================================================================
