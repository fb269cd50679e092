-------------------------------- MODULE Fifo --------------------------------
(***************************************************************************)
(* What a ring buffer promises: it is a sequence.  What is put goes to its *)
(* end, as far as the call says that it went in; what is got comes from    *)
(* its front; nothing else changes it but to empty it.                     *)
(***************************************************************************)
EXTENDS Integers, Sequences

CONSTANT NoCall

VARIABLES q,    \* the sequence
          io    \* the last call: its name, the bytes it took in and gave out, its result

Init == q = << >> /\ io = NoCall

Put == io'.call \in {"put", "putStr"} /\ io'.rc \in 0 .. Len(io'.in)
       /\ q' = q \o SubSeq(io'.in, 1, io'.rc)
Insert == io'.call = "insert" /\ q' = (IF io'.rc = 0 THEN io'.in ELSE << >>) \o q
Get == io'.call = "get" /\ Len(io'.out) = io'.rc /\ q = io'.out \o q'
Keep == io'.call = "keep" /\ q' = q
Clear == io'.call \in {"create", "flush", "free"} /\ q' = << >>

Next == Put \/ Insert \/ Get \/ Keep \/ Clear
Spec == Init /\ [][Next]_<<q, io>>
=============================================================================
