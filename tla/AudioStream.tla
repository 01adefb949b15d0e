----------------------------- MODULE AudioStream ----------------------------
(***************************************************************************)
(* What the receiver of the audio stream may rely on: packets of always    *)
(* the same number of frames, each frame later than the one before it,     *)
(* within a packet and from packet to packet, and the time of a packet     *)
(* that of its first frame. Frames may be missing, anywhere.               *)
(***************************************************************************)
EXTENDS Integers, Sequences

CONSTANT Combined  \* frames in a packet, at least one

VARIABLE sent  \* the packets, in order

LastFrame == IF sent = <<>> THEN 0 ELSE sent[Len(sent)].frames[Combined]

Packet(p) == /\ Len(p.frames) = Combined
             /\ p.frames[1] > LastFrame
             /\ \A i \in 1..Combined - 1 : p.frames[i] < p.frames[i + 1]
             /\ p.time = p.frames[1]
             /\ sent' = Append(sent, p)

Init == sent = <<>>
Next == Len(sent') = Len(sent) + 1 /\ Packet(sent'[Len(sent')])
Spec == Init /\ [][Next]_sent
=============================================================================
