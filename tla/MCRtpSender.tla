---------------------------- MODULE MCRtpSender -----------------------------
(* RtpSender with packets of a few bytes: six for the scan, three beside   *)
(* the tables. The lengths of the scans end before, at and after the end   *)
(* of a packet; the sequence numbers wrap.                                 *)
EXTENDS RtpSender

Full == <<"SOI", "APP0", "DQT0", "DQT1", "SOF", "DHT", "SOS">>
NoTables == <<"SOI", "DQT0", "SOF", "SOS">>
NoScan == <<"SOI", "DQT0", "DQT1">>
Unknown == <<"SOI", "other", "DQT0", "DQT1", "SOS">>

Picture(s, n) == [segments |-> s, scan |-> n, width |-> 800, height |-> 600]

MCPictures ==
    {Picture(Full, n) : n \in {0, 3, 4, 9, 10}}
      \cup {Picture(NoTables, n) : n \in {6, 7}}
      \cup {Picture(NoScan, 5), Picture(Unknown, 5)}
      \cup {[segments |-> Full, scan |-> 4, width |-> 2048, height |-> 1536]}
MCOpusPackets == {[length |-> 4], [length |-> 5]}
=============================================================================
