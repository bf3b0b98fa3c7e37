----------------------------- MODULE MCRtpSender -----------------------------
(* Packets of up to two octets, three sequence numbers, two timestamps. *)
EXTENDS RtpSender, TLC

Shot(tables, segments, sof0, sos, scan) ==
    [header |-> 1, tables |-> tables, segments |-> segments, sof0 |-> sof0,
     sos |-> sos, scan |-> scan]

\* A last packet that is full, one that is not, no tables, and two of them in
\* one segment; an empty picture; headers cut before and behind the SOS.
SomeJpegs ==
    {Shot(2, 2, TRUE, "whole", 4), Shot(2, 1, TRUE, "whole", 3),
     Shot(0, 0, TRUE, "whole", 1),
     Shot(1, 1, TRUE, "whole", 0), Shot(1, 1, FALSE, "missing", 0),
     Shot(1, 1, FALSE, "cut", 0)}
Symmetric == Permutations(Client)
=============================================================================
