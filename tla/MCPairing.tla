------------------------------ MODULE MCPairing ------------------------------
(* Pairing with a camera that sees up to four networks, of which three fit. *)
EXTENDS Pairing

HomeSsid == <<4, 7>>
Net(tail, chan) == [ssid |-> <<4, tail>>, channel |-> chan]

\* No network; a network with two access points; only others; listings that
\* are cut, with the network sought in every place.
SomeScans ==
    {<<>>,
     <<Net(2, 1), Net(7, 6), Net(7, 11)>>,
     <<Net(2, 1), Net(7, 9)>>,
     <<Net(2, 1)>>,
     <<Net(7, 1), Net(7, 6), Net(2, 11), Net(7, 3)>>,
     <<Net(7, 1), Net(2, 6), Net(7, 11), Net(7, 3)>>,
     <<Net(7, 1), Net(2, 6), Net(2, 11), Net(7, 3)>>}
=============================================================================
