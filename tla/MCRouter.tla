------------------------------- MODULE MCRouter -------------------------------
(* Router for TLC. *)
EXTENDS Router

Build(pbase, pcap, sbase, scap, sizes, slots, calls) ==
  [pbase |-> pbase, pcap |-> pcap, sbase |-> sbase, scap |-> scap,
   sizes |-> sizes, slots |-> slots, calls |-> calls]

Refused(pbase, pcap, sbase, scap, sizes, slots) ==
  Build(pbase, pcap, sbase, scap, sizes, slots, 0)

(* Three that are built, the primary below the secondary and touching it,   *)
(* or above it, one with a class past the lookup table; and one for each way*)
(* construction is refused.                                                 *)
MCBuilds ==
  { Build(11, 1, 12, 8, <<1, 2>>, 2, 4),
    Build(10, 2, 12, 9, <<1, 2>>, 2, 3),
    Build(28, 3, 10, 18, <<2, 4>>, 2, 3),
    Refused(9, 3, 12, 9, <<1, 2, 4>>, 2),
    Refused(9, 3, 12, 20, <<1, 2, 4>>, 2),
    Refused(9, 3, 12, 9, <<2, 1>>, 2),
    Refused(9, 3, 12, 9, <<1, 3>>, 2),
    Refused(9, 3, 12, 9, <<1, 2>>, 0),
    Refused(9, 0, 12, 9, <<1, 2>>, 2) }
=============================================================================
