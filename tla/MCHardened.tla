------------------------------ MODULE MCHardened ------------------------------
(* Hardened for TLC: the compositions the documentation recommends, and   *)
(* the same layers the other way round.                                   *)
EXTENDS Hardened

Layout(size, align) == [size |-> size, align |-> align]

Requests == {Layout(1, 1), Layout(2, 1), Layout(1, 2)}

Stack(layers, epochs, frees, strays) ==
  [layers |-> layers, epochs |-> epochs, requests |-> Requests,
   frees |-> frees, strays |-> strays]

(* Many frees need no variety of layouts. *)
Quarantined(layers, epochs, frees, strays) ==
  [Stack(layers, epochs, frees, strays) EXCEPT !.requests = {Layout(1, 1), Layout(2, 1)}]

MCStacks ==
  { Stack(<<"poison", "quarantine">>, 3, 6, 0),
    Quarantined(<<"zeroize", "quarantine">>, 2, 5, 0),
    Quarantined(<<"quarantine", "canary", "zeroize">>, 1, 2, 1),
    Stack(<<"poison", "canary">>, 1, 3, 1),
    Stack(<<"canary", "poison", "jitter">>, 1, 2, 1),
    Stack(<<"jitter", "canary">>, 1, 1, 1) }
=============================================================================
