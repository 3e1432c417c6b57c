----------------------------- MODULE MCArenaPool -----------------------------
(* ArenaPool for TLC. *)
EXTENDS ArenaPool

Conf(use, platform, layers, size) ==
  [use |-> use, platform |-> platform, layers |-> layers, size |-> size, meta |-> 1,
   page |-> Page, hp |-> HugePage, nodes |-> {0}, addr |-> 0, cap |-> 1,
   faults |-> 2, calls |-> 1, held |-> 2]

(* Many ways to fail and few allocations, or the other way round. *)
Pool(platform, layers, size) == Conf("pool", platform, layers, size)

Busy(platform, layers, size) ==
  [Pool(platform, layers, size) EXCEPT !.faults = 1, !.calls = 3, !.held = 1]

Direct(platform, layers, size) ==
  [Conf("direct", platform, layers, size) EXCEPT !.faults = 1, !.calls = 3, !.held = 1]

C(size, addr) == [Busy("linux", <<"static">>, size) EXCEPT !.use = "c", !.addr = addr]

(* Every backing under a pool or by itself; the two stacks of the crate's  *)
(* HardenedSlab and CryptoSlab; and one for each way construction is       *)
(* refused.                                                                *)
MCConfs ==
  { [Pool("windows", <<"lazy">>, 3) EXCEPT !.cap = 2], Pool("linux", <<"locked">>, 3),
    Pool("windows", <<"lazy", "hpaligned">>, 10), Pool("linux", <<"mmap", "split", "guard">>, 6),
    Pool("windows", <<"lazy", "guard">>, 6), Pool("linux", <<"locked", "split", "guard">>, 6),
    Pool("linux", <<"mmap", "numa">>, 4), Pool("unix", <<"mmap", "numa">>, 4),
    Pool("linux", <<"huge">>, 3), Pool("linux", <<"heap">>, 3),
    Busy("windows", <<"lazy">>, 4), [Busy("windows", <<"lazy">>, 5) EXCEPT !.cap = 0],
    [Busy("linux", <<"mmap", "guard">>, 9) EXCEPT !.calls = 2],
    Direct("windows", <<"lazy", "numa">>, 6), Direct("windows", <<"mmap", "guard">>, 8),
    Direct("linux", <<"mmap", "hpaligned">>, 12), Direct("windows", <<"huge">>, 8),
    [Direct("linux", <<"inline">>, 6) EXCEPT !.addr = 50],
    [Direct("macos", <<"huge">>, 3) EXCEPT !.hp = 2], [Pool("linux", <<"huge">>, 4) EXCEPT !.hp = 1],
    C(6, 51), C(6, 0), C(0, 50), C(101, 50), C(6, 195),
    Pool("linux", <<"mmap">>, 0), Pool("linux", <<"mmap">>, 200), Pool("linux", <<"heap">>, 0),
    Pool("linux", <<"huge">>, 198), Pool("unix", <<"huge">>, 4), Pool("linux", <<"mmap", "guard">>, 4),
    [Pool("linux", <<"mmap", "guard">>, 10) EXCEPT !.page = 4],
    [Pool("linux", <<"mmap", "guard">>, 8) EXCEPT !.page = 3],
    [Pool("linux", <<"mmap", "numa">>, 4) EXCEPT !.nodes = {}],
    [Pool("linux", <<"mmap", "hpaligned">>, 4) EXCEPT !.hp = 1] }
=============================================================================
