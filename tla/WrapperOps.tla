------------------------------ MODULE WrapperOps ------------------------------
(***************************************************************************)
(* The arithmetic of a stack of wrappers (hardening/{canary,poison,        *)
(* zeroize,cache_jitter,quarantine}.rs) around the slots of an allocator:  *)
(* the layout each layer passes on, the pointer it returns, the words it   *)
(* writes around a block and the size it reports.  Memory is an array of   *)
(* cells of 8 bytes, the size of a canary, of a jitter header and of a     *)
(* free-list link; sizes, alignments and the cache line are in cells.      *)
(***************************************************************************)
EXTENDS Integers, Sequences

CONSTANTS
  Slots,      \* number of slots of the allocator at the bottom
  Stride,     \* cells of a slot: its size, alignment and usable_size
  Line,       \* CacheJitter: cache_line_size
  Ways        \* CacheJitter: associativity

ASSUME WrapperAssumption ==
  /\ {Slots, Stride, Line, Ways} \subseteq Nat \ {0}
  /\ Line <= Stride => Stride % Line = 0      \* both are powers of two

Layers == {"quarantine", "canary", "poison", "zeroize", "jitter"}

Cells == 0..(Slots * Stride - 1)

(* What a cell can hold. *)
Zero == <<"zero", 0, 0>>
Poison == <<"poison", 0, 0>>
Canary == <<"canary", 0, 0>>
Link == <<"link", 0, 0>>
Junk == <<"junk", 0, 0>>
Header(ptr, disp) == <<"header", ptr, disp>>
Data(id) == <<"data", id, 0>>

Bigger(a, b) == IF a >= b THEN a ELSE b

Span(ptr, len) == ptr..(ptr + len - 1)

Fill(mem, cells, value) == [c \in Cells |-> IF c \in cells THEN value ELSE mem[c]]

HasLayer(stack, layer) == \E i \in DOMAIN stack : stack[i] = layer

LayerAt(stack, layer) == CHOOSE i \in DOMAIN stack : stack[i] = layer

SlotOf(ptr) == ptr \div Stride

SlotCells(slot) == Span(slot * Stride, Stride)

-----------------------------------------------------------------------------
(* Canary: pre_pad, and the layout with both words. *)
PrePad(align) == Bigger(1, align)

CanaryLayout(l) == [size |-> PrePad(l.align) + l.size + 1, align |-> Bigger(1, l.align)]

(* CacheJitter: jitter_prefix, and the layout with it; a layout whose      *)
(* alignment is above the line is passed through.                          *)
Jittered(l) == l.align <= Line

JitterPrefix == Line + (Ways - 1) * Line

JitterLayout(l) == IF Jittered(l) THEN [size |-> l.size + JitterPrefix, align |-> Line] ELSE l

InnerLayout(layer, l) == CASE layer = "canary" -> CanaryLayout(l)
                           [] layer = "jitter" -> JitterLayout(l)
                           [] OTHER -> l

(* The layout each layer receives when the outermost one receives l; the   *)
(* last is what the slots at the bottom are asked for.                     *)
LayoutsFor(stack, l) ==
  LET f[i \in 1..(Len(stack) + 1)] ==
        IF i = 1 THEN l ELSE InnerLayout(stack[i - 1], f[i - 1])
  IN f

Offset(layer, l, disp) == CASE layer = "canary" -> PrePad(l.align)
                            [] layer = "jitter" /\ Jittered(l) -> Line + disp
                            [] OTHER -> 0

(* The pointer each layer returns for a block in `slot`. *)
PointersFor(stack, slot, l, disp) ==
  LET lay == LayoutsFor(stack, l)
      f[i \in 1..(Len(stack) + 1)] ==
        IF i = Len(stack) + 1 THEN slot * Stride
        ELSE f[i + 1] + Offset(stack[i], lay[i], disp)
  IN f

(* usable_size of layer i: Canary and CacheJitter leave the default None,  *)
(* which is 0 here; the others forward, and the slots report their stride. *)
JitterWithholds(layer) == layer = "jitter"

Withholds(layer) == layer \in {"canary", "jitter"}

UsableSize(stack, i) ==
  IF \E j \in i..Len(stack) : Withholds(stack[j]) THEN 0 ELSE Stride

(* unwrap_or(layout.size()) *)
UsableOr(stack, i, size) ==
  IF UsableSize(stack, i) = 0 THEN size ELSE UsableSize(stack, i)

(* What layer i writes on the way back up of an allocate: the two words of *)
(* a canary, the header of a jittered block.                               *)
GuardsOf(stack, i, slot, l, disp) ==
  LET lay == LayoutsFor(stack, l)[i]
      ptr == PointersFor(stack, slot, l, disp)[i]
  IN CASE stack[i] = "canary" -> {<<ptr - 1, Canary>>, <<ptr + lay.size, Canary>>}
       [] stack[i] = "jitter" /\ Jittered(lay) -> {<<ptr - 1, Header(ptr, disp)>>}
       [] OTHER -> {}

Guards(stack, slot, l, disp) == UNION {GuardsOf(stack, i, slot, l, disp) : i \in DOMAIN stack}

GuardCells(stack, slot, l, disp) == {g[1] : g \in Guards(stack, slot, l, disp)}

WithGuards(mem, guards) ==
  [c \in Cells |-> IF \E g \in guards : g[1] = c
                   THEN (CHOOSE g \in guards : g[1] = c)[2] ELSE mem[c]]

(* Displacements CacheJitter may draw for this request. *)
Displacements(stack, l) ==
  IF /\ HasLayer(stack, "jitter")
     /\ Jittered(LayoutsFor(stack, l)[LayerAt(stack, "jitter")])
  THEN {k * Line : k \in 0..(Ways - 1)} ELSE {0}

Room(stack, l) ==
  LET base == LayoutsFor(stack, l)[Len(stack) + 1]
  IN base.size <= Stride /\ base.align <= Stride
=============================================================================
