------------------------------- MODULE MCCard -------------------------------
(***************************************************************************)
(* Card with two amdgpu cards that come and go, one of them before its     *)
(* driver is up or with render nodes that are counted differently.         *)
(***************************************************************************)
EXTENDS Card

CONSTANTS a, b

MCIdx == 0 .. 1
Numbered(c0, c1, r0, r1, ha) ==
  [card |-> [i \in MCIdx |-> IF i = 0 THEN c0 ELSE c1],
   render |-> [i \in MCIdx |-> IF i = 0 THEN r0 ELSE r1],
   hwmon |-> [c \in {a, b} |-> IF c = a THEN ha ELSE 2]]

MCMachines == {Numbered(a, None, a, None, 1),
               Numbered(a, None, a, None, None),
               Numbered(a, b, a, b, 1),
               Numbered(None, b, Foreign, b, 1),
               Numbered(b, a, b, a, 3),
               Numbered(None, a, a, None, 1)}
=============================================================================
