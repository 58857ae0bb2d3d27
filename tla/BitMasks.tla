------------------------------ MODULE BitMasks ------------------------------
(***************************************************************************)
(* Integer bit tests as the plugin's Python evaluates them.  The code      *)
(* never converts a mask to a bool when it stores it: `flags & 4` and      *)
(* `ir_byte & 2**idx` yield the integer 0 or the mask itself, and only the *)
(* `True if ... else False` around some of them turns it into a bool.      *)
(***************************************************************************)
EXTENDS Integers

(* x & m for a power of two m: 0 when bit log2(m) of x is clear, m when it *)
(* is set.  TLA+'s % is non-negative for a positive divisor, so this is    *)
(* also Python's two's-complement & for negative x.                        *)
Mask(x, m) == (x % (2 * m)) - (x % m)

(* Python truthiness of an int (`True if x else False`).                  *)
Truthy(x) == x # 0

(* Reference, not code: bit i of x is set, by division.                    *)
BitSet(x, i) == (x \div 2^i) % 2 = 1
=============================================================================
