----------------------------- MODULE RabinKarp -----------------------------
(***************************************************************************)
(* The rolling hash of src/src/rabinkarp.h, in uint32_t arithmetic: every  *)
(* intermediate result is taken modulo UINT (2^32, scaled down for TLC).   *)
(***************************************************************************)
EXTENDS Integers

CONSTANTS PRIME,      \* GOOD_PRIME, 8355967
          BASE,       \* GOOD_BASE, 256
          UINT,       \* the number of values of a uint32_t
          hashbytes   \* file_options.hashbytes: the length of the window

ASSUME HashAssumption ==
  /\ PRIME \in Nat \ {0}
  /\ BASE \in Nat
  /\ UINT \in Nat \ {0}
  /\ hashbytes \in Nat \ {0}

Hash == 0 .. PRIME - 1

uint32(n) == n % UINT

\* One turn of the loop of rabinkarp_calculate_popvalue.
rabinkarp_popvalue_step(popvalue) == uint32(popvalue * BASE) % PRIME

rabinkarp_add(hash, value) == uint32(hash * BASE + value) % PRIME

rabinkarp_remove(hash, value, popvalue) ==
  uint32(hash + PRIME - (uint32(value * popvalue) % PRIME)) % PRIME

rabinkarp_roll(hash, newvalue, prevval, curpos, rolllen, popvalue) ==
  IF curpos >= rolllen
  THEN rabinkarp_add(rabinkarp_remove(hash, prevval, popvalue), newvalue)
  ELSE rabinkarp_add(hash, newvalue)
=============================================================================
