----------------------------- MODULE Ciphertext -----------------------------
(***************************************************************************)
(* ElGamal ciphertexts as the confidential extensions use them.  A         *)
(* ciphertext is the amount it encrypts and the randomness in it: the      *)
(* syscalls add and multiply both, plaintext amounts leave the randomness  *)
(* alone, and two ciphertexts are equal bytes only if both agree.  Every   *)
(* encryption of a client draws an opening of its own, here a label; the   *)
(* randomness of a sum says how often each opening is in it.               *)
(*                                                                         *)
(* An amount is encrypted in two halves, amount_lo + RADIX * amount_hi.    *)
(***************************************************************************)
EXTENDS Integers

CONSTANTS
  RADIX,   \* 2^16
  Labels   \* the openings drawn

ASSUME RadixAssumption == RADIX \in Nat \ {0, 1}

Ciphertexts == [v : Int, r : [Labels -> Int]]

\* EncryptedBalance::zeroed() is an encryption of zero.
Zeroed == [v |-> 0, r |-> [l \in Labels |-> 0]]

Encrypt(n, label) ==
  [v |-> n, r |-> [l \in Labels |-> IF l = label THEN 1 ELSE 0]]

\* syscall::add, subtract, a multiplication by a scalar, and add_to for a
\* plaintext amount.
Plus(c, d) == [v |-> c.v + d.v, r |-> [l \in Labels |-> c.r[l] + d.r[l]]]
Minus(c, d) == [v |-> c.v - d.v, r |-> [l \in Labels |-> c.r[l] - d.r[l]]]
Times(k, c) == [v |-> k * c.v, r |-> [l \in Labels |-> k * c.r[l]]]
PlusAmount(c, n) == [c EXCEPT !.v = @ + n]

\* syscall::add_with_lo_hi and subtract_with_lo_hi combine a pair first.
LoHi(lo, hi) == Plus(lo, Times(RADIX, hi))

\* The low and the high bits of an amount.
Low(n) == n % RADIX
High(n) == n \div RADIX
=============================================================================
