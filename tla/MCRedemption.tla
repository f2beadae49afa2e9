---------------------------- MODULE MCRedemption ----------------------------
(***************************************************************************)
(* Small instances of Redemption for TLC: an issuance of a few cents, and  *)
(* redemptions of a cent and a half, of a cent and a bit, and of dust.     *)
(***************************************************************************)
EXTENDS Redemption, TLC

CONSTANTS i1, half, odd, dust, c1, c2, c3, c4, c5, c6

MCGross == [i \in Issuances |-> 4]
MCAmount == [r \in Redemptions |->
  CASE r = half -> 15000 [] r = odd -> 10001 [] r = dust -> 4999]

MCTask ==
  [c \in Calls |->
    CASE c \in {c1, c2} -> [op |-> "confirm", of |-> Redeem(half)]
      [] c = c3 -> [op |-> "reverse", of |-> Redeem(half)]
      [] c = c4 -> [op |-> "reverse", of |-> Settle(half)]
      [] c = c5 -> [op |-> "confirm", of |-> Redeem(odd)]
      [] c = c6 -> [op |-> "confirm", of |-> Redeem(dust)]]

\* Two clients confirm the same redemption.
Symmetry == Permutations({c1, c2})
=============================================================================
