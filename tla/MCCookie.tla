------------------------------ MODULE MCCookie ------------------------------
(* Cookie with interchangeable servers and addresses.                      *)
EXTENDS Cookie, TLC

CookieSymmetry == Permutations(Servers) \cup Permutations(Addresses)

=============================================================================
