----------------------------- MODULE MCKeyResolver -----------------------------
(* KeyResolver with two callers, who look for one of two keys. *)
EXTENDS KeyResolver

CONSTANTS c1, c2, k1, k2, f1, f2
TwoCallers == {c1, c2}
TwoKids    == {k1, k2}
TwoFetches == {f1, f2}
================================================================================
