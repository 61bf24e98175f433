--------------------------- MODULE MCIdempotentCalls ---------------------------
(***************************************************************************)
(* An instance of IdempotentCalls for TLC: a call, its repetition, a call  *)
(* that uses the same key for something else, and a call with another key  *)
(* on the same order or wallet.                                            *)
(***************************************************************************)
EXTENDS IdempotentCalls, TLC

CONSTANTS sent, repeated, other, apart, k1, k2, b1, b2

MCCalls == {sent, repeated, other, apart}
MCKeys == {k1, k2}
MCBodies == {b1, b2}
MCKeyOf == (apart :> k2) @@ [c \in {sent, repeated, other} |-> k1]
MCBodyOf == (other :> b2) @@ [c \in {sent, repeated, apart} |-> b1]
================================================================================
