------------------------------- MODULE Encodings -------------------------------
(***************************************************************************)
(* The fixed-point encodings of key values: FakeSMCUtils.h, and decoding   *)
(* in sgFan.m.  All numbers are unsigned and 16 bits wide.                 *)
(***************************************************************************)
EXTENDS Integers

Word == {v \in Nat : v < 65536}

swap_value(v) == (v % 256) * 256 + v \div 256

(* fpe2: two binary places.  *)
encode_fpe2(v) == swap_value((v * 4) % 65536)

decode_fpe2(v) == swap_value(v) \div 4

(* fp2e and fp4c: 14 and 12 binary places, of a value in thousandths. *)
encode_fp2e(v) == swap_value(((v * 16384) \div 1000) % 65536)

encode_fp4c(v) == swap_value(((v * 4096) \div 1000) % 65536)
================================================================================
