---------------------------- MODULE MCKamaPoolV2 ----------------------------
EXTENDS KamaPoolV2

CONSTANTS small, large

(* A class of four blocks per span (8 KiB) and one of two (16 KiB).        *)
FourAndTwo == [c \in {small, large} |-> IF c = small THEN 4 ELSE 2]
=============================================================================
