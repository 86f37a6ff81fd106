-------------------------------- MODULE MCMemory --------------------------------
(* The caps of the state graph scaled down; what is said is short, and what a *)
(* limb returns is long and holds characters of several bytes.               *)
EXTENDS Memory
MCTexts == {Short}
MCDigests == {[size |-> 3, wide |-> TRUE]}
================================================================================
