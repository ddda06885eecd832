--------------------------- MODULE MCProviderStore ---------------------------
(* Two fetching processes, one reader on a linux-amd64 host; two linux keys   *)
(* (the same-OS fallback) and one of another OS.                              *)
EXTENDS ProviderStore, TLC

CONSTANTS p1, p2, r1, v1, v2, linuxAmd, linuxArm, macos

MCOsOf   == [k \in Keys |-> IF k = macos THEN "macos" ELSE "linux"]
MCHostOf == [r \in Readers |-> linuxAmd]
Symmetry == Permutations(Procs)
=============================================================================
