--------------------------- MODULE ActiveProvider ---------------------------
(***************************************************************************)
(* What the provider store promises, without saying how: entries appear    *)
(* and never disappear, and the active-provider pointer only ever names a  *)
(* version some entry of which is in the store.  The pointer may also be   *)
(* found missing: setCurrent removes the old pointer file before it        *)
(* renames the new one into place.                                         *)
(***************************************************************************)
CONSTANTS Versions,   \* upstream Claude Code versions
          Keys,       \* "<os>-<arch>" store keys
          None        \* no active provider

VARIABLES installed,  \* the <<version, key>> entries present
          active      \* the version the pointer names, or None

vars == <<installed, active>>

Init == /\ installed \in SUBSET (Versions \X Keys)
        /\ active \in {None} \cup {v \in Versions : \E k \in Keys : <<v, k>> \in installed}

Install(v, k) == /\ installed' = installed \cup {<<v, k>>}
                 /\ UNCHANGED active

Point(v) == /\ \E k \in Keys : <<v, k>> \in installed
            /\ active' = v
            /\ UNCHANGED installed

Lapse == /\ active' = None
         /\ UNCHANGED installed

Next == \/ \E v \in Versions, k \in Keys : Install(v, k)
        \/ \E v \in Versions : Point(v)
        \/ Lapse

Spec == Init /\ [][Next]_vars
=============================================================================
