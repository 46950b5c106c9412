--------------------------- MODULE MCTargetRouting ---------------------------
(* Small instances of TargetRouting: the last target refuses the keys of s1, *)
(* the address of the first is not valid for s2; the agent of s1 may fall    *)
(* silent, that of s2 may fail.                                              *)
EXTENDS TargetRouting

CONSTANTS s1, s2

MCResolves == [s \in Sessions |-> IF s = s1 THEN Targets ELSE Targets \ {1}]
MCAccepts == [s \in Sessions |-> IF s = s1 THEN Targets \ {N} ELSE Targets]
MCAgents ==
  [s \in Sessions |-> {"answers", IF s = s1 THEN "silent" ELSE "fails"}]
==============================================================================
