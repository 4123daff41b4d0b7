------------------------- MODULE MCIngressPipeline -------------------------
(* Instances of IngressPipeline for TLC. *)
EXTENDS IngressPipeline

\* Two new orders, one cancel and one replace per second.
Limits == [k \in Kinds |-> IF k = "new" THEN 2 ELSE 1]

\* Rings of four and two slots.
Depths == [k \in Kinds |-> IF k = "new" THEN 4 ELSE 2]

\* No step and no property reads stats: states that differ in it are one.
StatsUnread == <<rate_windows, lanes, unseen, frames, history>>
=============================================================================
