---------------------------- MODULE FaultTracerMC ----------------------------
(* All lists of up to two models, in the orders in which they are injected. *)
EXTENDS FaultTracer

Model == [instruction : BOOLEAN, type : {"permanent", "transient", "until_overwrite"}]
Valid(m) == m.instruction => m.type # "until_overwrite"

PermanentFirst(s) == \A i, j \in DOMAIN s : i < j /\ s[j].type = "permanent" => s[i].type = "permanent"

UpToTwo ==
  {s \in UNION {[1 .. n -> {m \in Model : Valid(m)}] : n \in 1 .. 2} : PermanentFirst(s)}

(* No ignored memory range, or one of one instruction. *)
NoneOrOne == {{}, {1}}
=============================================================================
