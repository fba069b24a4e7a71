---------------------------- MODULE MCVulkanQueue ----------------------------
(* Model checking of VulkanQueue: one family that serves graphics.         *)
EXTENDS VulkanQueue

CONSTANT Family

MCFamilyOf == [Graphics |-> Family, Compute |-> NoFamily]

(* Submissions that carry a fence, with a buffer or without a valid one,   *)
(* one that carries nothing and one that waits.                            *)
Fenced == [waits |-> FALSE, signals |-> 1, fence |-> TRUE, command_buffer |-> "of Vulkan"]
Plain == [Fenced EXCEPT !.signals = 0, !.fence = FALSE]

MCInfos ==
  {Fenced, [Fenced EXCEPT !.command_buffer = "null"],
   [Fenced EXCEPT !.command_buffer = "of another backend"],
   Plain, [Plain EXCEPT !.waits = TRUE]}
=============================================================================
