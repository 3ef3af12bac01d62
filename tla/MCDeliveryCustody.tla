-------------------------- MODULE MCDeliveryCustody --------------------------
(* One agent; the lapses a run lets happen. *)
EXTENDS DeliveryCustody

MCSubida == {"subida"}
MCRetida == {"retida"}
==============================================================================
