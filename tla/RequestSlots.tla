---------------------------- MODULE RequestSlots ----------------------------
(***************************************************************************)
(* The turns in flight, which the ExecutorScheduler pins by request id and *)
(* the Lifecycle serves under the same id.  Ids are fresh uuid4s; a slot   *)
(* is used again for a later turn once its turn is over.                   *)
(***************************************************************************)
CONSTANT Requests
=============================================================================
