--------------------------- MODULE MCSchedulerPool ---------------------------
(* The instance of SchedulerPool that TLC checks. *)
EXTENDS SchedulerPool

MCTask == Chunk \X (1 .. ChunkSize)
=============================================================================
