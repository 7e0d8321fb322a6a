---------------------------- MODULE SpillBufferMC ----------------------------
(* Small instances of SpillBuffer for TLC; the buffers are interchangeable. *)
EXTENDS SpillBuffer, TLC

BufferSymmetry == Permutations(Buffers)
=============================================================================
