-------------------------- MODULE MCMemoryManager --------------------------
(* A 32-bit manager (8-byte headers) over a small misaligned buffer.       *)
EXTENDS MemoryManager

\* 0 and the top-bit sizes are refused; 65530 would wrap to a tiny block
\* were it not; 8 and 17 round to different blocks.
MCRequests == {0, 8, 17, 32768, 65530}
=============================================================================
