-------------------------- MODULE MCBandwidthLoops -------------------------
(* The bandwidth loops on arrays of one and of two kilobytes.              *)
EXTENDS BandwidthLoops

\* The loops that do what their callers count; repmovs's destination, which
\* is not the second half, is no matter of the lines it reads.
SoundLoops(n) ==
  {asm_read(n), asm_write(n), asm_cflip(n), sse_read(n), sse_write(n),
   sse_ntwrite(n), avx512_read(n), avx512_write(n), clzero_write(n),
   avx_read_win(n), avx_write_win(n), avx_ntwrite_win(n), avx_cflip_win(n),
   avx_add_win(n), avx512_read_win(n), sse_read_win(n), sse_write_win(n),
   sse_ntwrite_win(n), sse_add_win(n), sse_read32(n), mmx_read32(n),
   scalar_read32(n), arm_read(n), arm_write(n), arm_cflip(n), arm_add(n),
   asm_copy(n), avx_copy_win(n), sse_copy_win(n), arm_copy(n),
   repmovsb_copy(n), repmovsd_copy(n), repstosb_write(n), repstosd_write(n),
   repmovsb_win(n), repstosb_win(n), asm_add(n), avx512_add(n),
   riscv_read(n), riscv_write(n), loaded_read(n), loaded_add(n),
   loaded_win_read(n), loaded_arm_read(n), loaded_arm_add(n)}

\* The copy with 512-byte registers.
WideCopy(n) == {avx512_copy(n)}

=============================================================================
