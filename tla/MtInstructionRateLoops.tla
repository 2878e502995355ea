----------------------- MODULE MtInstructionRateLoops -----------------------
(* The functions of mt_instructionrate for x86, aarch64 and POWER.         *)
EXTENDS InstructionLoops

\* x86_mt_instructionrate.s: six instructions on registers of 128 to 512 bits,
\* counted by lanes; two of AVX-512 execute other instructions than they say.
sse_int32_add_test        == Kernel(24, 24, "positive")
sse_int64_add_test        == Kernel(12, 12, "positive")
sse_int32_mul_test        == Kernel(24, 24, "positive")
sse_int64_mul_test        == Kernel(12, 12, "positive")
avx2_int32_add_test       == Kernel(48, 48, "positive")
avx2_int32_mul_test       == Kernel(48, 48, "positive")
avx2_int64_add_test       == Kernel(24, 24, "positive")
avx2_int64_mul_test       == Kernel(24, 24, "positive")
sse_fp32_add_test         == Kernel(24, 24, "positive")
sse_fp64_add_test         == Kernel(12, 12, "positive")
sse_fp32_mul_test         == Kernel(24, 24, "positive")
sse_fp64_mul_test         == Kernel(12, 12, "positive")
sse_fp32_muladd_test      == Kernel(24, 24, "positive")
sse_fp32_rsqrt_test       == Kernel(24, 24, "positive")
avx_fp32_rsqrt_test       == Kernel(48, 48, "positive")
sse_fp64_muladd_test      == Kernel(12, 12, "positive")
avx_fp32_add_test         == Kernel(48, 48, "positive")
avx_fp64_add_test         == Kernel(24, 24, "positive")
avx_fp32_mul_test         == Kernel(48, 48, "positive")
avx_fp64_mul_test         == Kernel(24, 24, "positive")
avx_fp32_muladd_test      == Kernel(48, 48, "positive")
avx_fp64_muladd_test      == Kernel(24, 24, "positive")
fp32_fma_test             == Kernel(48, 48, "positive")
fp64_fma_test             == Kernel(24, 24, "positive")
avx512_int32_add_test     == Kernel(96, 96, "positive")
avx512_int32_mul_test     == Kernel(96, 96, "positive")
avx512_int64_add_test     == Kernel(48, 48, "positive")
avx512_int64_mul_test     == Kernel(48, 48, "positive")
avx512_fp32_rsqrt_test    == Kernel(96, 96, "positive")
avx512_fp32_add_test      == Kernel(96, 96, "positive")
avx512_fp32_fma_test      == Kernel(96, 96, "positive")
avx512_fp64_add_test      == Kernel(0, 48, "positive")
avx512_fp64_fma_test      == Kernel(0, 48, "positive")

\* InstructionRateFunctions.asm, the same for Windows.
sse_int32_add_test_win    == Kernel(24, 24, "positive")
sse_int64_add_test_win    == Kernel(12, 12, "positive")
sse_int32_mul_test_win    == Kernel(24, 24, "positive")
sse_int64_mul_test_win    == Kernel(12, 12, "positive")
avx2_int32_add_test_win   == Kernel(48, 48, "positive")
avx2_int32_mul_test_win   == Kernel(48, 48, "positive")
avx2_int64_add_test_win   == Kernel(24, 24, "positive")
avx2_int64_mul_test_win   == Kernel(24, 24, "positive")
sse_fp32_add_test_win     == Kernel(24, 24, "positive")
sse_fp64_add_test_win     == Kernel(12, 12, "positive")
sse_fp32_mul_test_win     == Kernel(24, 24, "positive")
sse_fp64_mul_test_win     == Kernel(12, 12, "positive")
sse_fp32_muladd_test_win  == Kernel(24, 24, "positive")
sse_fp32_rsqrt_test_win   == Kernel(24, 24, "positive")
avx_fp32_rsqrt_test_win   == Kernel(48, 48, "positive")
sse_fp64_muladd_test_win  == Kernel(12, 12, "positive")
avx_fp32_add_test_win     == Kernel(48, 48, "positive")
avx_fp64_add_test_win     == Kernel(24, 24, "positive")
avx_fp32_mul_test_win     == Kernel(48, 48, "positive")
avx_fp64_mul_test_win     == Kernel(24, 24, "positive")
avx_fp32_muladd_test_win  == Kernel(48, 48, "positive")
avx_fp64_muladd_test_win  == Kernel(24, 24, "positive")
fp32_fma_test_win         == Kernel(48, 48, "positive")
fp64_fma_test_win         == Kernel(24, 24, "positive")
avx512_int32_add_test_win == Kernel(96, 96, "positive")
avx512_int32_mul_test_win == Kernel(96, 96, "positive")
avx512_int64_add_test_win == Kernel(48, 48, "positive")
avx512_int64_mul_test_win == Kernel(48, 48, "positive")
avx512_fp32_rsqrt_test_win == Kernel(96, 96, "positive")
avx512_fp32_add_test_win  == Kernel(96, 96, "positive")
avx512_fp32_fma_test_win  == Kernel(96, 96, "positive")
avx512_fp64_add_test_win  == Kernel(0, 48, "positive")
avx512_fp64_fma_test_win  == Kernel(0, 48, "positive")

\* arm_mt_instructionrate.s.
vec_int32_add_test_a64    == Kernel(24, 24, "positive")
vec_int32_mul_test_a64    == Kernel(24, 24, "positive")
vec_fp32_add_test_a64     == Kernel(24, 24, "positive")
vec_fp32_fma_test_a64     == Kernel(24, 24, "positive")
vec_fp32_rsqrt_test_a64   == Kernel(24, 24, "positive")
vec_int64_add_test_a64    == Kernel(12, 12, "positive")
vec_fp64_add_test_a64     == Kernel(12, 12, "positive")
vec_fp64_fma_test_a64     == Kernel(12, 12, "positive")

\* ppc64_mt_instructionrate.s, which counts up to its argument.
vec_int32_add_test_ppc    == Kernel(24, 24, "positive")
vec_int32_mul_test_ppc    == Kernel(32, 32, "positive")
vec_fp32_add_test_ppc     == Kernel(32, 32, "positive")
vec_fp32_fma_test_ppc     == Astray(32, 0, 32, "positive")
vec_fp32_isqrt_test_ppc   == Kernel(32, 32, "positive")
fp64_add_test_ppc         == Kernel(8, 8, "positive")
fp64_fma_test_ppc         == Kernel(8, 8, "positive")

=============================================================================
