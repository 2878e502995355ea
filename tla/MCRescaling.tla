----------------------------- MODULE MCRescaling ----------------------------
(* Rescaling with three threads that differ up to a hundredfold, and every *)
(* instruction rate function that executes what it counts.                 *)
EXTENDS Rescaling, InstructionRateLoops, MtInstructionRateLoops

\* InstructionRate's functions, and mt_instructionrate's.
InstructionRate ==
  {clktest, clkmovtest, noptest, noptest1b, addtest, addnoptest, addmovtest,
   rortest, shltest, mixrorshltest, mixrormultest, rorbtstest, btstest,
   leatest, leamultest, btsmultest, jmptest, ntjmptest, addjmptest,
   jmpmultest, addmultest, add256int, mul512int, muldq512int, add512int,
   mixadd256fpint, mix256faddintadd, mix256fp, mixadd256int, mixadd256int11,
   latadd256int, latmul512int, latmuldq512int, latmulq512int, latmul256int,
   latadd128int, add128int, aesenc128, aesencadd128, aesencfma128,
   aesencfadd128, aesencmul128, aesdec128, mul128int, latmul128int,
   mixaddmul128int, latadd256fp, mul256fp, add256fp, latmul256fp, fma512,
   mix21fma256fma512, mixfma256fma512, fma256, fma128, mixfmafadd256,
   mixfmaadd512, mixfma512add256, mixfmaadd256, mixfmaand256,
   mixfmaandmem256, mixfmaaddmem256, nemesfpu512mix21, nemesfpumix21,
   latfma512, latfma256, latfma128, latadd128fp, latmul128fp, mul128fp,
   add128fp, latmul64, latmul16, mul16, mul64, mixmul16mul64,
   mixmul16mul64_21, loadscalar, spacedstorescalar, mixedscalarloadstore,
   spacedload128, load128, load256, load512, store128, store256, store512,
   pdeptest, pdepmultest, pexttest, depmovtest, vecdepmovtest,
   vecindepmovtest, indepmovtest, movzerotest, xorzerotest, vecxorzerotest,
   subzerotest, depaddimmtest, memrenametest, depinctest, depdectest,
   fma4_256, fma4_128, fdivtest, fmuldenormlattest, fmuldenormtest,
   movqtoxmmtest, testfusion, cmpfusion, subfusion, nopfusion,
   clktest_fusion, noptest_fusion, addtest_fusion, clktest_a64, noptest_a64,
   addtest_a64, maddaddtest_a64, eortest_a64, cmptest_a64, addmultest_a64,
   addmul21test_a64, mul32test_a64, mul64test_a64, latmul64test_a64,
   vecadd128test_a64, latvecadd128test_a64, faddtest_a64, latfaddtest_a64,
   latfmultest_a64, latvecmul128test_a64, vecmul128test_a64,
   scalarfmatest_a64, latscalarfmatest_a64, vecfma128test_a64,
   mixvecfmulfma128test_a64, mixvecfaddfma128test_a64, latvecfma128test_a64,
   vecfadd128test_a64, latvecfadd128test_a64, vecfmul128test_a64,
   latvecfmul128test_a64, mixvecfaddfmul128test_a64, mixvecaddmul128test_a64,
   mixaddvecadd128test_a64, mix3to1addvecadd128test_a64,
   mix1to1addvecadd128test_a64, mixmulvecmultest_a64, mixvecmulfmultest_a64,
   mixvecaddfaddtest_a64, mixjmpvecaddtest_a64, mixjmpvecmultest_a64,
   vecloadtest_a64, vecstoretest_a64, loadtest_a64, mixloadstoretest_a64,
   mix21loadstoretest_a64, jmptest_a64, fusejmptest_a64, mixmuljmptest_a64,
   mixmuljmptest21_a64, mixaddjmp21test_a64, mixmulrortest_a64, rortest_a64,
   depmovtest_a64, indepmovtest_a64, xorzerotest_a64, movzerotest_a64,
   subzerotest_a64, aesetest_a64, mixaesevecadd128test_a64, pmulltest_a64,
   mixpmulladd128test_a64, clktest_rv, addtest_rv, faddtest_rv,
   faddlattest_rv, fmultest_rv, fmullattest_rv, mixfaddfmultest_rv,
   fmatest_rv, fmalattest_rv}

MtInstructionRate ==
  {sse_int32_add_test, sse_int64_add_test, sse_int32_mul_test,
   sse_int64_mul_test, avx2_int32_add_test, avx2_int32_mul_test,
   avx2_int64_add_test, avx2_int64_mul_test, sse_fp32_add_test,
   sse_fp64_add_test, sse_fp32_mul_test, sse_fp64_mul_test,
   sse_fp32_muladd_test, sse_fp32_rsqrt_test, avx_fp32_rsqrt_test,
   sse_fp64_muladd_test, avx_fp32_add_test, avx_fp64_add_test,
   avx_fp32_mul_test, avx_fp64_mul_test, avx_fp32_muladd_test,
   avx_fp64_muladd_test, fp32_fma_test, fp64_fma_test, avx512_int32_add_test,
   avx512_int32_mul_test, avx512_int64_add_test, avx512_int64_mul_test,
   avx512_fp32_rsqrt_test, avx512_fp32_add_test, avx512_fp32_fma_test,
   sse_int32_add_test_win, sse_int64_add_test_win, sse_int32_mul_test_win,
   sse_int64_mul_test_win, avx2_int32_add_test_win, avx2_int32_mul_test_win,
   avx2_int64_add_test_win, avx2_int64_mul_test_win, sse_fp32_add_test_win,
   sse_fp64_add_test_win, sse_fp32_mul_test_win, sse_fp64_mul_test_win,
   sse_fp32_muladd_test_win, sse_fp32_rsqrt_test_win,
   avx_fp32_rsqrt_test_win, sse_fp64_muladd_test_win, avx_fp32_add_test_win,
   avx_fp64_add_test_win, avx_fp32_mul_test_win, avx_fp64_mul_test_win,
   avx_fp32_muladd_test_win, avx_fp64_muladd_test_win, fp32_fma_test_win,
   fp64_fma_test_win, avx512_int32_add_test_win, avx512_int32_mul_test_win,
   avx512_int64_add_test_win, avx512_int64_mul_test_win,
   avx512_fp32_rsqrt_test_win, avx512_fp32_add_test_win,
   avx512_fp32_fma_test_win, vec_int32_add_test_a64, vec_int32_mul_test_a64,
   vec_fp32_add_test_a64, vec_fp32_fma_test_a64, vec_fp32_rsqrt_test_a64,
   vec_int64_add_test_a64, vec_fp64_add_test_a64, vec_fp64_fma_test_a64,
   vec_int32_add_test_ppc, vec_int32_mul_test_ppc, vec_fp32_add_test_ppc,
   vec_fp32_isqrt_test_ppc, fp64_add_test_ppc, fp64_fma_test_ppc}

\* Those that do not: five jump back into the loop of another function, and two
\* of AVX-512 execute a multiply-add of another width, or in place of an add.
AstrayFunctions(f) ==
  IF f = "InstructionRate"
  THEN {vecsubzerotest, fdivlattest, latadd512int, mixaddjmptest_a64}
  ELSE {avx512_fp64_add_test, avx512_fp64_fma_test, vec_fp32_fma_test_ppc}

SoundFunctions(f) ==
  CASE f = "InstructionRate" -> InstructionRate
    [] f = "measureFunction" -> MtInstructionRate
    [] f = "Measure2TBw" -> {bw_func}

=============================================================================
