------------------------ MODULE InstructionRateLoops ------------------------
(* The functions of InstructionRate for x86, aarch64 and RISC-V.           *)
EXTENDS InstructionLoops

\* x86_instructionrate.s.
clktest                   == Kernel(20, 20, "zero")
clkmovtest                == Kernel(20, 20, "zero")
noptest                   == Kernel(19, 20, "zero")
noptest1b                 == Kernel(19, 20, "zero")
addtest                   == Kernel(20, 20, "zero")
addnoptest                == Kernel(20, 20, "zero")
addmovtest                == Kernel(20, 20, "zero")
rortest                   == Kernel(20, 20, "zero")
shltest                   == Kernel(20, 20, "zero")
mixrorshltest             == Kernel(20, 20, "zero")
mixrormultest             == Kernel(20, 20, "zero")
rorbtstest                == Kernel(20, 20, "zero")
btstest                   == Kernel(20, 20, "zero")
leatest                   == Kernel(20, 20, "zero")
leamultest                == Kernel(20, 20, "zero")
btsmultest                == Kernel(20, 20, "zero")
jmptest                   == Kernel(20, 20, "zero")
ntjmptest                 == Kernel(20, 20, "zero")
addjmptest                == Kernel(20, 20, "zero")
jmpmultest                == Kernel(20, 20, "zero")
addmultest                == Kernel(39, 40, "zero")
add256int                 == Kernel(20, 20, "zero")
mul512int                 == Kernel(20, 20, "zero")
muldq512int               == Kernel(20, 20, "zero")
add512int                 == Kernel(20, 20, "zero")
mixadd256fpint            == Kernel(20, 20, "zero")
mix256faddintadd          == Kernel(20, 20, "zero")
mix256fp                  == Kernel(20, 20, "zero")
mixadd256int              == Kernel(30, 30, "zero")
mixadd256int11            == Kernel(20, 20, "zero")
latadd256int              == Kernel(20, 20, "zero")
latadd512int              == Astray(20, 0, 20, "zero")
latmul512int              == Kernel(20, 20, "zero")
latmuldq512int            == Kernel(20, 20, "zero")
latmulq512int             == Kernel(20, 20, "zero")
latmul256int              == Kernel(20, 20, "zero")
latadd128int              == Kernel(20, 20, "zero")
add128int                 == Kernel(16, 16, "positive")
aesenc128                 == Kernel(20, 20, "zero")
aesencadd128              == Kernel(20, 20, "zero")
aesencfma128              == Kernel(15, 15, "zero")
aesencfadd128             == Kernel(15, 15, "positive")
aesencmul128              == Kernel(15, 15, "positive")
aesdec128                 == Kernel(20, 20, "zero")
mul128int                 == Kernel(20, 20, "zero")
latmul128int              == Kernel(20, 20, "zero")
mixaddmul128int           == Kernel(20, 20, "zero")
latadd256fp               == Kernel(20, 20, "zero")
mul256fp                  == Kernel(20, 20, "zero")
add256fp                  == Kernel(20, 20, "zero")
latmul256fp               == Kernel(20, 20, "zero")
fma512                    == Kernel(20, 20, "zero")
mix21fma256fma512         == Kernel(18, 18, "positive")
mixfma256fma512           == Kernel(20, 20, "zero")
fma256                    == Kernel(20, 20, "zero")
fma128                    == Kernel(20, 20, "zero")
mixfmafadd256             == Kernel(30, 30, "zero")
mixfmaadd512              == Kernel(15, 16, "positive")
mixfma512add256           == Kernel(15, 16, "positive")
mixfmaadd256              == Kernel(15, 16, "positive")
mixfmaand256              == Kernel(15, 15, "positive")
mixfmaandmem256           == Kernel(21, 22, "positive")
mixfmaaddmem256           == Kernel(21, 22, "positive")
nemesfpu512mix21          == Kernel(16, 16, "positive")
nemesfpumix21             == Kernel(16, 16, "positive")
latfma512                 == Kernel(20, 20, "zero")
latfma256                 == Kernel(20, 20, "zero")
latfma128                 == Kernel(20, 20, "zero")
latadd128fp               == Kernel(20, 20, "zero")
latmul128fp               == Kernel(20, 20, "zero")
mul128fp                  == Kernel(20, 20, "zero")
add128fp                  == Kernel(20, 20, "zero")
latmul64                  == Kernel(20, 20, "zero")
latmul16                  == Kernel(20, 20, "zero")
mul16                     == Kernel(20, 20, "zero")
mul64                     == Kernel(20, 20, "zero")
mixmul16mul64             == Kernel(20, 20, "zero")
mixmul16mul64_21          == Kernel(24, 24, "nonnegative")
loadscalar                == Kernel(20, 20, "zero")
spacedstorescalar         == Kernel(20, 20, "zero")
mixedscalarloadstore      == Kernel(12, 12, "positive")
spacedload128             == Kernel(20, 20, "zero")
load128                   == Kernel(20, 20, "zero")
load256                   == Kernel(20, 20, "zero")
load512                   == Kernel(20, 20, "zero")
store128                  == Kernel(20, 20, "zero")
store256                  == Kernel(20, 20, "zero")
store512                  == Kernel(20, 20, "zero")
pdeptest                  == Kernel(20, 20, "zero")
pdepmultest               == Kernel(20, 20, "zero")
pexttest                  == Kernel(20, 20, "zero")
depmovtest                == Kernel(20, 20, "zero")
vecdepmovtest             == Kernel(20, 20, "zero")
vecindepmovtest           == Kernel(20, 20, "zero")
indepmovtest              == Kernel(20, 20, "zero")
movzerotest               == Kernel(20, 20, "zero")
xorzerotest               == Kernel(20, 20, "zero")
vecxorzerotest            == Kernel(20, 20, "zero")
subzerotest               == Kernel(20, 20, "zero")
vecsubzerotest            == Astray(20, 0, 20, "zero")
depaddimmtest             == Kernel(20, 20, "zero")
memrenametest             == Kernel(20, 20, "zero")
depinctest                == Kernel(20, 20, "zero")
depdectest                == Kernel(20, 20, "zero")
fma4_256                  == Kernel(20, 20, "zero")
fma4_128                  == Kernel(20, 20, "zero")
fdivtest                  == Kernel(20, 20, "zero")
fdivlattest               == Astray(20, 0, 20, "zero")
fmuldenormlattest         == Kernel(20, 20, "zero")
fmuldenormtest            == Kernel(20, 20, "zero")
movqtoxmmtest             == Kernel(20, 20, "zero")

\* x86_fusion.s, for one processor whose fusion was in doubt.
testfusion                == Kernel(5, 5, "zero")
cmpfusion                 == Kernel(5, 5, "zero")
subfusion                 == Kernel(5, 5, "zero")
nopfusion                 == Kernel(5, 5, "zero")
clktest_fusion            == Kernel(20, 20, "zero")
noptest_fusion            == Kernel(19, 20, "zero")
addtest_fusion            == Kernel(20, 20, "zero")

\* arm_instructionrate.s.
clktest_a64               == Kernel(20, 20, "zero")
noptest_a64               == Kernel(30, 30, "zero")
addtest_a64               == Kernel(30, 30, "zero")
maddaddtest_a64           == Kernel(20, 20, "zero")
eortest_a64               == Kernel(30, 30, "zero")
cmptest_a64               == Kernel(30, 30, "zero")
addmultest_a64            == Kernel(20, 20, "zero")
addmul21test_a64          == Kernel(24, 24, "positive")
mul32test_a64             == Kernel(20, 20, "zero")
mul64test_a64             == Kernel(20, 20, "zero")
latmul64test_a64          == Kernel(20, 20, "zero")
vecadd128test_a64         == Kernel(20, 20, "zero")
latvecadd128test_a64      == Kernel(20, 20, "zero")
faddtest_a64              == Kernel(20, 20, "zero")
latfaddtest_a64           == Kernel(20, 20, "zero")
latfmultest_a64           == Kernel(20, 20, "zero")
latvecmul128test_a64      == Kernel(20, 20, "zero")
vecmul128test_a64         == Kernel(20, 20, "zero")
scalarfmatest_a64         == Kernel(20, 20, "zero")
latscalarfmatest_a64      == Kernel(20, 20, "zero")
vecfma128test_a64         == Kernel(20, 20, "zero")
mixvecfmulfma128test_a64  == Kernel(20, 20, "zero")
mixvecfaddfma128test_a64  == Kernel(20, 20, "zero")
latvecfma128test_a64      == Kernel(20, 20, "zero")
vecfadd128test_a64        == Kernel(20, 20, "zero")
latvecfadd128test_a64     == Kernel(20, 20, "zero")
vecfmul128test_a64        == Kernel(20, 20, "zero")
latvecfmul128test_a64     == Kernel(20, 20, "zero")
mixvecfaddfmul128test_a64 == Kernel(20, 20, "zero")
mixvecaddmul128test_a64   == Kernel(20, 20, "zero")
mixaddvecadd128test_a64   == Kernel(30, 30, "zero")
mix3to1addvecadd128test_a64 == Kernel(40, 40, "zero")
mix1to1addvecadd128test_a64 == Kernel(40, 40, "zero")
mixmulvecmultest_a64      == Kernel(20, 20, "zero")
mixvecmulfmultest_a64     == Kernel(20, 20, "zero")
mixvecaddfaddtest_a64     == Kernel(20, 20, "zero")
mixjmpvecaddtest_a64      == Kernel(30, 30, "zero")
mixjmpvecmultest_a64      == Kernel(20, 20, "zero")
vecloadtest_a64           == Kernel(20, 20, "zero")
vecstoretest_a64          == Kernel(20, 20, "zero")
loadtest_a64              == Kernel(20, 20, "zero")
mixloadstoretest_a64      == Kernel(20, 20, "zero")
mix21loadstoretest_a64    == Kernel(30, 30, "zero")
jmptest_a64               == Kernel(20, 20, "zero")
fusejmptest_a64           == Kernel(20, 20, "zero")
mixmuljmptest_a64         == Kernel(20, 20, "zero")
mixmuljmptest21_a64       == Kernel(30, 30, "zero")
mixaddjmptest_a64         == Astray(20, 10, 20, "zero")
mixaddjmp21test_a64       == Kernel(15, 15, "positive")
mixmulrortest_a64         == Kernel(20, 20, "zero")
rortest_a64               == Kernel(20, 20, "zero")
depmovtest_a64            == Kernel(20, 20, "zero")
indepmovtest_a64          == Kernel(20, 20, "zero")
xorzerotest_a64           == Kernel(20, 20, "zero")
movzerotest_a64           == Kernel(20, 20, "zero")
subzerotest_a64           == Kernel(20, 20, "zero")
aesetest_a64              == Kernel(20, 20, "zero")
mixaesevecadd128test_a64  == Kernel(20, 20, "zero")
pmulltest_a64             == Kernel(20, 20, "zero")
mixpmulladd128test_a64    == Kernel(20, 20, "zero")

\* riscv_instructionrate.s.
clktest_rv                == Kernel(20, 20, "positive")
addtest_rv                == Kernel(20, 20, "positive")
faddtest_rv               == Kernel(14, 14, "positive")
faddlattest_rv            == Kernel(14, 14, "positive")
fmultest_rv               == Kernel(14, 14, "positive")
fmullattest_rv            == Kernel(14, 14, "positive")
mixfaddfmultest_rv        == Kernel(14, 14, "positive")
fmatest_rv                == Kernel(14, 14, "positive")
fmalattest_rv             == Kernel(14, 14, "positive")

=============================================================================
