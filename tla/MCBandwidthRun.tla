--------------------------- MODULE MCBandwidthRun --------------------------
EXTENDS BandwidthRun

\* A size below the number of threads, one that does not divide, and one of
\* the large sizes that transfer less.
SmallOddLarge == <<1, 3, 6>>

=============================================================================
