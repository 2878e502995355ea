---------------------------- MODULE MCDeviceTests ---------------------------
(* DeviceTests with at most four work items.                               *)
EXTENDS DeviceTests

Launch(kernel, threads, local_size, wave_size) ==
  [kernel |-> kernel, threads |-> threads, local_size |-> local_size,
   wave_size |-> wave_size]

\* Launches in which no item can end before another begins to read element 0.
SafeLaunches ==
  {Launch("tex_latency_test", 4, 2, 2), Launch("tex_latency_test", 3, 3, 1),
   Launch("local_unrolled_latency_test", 4, 2, 2),
   Launch("unrolled_latency_test", 1, 1, 1),
   Launch("scalar_unrolled_latency_test", 2, 2, 2)}

\* Two waves of the kernel for vector memory latency.
VectorLaunches == {Launch("unrolled_latency_test", 4, 2, 2)}
=============================================================================
