------------------------------ MODULE MCUsbToNet ------------------------------
(***************************************************************************)
(* The builds of the drain loop, for TLC.                                  *)
(***************************************************************************)
EXTENDS UsbToNet

BuildOf(role, gated, preemptive, more) ==
    [DeviceRole |-> role = "device", GateWhenDown |-> gated,
     Preemptive |-> preemptive, kMaxUsbRefills |-> more]

NxpHost    == BuildOf("host",   TRUE,  TRUE,  0)
NxpDevice  == BuildOf("device", TRUE,  TRUE,  0)
PicoHost   == BuildOf("host",   FALSE, FALSE, 0)    \* pico_w's is the same
PicoDevice == BuildOf("device", FALSE, FALSE, 1)
PicoW      == BuildOf("device", FALSE, FALSE, 0)

AllBuilds   == {NxpHost, NxpDevice, PicoHost, PicoDevice, PicoW}
OnlyNxpHost == {NxpHost}
=============================================================================
