----------------------------- MODULE BootPolicy -----------------------------
(***************************************************************************)
(* The order in which the ROM tries things, as the callers of              *)
(* bootsource_try_chain() and the authors of boot images meet it.  At each *)
(* point the ROM seeks an image at one place, a boot device or the host,   *)
(* or runs the image it found there.  A code decides on the next place: it *)
(* is the one the image returned or, where there was no image to run, the  *)
(* one the attempt failed with; the ROM makes no difference between them.  *)
(*                                                                         *)
(* The table is the one of bootsource.c.  doc/bootrom.asciidoc has the     *)
(* same with another code for host mode: -1 where the ROM takes -ETOHOST.  *)
(***************************************************************************)
EXTENDS Integers

CONSTANTS
    NumSources,     \* boot devices, in order of priority
    Code,           \* codes that running an image may result in
    Failure,        \* codes that a device without an image may result in
    ToHost          \* the code that asks for host mode

VARIABLES
    home,   \* "reset", "chain", or "host" once the chain has been given up
    where,  \* the device being tried, 0 for the host
    job,    \* "seek", "run" or "done"
    result  \* the code of the attempt that is done, 0 otherwise

policy == <<home, where, job, result>>

Device == 1 .. NumSources
Host   == 0

Init == home = "reset" /\ where = Host /\ job = "seek" /\ result = 0

GoTo(h, w) == home' = h /\ where' = w

ToDevice(d) == IF d \in Device THEN GoTo("chain", d) ELSE GoTo("host", Host)

\* The pins choose between the chain and host mode.
Reset ==
    /\ home = "reset"
    /\ ToDevice(1) \/ GoTo("host", Host)
    /\ UNCHANGED <<job, result>>

Find ==
    /\ home # "reset"
    /\ job = "seek"
    /\ job' = "run"
    /\ UNCHANGED <<home, where, result>>

\* Nothing to run on a device.
Miss ==
    /\ job = "seek"
    /\ where \in Device
    /\ job' = "done"
    /\ result' \in Failure
    /\ UNCHANGED <<home, where>>

Finish ==
    /\ job = "run"
    /\ job' = "done"
    /\ result' \in Code
    /\ UNCHANGED <<home, where>>

(***************************************************************************)
(* In the chain: 0 stays with the device for its next image, N > 0 goes to *)
(* the N-th device, ToHost to the host, any other code to the device that  *)
(* follows.  From the host: N > 0 makes one attempt at the N-th device.    *)
(***************************************************************************)
Follow ==
    /\ job = "done"
    /\ job' = "seek"
    /\ result' = 0
    /\ \/ /\ home = "chain"
          /\ \/ result = 0      /\ GoTo("chain", where)
             \/ result > 0      /\ ToDevice(result)
             \/ result = ToHost /\ GoTo("host", Host)
             \/ result < 0 /\ result # ToHost /\ ToDevice(where + 1)
       \/ /\ home = "host"
          /\ IF where = Host /\ result \in Device THEN GoTo("host", result)
                                                  ELSE GoTo("host", Host)

Next == Reset \/ Find \/ Miss \/ Finish \/ Follow

Spec == Init /\ [][Next]_policy

=============================================================================
