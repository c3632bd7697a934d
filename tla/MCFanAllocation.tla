--------------------------- MODULE MCFanAllocation ---------------------------
(* A plug-in for each way of registering a fan; those that drive the chips *)
(* of a board have two fans.  Two to four plug-ins start at the same time. *)
EXTENDS FanAllocation, TLC

CONSTANTS superio, acpi, nvclock, geforce, andigilog, f1, f2, f3, f4, f5, f6

MCPreloaded == <<<<"#KEY", 0>>, <<"FNum", 0>>>>

MCKind == superio :> "SuperIO" @@ acpi :> "ACPI" @@ nvclock :> "NVClock"
          @@ geforce :> "GeForce" @@ andigilog :> "Andigilog"

MCPluginOf == f1 :> superio @@ f2 :> superio @@ f3 :> nvclock
              @@ f4 :> andigilog @@ f5 :> andigilog @@ f6 :> acpi

MCStatesPluginOf == f4 :> andigilog @@ f5 :> andigilog @@ f6 :> acpi

==============================================================================
