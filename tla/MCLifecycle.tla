---------------------------- MODULE MCLifecycle ----------------------------
(***************************************************************************)
(* Model checking of the life of the driver, its port and its pipes.       *)
(***************************************************************************)
EXTENDS HcdLifecycle, TLC

\* The default pipe, and endpoints at the limits of each configuration, in each FIFO.
MCEndpoint ==
    LET Of(type, is_in, mps) == [type |-> type, is_in |-> is_in, mps |-> mps, bInterval |-> 1,
                                 is_default |-> FALSE]
    IN  {NoEndpoint, Of("BULK", FALSE, 192)} \union
        {Of("ISOCHRONOUS", TRUE, mps) : mps \in {408, 600}} \union
        {Of("ISOCHRONOUS", FALSE, mps) : mps \in {192, 600}}

Symmetry == Permutations(Task) \union Permutations(Pipe)

-----------------------------------------------------------------------------
(* What the comments say, and the code does not do *)

\* "ESP_ERR_NO_MEM: Insufficient memory" (hcd_install): an installed driver has a
\* port.
InstalledHasPort == Installed => HasPort

=============================================================================
