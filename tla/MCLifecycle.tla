---------------------------- MODULE MCLifecycle ----------------------------
(* Two NICs with a jumbo MTU, above the page size and the XDP limit; one   *)
(* is driven by virtio_net.                                                *)
EXTENDS Lifecycle

MCNICs == {"eth0", "eth1"}
MCVirtio == {"eth0"}
MCOriginalMTU == [n \in MCNICs |-> 9000]
=============================================================================
