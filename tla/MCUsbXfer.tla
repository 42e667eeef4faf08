----------------------------- MODULE MCUsbXfer -----------------------------
(* UsbXfer on a small instance: one job chain is like another.             *)
EXTENDS UsbXfer, TLC

ChainSymmetry == Permutations(Chains)
=============================================================================
