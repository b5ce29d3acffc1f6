----------------------------- MODULE MCCollector -----------------------------
(* Small heaps for Collector: interchangeable addresses. *)
EXTENDS Collector, TLC

AddrSymmetry == Permutations(Addr)
=============================================================================
