------------------------------ MODULE Extents -------------------------------
(***************************************************************************)
(* Contiguous ranges of a pool's bytes, and where first fit puts one.      *)
(***************************************************************************)
EXTENDS Integers

Cells(off, n) == off .. off + n - 1

(***************************************************************************)
(* The offsets at which n free bytes start, and the lowest of them, if     *)
(* there is one.                                                           *)
(***************************************************************************)
Runs(F, n) == {o \in F : Cells(o, n) \subseteq F}

FirstFit(F, n) == {o \in Runs(F, n) : \A p \in Runs(F, n) : o <= p}
=============================================================================
