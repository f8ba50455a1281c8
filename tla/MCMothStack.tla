------------------------------ MODULE MCMothStack ------------------------------
(***************************************************************************)
(* MothStack with three value slots and three frames: a program can nest   *)
(* two calls, pass both, one or no argument, and fill both arrays.         *)
(***************************************************************************)
EXTENDS MothStack

CONSTANTS fun, nil

MCValue == {fun, nil}
MCFunction == {fun}
MCEntry == [f \in {fun} |-> 1]
(* A VM_FRM at 1 ends with the code, and so does a VM_FRM2 at 0. *)
MCFrmSize == [i \in 0 .. MaxCode |-> IF i = 0 THEN 4 ELSE 3]
MCArgc == [i \in 0 .. MaxCode |-> i]
===============================================================================
