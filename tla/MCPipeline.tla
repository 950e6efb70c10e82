----------------------------- MODULE MCPipeline -----------------------------
(* Uops that share registers, among them one that writes the same flag and    *)
(* register, as x86 arithmetic does, and a branch that reads the flag.        *)
EXTENDS Pipeline, TLC
CONSTANTS Ax, Zf

Uops == {[kind |-> "alu", ins |-> {Ax}, outs |-> <<Ax, Zf>>],
         [kind |-> "load", ins |-> {Ax}, outs |-> <<Ax>>],
         [kind |-> "store", ins |-> {Ax}, outs |-> <<>>],
         [kind |-> "missed", ins |-> {Zf}, outs |-> <<>>],
         [kind |-> "alu", ins |-> {}, outs |-> <<Zf>>]}

First == Ax :> 0 @@ Zf :> 0
=============================================================================
