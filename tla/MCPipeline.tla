----------------------------- MODULE MCPipeline -----------------------------
(* Pipeline over three stores an earlier run may have left: an empty one, a  *)
(* root chain, a root chain with a chain of sub-agent a.  In the first two   *)
(* the chain of a is created, in the last it is resumed.                     *)
EXTENDS Pipeline

CONSTANTS a, old1, old2

MCRoot == [chain |-> <<1, Root>>, seq |-> 1, prev |-> Nil,
           id |-> <<old1, "live">>, parent |-> Nil]
MCSub == [chain |-> <<1, a>>, seq |-> 1, prev |-> Nil,
             id |-> <<old2, "live">>, parent |-> MCRoot.id]

MCPrior == {{}, {MCRoot}, {MCRoot, MCSub}}
=============================================================================
