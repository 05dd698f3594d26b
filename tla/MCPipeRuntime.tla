----------------------------- MODULE MCPipeRuntime -----------------------------
(* Two workers, and a queue shorter than the code's so that requests that were    *)
(* given up fill it while the handler runs.                                       *)
EXTENDS PipeRuntime

CONSTANTS f1, f2
=============================================================================
