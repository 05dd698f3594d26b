----------------------------- MODULE MCAgentPath ------------------------------
(* Two frames of the host, and a call of another process. *)
EXTENDS AgentPath

MCScripts ==
    {<<"call", "call", "absent">>, <<"note", "local", "absent">>,
     <<"local", "large", "absent">>, <<"absent", "absent", "large">>}

\* Two calls, and nothing that ends the bridge by itself.
MCCalls == {<<"call", "call", "absent">>}
=============================================================================
