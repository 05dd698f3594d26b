----------------------------- MODULE MCReadPages -----------------------------
(* Two threads: one with claims of two bodies for an agent and the owner, one  *)
(* that only the owner sees and that names the other in its text.              *)
EXTENDS ReadPages

CONSTANTS agent, t1, t2, x, y, early, late

plain == [thread |-> t1, body |-> x, valid |-> {early, late}, audience |-> {agent}, score |-> 1, mentions |-> {}]
other == [thread |-> t1, body |-> y, valid |-> Unknown, audience |-> {agent}, score |-> 2, mentions |-> {}]
private == [thread |-> t2, body |-> y, valid |-> {late}, audience |-> {}, score |-> 1, mentions |-> {t1}]

MCClaim == {plain, other, private}
MCVaults ==
    {<<private, other, plain>>, <<other, plain, private, plain>>, <<private, plain, other, private>>,
     <<private, private, other, plain>>}

MCQuery ==
    {[op |-> "context", target |-> Text, mode |-> "current", valid |-> Any],
     [op |-> "search", target |-> t1, mode |-> "history", valid |-> late],
     [op |-> "show", target |-> t1, mode |-> "history", valid |-> Any]}
=============================================================================
