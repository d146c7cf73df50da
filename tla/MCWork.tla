------------------------------- MODULE MCWork -------------------------------
(***************************************************************************)
(* Instances of Work: two models, plans of at most two steps, pipelines of *)
(* at most two files.                                                      *)
(***************************************************************************)
EXTENDS Work

CONSTANTS m1, m2, known, route, broken

Open(t, m) == [title |-> t, done |-> FALSE, model |-> m]
Done(t) == [title |-> t, done |-> TRUE, model |-> NoModel]

MCPlans == {<<Open("a", NoModel), Open("b", m2)>>, <<Done("a"), Open("b", m2)>>}

File(mention) == [mention |-> mention, readable |-> TRUE]
MCPipelines ==
  {<<File(NoModel), File(route)>>, <<File(known)>>, <<File(broken), File(NoModel)>>,
   <<[mention |-> NoModel, readable |-> FALSE]>>}
=============================================================================
