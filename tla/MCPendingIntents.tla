--------------------------- MODULE MCPendingIntents ---------------------------
(* Small instances of PendingIntents: what a model may propose and reply.  *)
(* Times are 0 to 2, titles and categories are 0 or 1.                     *)
EXTENDS PendingIntents

NoFields == Without(<<>>, {})

Title(n) == "title" :> n
Category(n) == "category" :> n
At(s, e) == ("start_time" :> s) @@ ("end_time" :> e)

New(known, missing) ==
    [kind |-> "add", task |-> None, targets |-> {}, known |-> known, missing |-> missing]

Change(task, targets, known, missing) ==
    [kind |-> "update", task |-> task, targets |-> targets, known |-> known, missing |-> missing]

Edit(kind, task, fields) == [kind |-> kind, task |-> task, fields |-> fields]

TabSymmetry == Permutations(Turns)

\* At most one identity is open, so the choice of the active one respects this.
Symmetry == TabSymmetry \union Permutations(Ids)

\* A block to be added, at a time that is asked for.
OneProposal == {New(Title(0), Interval)}

OneAction == {Edit("add", None, Title(0) @@ At(0, 1))}

\* Two blocks to be added, the length of one of them settled.
TwoProposals == {New(Title(0), Interval), New(Title(1) @@ Duration(1), Interval)}

TwoActions == {Edit("add", None, Title(n) @@ At(0, 1)) : n \in {0, 1}}

\* Fields asked for together, settled values, choices and confirmations.
ManyProposals ==
    {[kind |-> "remove", task |-> None, targets |-> Tasks, known |-> NoFields,
      missing |-> {"task_id", "confirmation"}]}
    \union UNION {{Change(t, {t}, NoFields, {"start_time", "category"}),
                   Change(None, {t}, Duration(1), {"task_id", "start_time"})} : t \in Tasks}

ManyActions ==
    {Edit("add", None, Title(0) @@ At(0, 2))}
    \union UNION {{Edit("update", t, "start_time" :> 1),
                   Edit("update", t, At(0, 1)),
                   Edit("update", t, Category(1)),
                   Edit("remove", t, NoFields)} : t \in Tasks}
=============================================================================
