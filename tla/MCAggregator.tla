---------------------------- MODULE MCAggregator ----------------------------
(* Two servers and a name nobody configured; three tools, one of which is  *)
(* displayed under the name of another; ACLs with no filter, a filter, a   *)
(* deny-all filter, one server, and no server at all.                      *)
EXTENDS Aggregator, TLC

CONSTANTS db, web, typo, read, write, odd

MCRank == db :> 1 @@ web :> 2
MCShown == read :> read @@ write :> write @@ odd :> read
MCInventories == {{read, write}, {write, odd}}

Filter(S, f) == [servers |-> S, tools |-> f]
MCAcls == {Filter({db, web}, db :> {read}),
           Filter({db, web}, web :> {} @@ db :> {write, odd}),
           Filter({web}, <<>>),
           Filter({}, <<>>)}

AskOf(op, s, t, o) == [op |-> op, server |-> s, tool |-> t, object |-> o]
MCAsks ==
    {AskOf("list_tools", s, read, TRUE) : s \in {None, web, typo}} \cup
    {AskOf("get_tool_schema", s, t, TRUE) : s \in {db, web}, t \in {read}} \cup
    {AskOf("get_tool_schema", None, read, TRUE)} \cup
    {AskOf("invoke_tool", s, write, o) : s \in {db, web}, o \in BOOLEAN} \cup
    {AskOf("invoke_tool", typo, read, FALSE)} \cup
    {AskOf("other", db, read, TRUE)}

=============================================================================
