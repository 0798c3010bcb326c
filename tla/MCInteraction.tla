--------------------------- MODULE MCInteraction ---------------------------
(* An instance of Interaction for TLC: a static page and a page for each   *)
(* number, with fragments that invalidate and contain one another.         *)
EXTENDS Interaction, TLC

CONSTANTS q1, q2, t1, t2, Save, Gone

list == <<"users">>
item == <<"users", "7">>
missing == <<"users", "x">>
itemKey == <<"users", "{id}">>

AllRoutes == {list, itemKey}
AllPaths == {list, item, missing}
AllFragments == {"page-content", "navbar-content", "table", "badge"}
Ranks == "page-content" :> 1 @@ "table" :> 2 @@ "navbar-content" :> 3 @@ "badge" :> 4

\* Gone is an action nothing knows any more.
LayoutOf == list :> {"navbar-content"} @@ itemKey :> {}

Registered == list :> {"navbar-content", "table"} @@ itemKey :> {"table", "badge"}

Relation(pairs) == [f \in AllFragments |-> {p[2] : p \in {p \in pairs : p[1] = f}}]

InvalidatesOf ==
    list :> Relation({<<"page-content", "table">>, <<"table", "navbar-content">>, <<"navbar-content", "badge">>})
    @@ itemKey :> Relation({<<"page-content", "table">>, <<"table", "badge">>, <<"badge", "table">>})
DominatesOf ==
    list :> Relation({<<"page-content", "table">>})
    @@ itemKey :> Relation({<<"page-content", "table">>, <<"table", "badge">>})

Request(handler, tab, path, action, inner, target) ==
    [handler |-> handler, plain |-> FALSE, tab |-> tab, path |-> path, action |-> action,
     inner |-> inner, target |-> target]

OldRequest(handler, tab, path, action, target) ==
    [Request(handler, tab, path, action, NoAction, target) EXCEPT !.plain = TRUE]

\* Every tab sends what a tab sends; a script without a connection makes the
\* rarer requests.
AllInputs ==
    {Request("navigate", t, item, NoAction, NoAction, "page-content") : t \in Tabs}
    \cup {Request("interact", t, item, Save, NoAction, "table") : t \in Tabs}
    \cup {OldRequest("navigate", t, list, NoAction, "page-content") : t \in Tabs}
    \cup {Request("interact", NoTab, item, NoAction, NoAction, "page-content"),
          Request("interact", NoTab, item, Search, NoAction, "badge"),
          Request("interact", NoTab, list, Search, Save, "page-content"),
          OldRequest("interact", NoTab, list, NoAction, "page-content"),
          OldRequest("interact", NoTab, list, Save, "table"),
          OldRequest("interact", NoTab, missing, Gone, "table")}

NeededRoles == [x \in Things |-> IF x \in {item, Save} THEN {"staff"} ELSE {}]

Symmetry == Permutations(Requests) \cup Permutations(Tabs)
=============================================================================
