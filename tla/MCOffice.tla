------------------------------ MODULE MCOffice ------------------------------
(****************************************************************************)
(* Two users, also the staff of the project; requests served two at a time, *)
(* whichever part they are for; chains of one and of three steps.           *)
(****************************************************************************)
EXTENDS Office

S(a, b) == [actor |-> a, required |-> b]
MCStepLists == {<<S(2, TRUE), S(u, FALSE), S(u, TRUE)>> : u \in Users} \union {<<S(1, FALSE)>>}
P(f, v) == f :> v
MCTenderInputs == {[title |-> "a", source |-> s, status |-> Blank] : s \in SourceIds \union {NoSource}}
MCTenderPatches == {P("title", "b"), P("status", "closed"), P("status", Unlisted)}
                   \union {P("source", s) : s \in SourceIds \union {NoSource}}
MCSourceInputs == {[name |-> n, status |-> Blank] : n \in SourceNames}
MCSourcePatches == {P("status", "inactive")} \union {P("name", n) : n \in SourceNames}
T(p) == [provider |-> p, model |-> "m"]
MCRoutes == {<<T("primary"), T("second"), T("mock")>>, <<T("second"), T("primary")>>}
MCOverrides == {NoTarget, T("second")}
MCTexts == {{}, {"grade_a", "second"}}
Sym == Permutations(Users) \union Permutations(Servers)
=============================================================================
