------------------------------ MODULE ParserMC ------------------------------
(***************************************************************************)
(* The programs on which the parser is checked.  Each menu leads to one of *)
(* its difficulties: nested scopes, names between pipes, types and calls,  *)
(* and the returns of a function.                                          *)
(***************************************************************************)
EXTENDS ReturnChecks

Lit(t) == [form |-> "literal", type |-> t]
Name(n) == [form |-> "name", name |-> n]
CallOf(f, args) == [form |-> "call", name |-> f, args |-> args]
Builtin(f, args) == [form |-> "builtin", name |-> f, args |-> args]
Op(op, l, r) == [form |-> "operation", op |-> op, left |-> l, right |-> r]
Param(n, t) == [name |-> n, type |-> t]
Fun(f, params, t) == [name |-> f, params |-> params, type |-> t]
Var(n, t, e) == [name |-> n, type |-> t, init |-> e]
Set(n, e) == [name |-> n, value |-> e]
Cond(e, pipe) == [condition |-> e, pipe |-> pipe]

NoMenu == [headers |-> {Fun("main", <<>>, "void")}, declarations |-> {},
           assignments |-> {}, discards |-> {}, calls |-> {}, returns |-> {},
           conditions |-> {}, MaxStatements |-> 3]

Less == Op("relation", Lit("int"), Lit("int"))

ScopeMenu == [NoMenu EXCEPT
  !.headers = {Fun("main", <<>>, "void"), Fun("f", <<Param("a", "int")>>, "void")},
  !.declarations = {Var("a", "unknown", Lit("int")), Var("b", "unknown", Name("a"))},
  !.conditions = {Cond(Less, NoPipe)},
  !.MaxStatements = 4]

\* The same name between the pipes of several statements, or taken before.
PipeMenu == [NoMenu EXCEPT
  !.declarations = {Var("a", "int?", Lit("int")), Var("b", "int", Lit("int"))},
  !.discards = {Name("b")},
  !.conditions = {Cond(Name("a"), "b"), Cond(Builtin("readi32", <<>>), "b")}]

\* Conditions that are no names, and a name that is a function's.
ConditionMenu == [NoMenu EXCEPT
  !.headers = {Fun("main", <<>>, "void"), Fun("f", <<>>, "int?")},
  !.conditions = {Cond(Less, "b"), Cond(Lit("int"), NoPipe), Cond(CallOf("f", <<>>), "b"),
                  Cond(Builtin("readi32", <<>>), "f")},
  !.returns = {Lit("null")},
  !.MaxStatements = 2]

CallMenu == [NoMenu EXCEPT
  !.headers = {Fun("main", <<>>, "void"), Fun("main", <<Param("a", "int")>>, "int"),
               Fun("f", <<Param("a", "float"), Param("a", "int")>>, "void"),
               Fun("f", <<Param("a", "float")>>, "float"),
               Fun("g", <<>>, "void")},
  !.calls = {CallOf("f", <<Lit("float")>>), CallOf("f", <<Lit("int")>>),
             CallOf("f", <<Name("a"), Name("a")>>), CallOf("g", <<>>),
             CallOf("g", <<Lit("int")>>), Builtin("write", <<Name("a")>>),
             Builtin("readi32", <<Lit("int")>>)},
  !.returns = {Name("a"), NoValue},
  !.MaxStatements = 4]

TypeMenu == [NoMenu EXCEPT
  !.declarations = {Var("a", t, Lit(u)) : t \in {"unknown", "float", "int?"},
                                          u \in {"int", "float", "null", "u8"}},
  !.assignments = {Set("a", Lit("int")), Set("a", Lit("null")),
                   Set("a", Op("arithmetic", Name("a"), Lit("int"))),
                   Set("b", Lit("int")), Set("a", Lit("u8"))},
  !.discards = {Op("equality", Name("a"), Lit("null"))},
  !.calls = {Builtin("write", <<Lit("int")>>)},
  !.MaxStatements = 4]

ReturnMenu == [NoMenu EXCEPT
  !.headers = {Fun("main", <<>>, "void"), Fun("f", <<>>, "int"), Fun("f", <<>>, "float?")},
  !.returns = {NoValue, Lit("int"), Lit("float"), Op("arithmetic", Lit("int"), Lit("int"))},
  !.conditions = {Cond(Less, NoPipe)}]

AllMenus == <<ScopeMenu, PipeMenu, ConditionMenu, CallMenu, TypeMenu, ReturnMenu>>
=============================================================================
