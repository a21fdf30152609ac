------------------------------- MODULE Parser -------------------------------
(***************************************************************************)
(* The semantic analysis of the compiler's one-pass recursive-descent      *)
(* parser (src/2/IFJ/parser.c), over programs that are right lexically and *)
(* syntactically.  The text is read twice: a first reading declares the    *)
(* functions from their headers, the second parses the bodies.  A program  *)
(* is made up as it is read, every step parsing one more of its parts; the *)
(* recursion of the parser is the stack blocks.  error_exit and a crash    *)
(* are verdicts, after which nothing happens.                              *)
(*   Symbols are kept in a function from keys to records: SymTable is the  *)
(* hash table that implements it.  Expressions are at most one operator or *)
(* one call deep; every statement's type rules only see their outcome.     *)
(***************************************************************************)
EXTENDS Integers, Sequences, SequencesExt, IfjTypes

CONSTANTS
  Identifiers, Functions,   \* names for variables, names for functions
  MAX_SCOPE_DEPTH,
  Menus,                    \* the kinds of programs: a sequence of what each is made of,
                            \* with the bound MaxStatements on the length of a program
  MaxFunctions,             \* bound: functions of a program
  ReturnError(_, _, _)      \* the checks of return (ReturnChecks): the error of a function
                            \* of this type, whether its body is empty, and its statements

ASSUME ParserAssumption == MAX_SCOPE_DEPTH \in Nat /\ MaxFunctions \in Nat

NoPipe == "no pipe"
LiteralTypes == {"null", "int", "float", "u8"}

\* What the scanner tells apart: names of functions stand in headers, names of
\* variables elsewhere, and no literal has the type of a condition.
ASSUME MenusAssumption ==
  \A m \in DOMAIN Menus :
    /\ \A h \in Menus[m].headers :
         h.name \in Functions /\ h.params \in Seq([name : Identifiers, type : DataTypes])
    /\ \A d \in Menus[m].declarations : d.name \in Identifiers
    /\ \A c \in Menus[m].conditions :
         /\ c.pipe \in Identifiers \cup {NoPipe}
         /\ c.condition.form = "literal" => c.condition.type \in LiteralTypes

VARIABLES
  scope_stack, scope_counter, function,    \* see Scopes
  symtable,      \* key -> symbol
  verdict,       \* Running, Accepted, Crash or the error of error_exit
  headers,       \* the headers of the functions, in the order of the text
  begun,         \* 0 in the first reading, then the function being parsed
  blocks,        \* the open blocks, the innermost last
  identifiers,   \* the identifier and assignment nodes of the tree
  statements,    \* how many statements were parsed
  menu           \* the kind of program, an index of Menus

parserVars == <<scope_stack, scope_counter, function, symtable, verdict, headers,
                begun, blocks, identifiers, statements, menu>>

Running == "running"
NoError == "ERR_OK"
Accepted == NoError   \* main returns it
Crash == "crash"
UNDEF == "ERR_SEMANTIC_UNDEF"
PARAMS == "ERR_SEMANTIC_PARAMS"
OTHER_ERROR == "ERR_SEMANTIC_OTHER"
RETURN == "ERR_SEMANTIC_RETURN"
TYPE == "ERR_SEMANTIC_TYPE"
INFER == "ERR_SEMANTIC_INFER"
UNUSED == "ERR_SEMANTIC_UNUSED"
INTERNAL == "ERR_INTERNAL"

VariableKeys == {k \in DOMAIN symtable : Len(k) = 3}
FunKey(f) == <<f>>

S == INSTANCE Scopes WITH declared <- VariableKeys

Find(n) == S!search_variable_in_scopes(n)

TypeOf(k) == IF k \in DOMAIN symtable THEN symtable[k].type ELSE "unknown"

\* symtable_search sets is_used of what it finds.
Marked(t, keys) ==
  [k \in DOMAIN t |-> IF k \in keys THEN [t[k] EXCEPT !.used = TRUE] ELSE t[k]]

\* symtable_insert refuses a key that is taken, and the parser does not look.
Inserted(t, key, s) ==
  IF key \in DOMAIN t THEN t
  ELSE [k \in DOMAIN t \cup {key} |-> IF k = key THEN s ELSE t[k]]

\* is_used is not set and safe_malloc does not clear it: any value.  home is
\* the scope in whose statements the declaration node stands.
Variable(kind, type, garbage, home) ==
  [kind |-> kind, type |-> type, used |-> garbage, home |-> home, params |-> <<>>]

Check(err) == <<err # NoError, err>>

\* The code of the first pair whose condition holds, NoError if there is none.
FirstError(checks) ==
  LET failed == {i \in DOMAIN checks : checks[i][1]}
  IN IF failed = {} THEN NoError
     ELSE checks[CHOOSE i \in failed : \A j \in failed : i <= j][2]
-----------------------------------------------------------------------------
(* Expressions: parse_expression down to parse_primary_expression.  The    *)
(* outcome names the error, the node and its type, the symbols looked up,  *)
(* and the identifier nodes it puts where the tree is walked later.        *)

NoName == <<>>
BuiltinName == <<"ifj">>
OperatorName == <<"operator">>

Node(err, literal, type, name, marks, idents) ==
  [err |-> err, literal |-> literal, type |-> type, name |-> name,
   marks |-> marks, idents |-> idents]

\* A literal, or an identifier (parse_idendifier).
NameNode(k) ==
  Node(IF k = S!NoKey THEN UNDEF ELSE NoError, FALSE, TypeOf(k), k, {k}, {k})
Leaf(e) ==
  IF e.form = "literal" THEN Node(NoError, TRUE, e.type, NoName, {}, {})
  ELSE NameNode(Find(e.name))

\* parse_arguments: argument i against parameter i, types compared exactly.
\* The number is checked before every argument but the first, which is
\* compared with parameters[0] of a user's function even if there are none.
ArgumentError(a, params, user, i) ==
  FirstError(<< <<i > 1 /\ i > Len(params), PARAMS>>,
                <<a.err # NoError, a.err>>,
                <<params = <<>>, IF user THEN Crash ELSE PARAMS>>,
                <<i <= Len(params) /\ params[i] \notin {a.type, "all"}, PARAMS>> >>)

Signature(type, params) == [type |-> type, params |-> params]

BuiltinFunctions ==
  [readstr |-> Signature("u8?", <<>>), readi32 |-> Signature("int?", <<>>),
   readf64 |-> Signature("float?", <<>>), write |-> Signature("void", <<"all">>),
   i2f |-> Signature("float", <<"int">>), f2i |-> Signature("int", <<"float">>),
   string |-> Signature("u8", <<"u8">>), length |-> Signature("int", <<"u8">>),
   concat |-> Signature("u8", <<"u8", "u8">>),
   substring |-> Signature("u8?", <<"u8", "int", "int">>),
   strcmp |-> Signature("int", <<"u8", "u8">>),
   ord |-> Signature("int", <<"u8", "int">>), chr |-> Signature("u8", <<"int">>)]

\* parse_function_call and parse_builtin_function_call.  The arguments are
\* not part of the tree that is walked later.
CallNode(key, callee, user, args) ==
  LET checks == [i \in DOMAIN args |->
                   Check(ArgumentError(args[i], callee.params, user, i))]
  IN Node(FirstError(Append(checks, <<Len(args) # Len(callee.params), PARAMS>>)),
          FALSE, callee.type, key,
          {key} \cup UNION {args[i].marks : i \in DOMAIN args}, {})

Arguments(e) == [i \in DOMAIN e.args |-> Leaf(e.args[i])]

Call(e) ==
  IF e.form = "builtin"
  THEN CallNode(BuiltinName, BuiltinFunctions[e.name], FALSE, Arguments(e))
  ELSE IF FunKey(e.name) \in DOMAIN symtable
       THEN CallNode(FunKey(e.name), symtable[FunKey(e.name)], TRUE, Arguments(e))
       ELSE Node(UNDEF, FALSE, "unknown", NoName, {}, {})   \* whatever the arguments

Operand(e) == IF e.form \in {"literal", "name"} THEN Leaf(e) ELSE Call(e)

OperationNode(l, r, type) ==
  Node(FirstError(<<Check(l.err), Check(r.err), <<type = NoType, TYPE>> >>),
       FALSE, type, OperatorName, l.marks \cup r.marks, l.idents \cup r.idents)

Joined(op, l, r) == OperationNode(l, r, OperationType(op, l, r))

Expression(e) ==
  IF e.form = "operation" THEN Joined(e.op, Operand(e.left), Operand(e.right))
  ELSE Operand(e)

StringLiteral(x) == x.literal /\ x.type = "u8"
-----------------------------------------------------------------------------
(* The first reading *)

ParserInit ==
  /\ scope_stack = <<>> /\ scope_counter = 0 /\ function \in Functions
  /\ symtable = [k \in {} |-> Variable("", "", TRUE, 0)]
  /\ verdict = Running
  /\ headers = <<>> /\ begun = 0 /\ blocks = <<>>
  /\ identifiers = {} /\ statements = 0
  /\ menu \in DOMAIN Menus

Stop(v) ==
  /\ verdict' = v
  /\ UNCHANGED <<scope_stack, scope_counter, function, symtable, headers, begun,
                 blocks, identifiers, statements, menu>>

\* parse_function without a definition: the header is read, the body is
\* skipped, the scope of the parameters is entered and left.
DeclareFunction(h) ==
  /\ verdict = Running /\ begun = 0 /\ Len(headers) < MaxFunctions
  /\ IF FunKey(h.name) \in DOMAIN symtable
     THEN Stop(OTHER_ERROR)
     ELSE /\ S!Room(1)
          /\ scope_counter' = scope_counter + 1
          /\ function' = h.name
          /\ symtable' = Inserted(symtable, FunKey(h.name),
               [kind |-> "function", type |-> h.type, used |-> h.name = "main",
                home |-> 0, params |-> [i \in DOMAIN h.params |-> h.params[i].type]])
          /\ headers' = Append(headers, h)
          /\ UNCHANGED <<scope_stack, verdict, begun, blocks, identifiers,
                         statements, menu>>

\* A block under construction: its statements as far as they matter to the
\* checks of return, and what is still to be parsed before them.
Block(kind, todo, opened) ==
  [kind |-> kind, todo |-> todo, opened |-> opened, empty |-> TRUE, code |-> <<>>,
   other |-> <<>>]

\* parse_program after the end of the text: the input is rewound and the
\* first function read again.  Without any, *program_node->body is read.
BeginFunction ==
  /\ verdict = Running /\ blocks = <<>>
  /\ \/ /\ headers = <<>> /\ Stop(Crash)
     \/ /\ begun < Len(headers)
        /\ UNCHANGED symtable
        /\ S!OpenFunction(headers[begun + 1].name)
        /\ begun' = begun + 1
        /\ blocks' = <<Block("function", headers[begun + 1].params, TRUE)>>
        /\ UNCHANGED <<verdict, headers, identifiers, statements, menu>>

Header == headers[begun]
Top == blocks[Len(blocks)]

\* parse_parameter
ParseParameter ==
  /\ verdict = Running /\ blocks # <<>> /\ Top.todo # <<>>
  /\ LET p == Head(Top.todo)
     IN IF S!CurrentKey(p.name) \in DOMAIN symtable
        THEN Stop(OTHER_ERROR)
        ELSE /\ \E garbage \in BOOLEAN :
                  symtable' = Inserted(symtable, S!CurrentKey(p.name),
                                Variable("parameter", p.type, garbage, begun))
             /\ blocks' = [blocks EXCEPT ![Len(blocks)].todo = Tail(@)]
             /\ UNCHANGED <<scope_stack, scope_counter, function, verdict, headers,
                            begun, identifiers, statements, menu>>
-----------------------------------------------------------------------------
(* The statements of a block: parse_block, parse_statement *)

\* The next token starts a statement of the innermost block.
AtStatement ==
  /\ verdict = Running /\ blocks # <<>>
  /\ Top.todo = <<>> /\ Top.opened /\ Top.kind # "after"

NewStatement ==
  /\ AtStatement /\ statements < Menus[menu].MaxStatements
  /\ statements' = statements + 1

\* error_exit in the middle of a statement.
StopAt(v) ==
  /\ verdict' = v
  /\ UNCHANGED <<scope_stack, scope_counter, function, symtable, headers, begun,
                 blocks, identifiers, menu>>

\* An identifier node in the tree: its symbol's name, the function and the
\* scopes around it.
Placed(names, scopes) ==
  {[name |-> k, in |-> begun, within |-> scopes] : k \in names}
OpenScopes == ToSet(scope_stack)

Appended(code) ==
  [blocks EXCEPT ![Len(blocks)].code = @ \o code, ![Len(blocks)].empty = FALSE]

\* A statement without blocks whose checks gave err.
Simple(err, table, names, code) ==
  IF err # NoError THEN StopAt(err)
  ELSE /\ symtable' = table
       /\ identifiers' = identifiers \cup Placed(names, OpenScopes)
       /\ blocks' = Appended(code)
       /\ UNCHANGED <<scope_stack, scope_counter, function, verdict, headers,
                      begun, menu>>

\* parse_variable_declaration; d.type is "unknown" when it is left out.  The
\* redefinition is looked for after the initializer was parsed.  Whether it
\* is a constant is recorded and never read again.
VariableError(d, x) ==
  LET inferred == d.type = "unknown"
  IN FirstError(<<
        Check(x.err),
        <<~inferred /\ ~can_assign_type(d.type, x.type), TYPE>>,
        <<inferred /\ x.type = "void", TYPE>>,
        <<inferred /\ x.type \in {"unknown", "null"}, INFER>>,
        <<StringLiteral(x), INFER>>,
        <<S!DeclaredOutside(d.name), OTHER_ERROR>>,
        <<S!CurrentKey(d.name) \in DOMAIN symtable, OTHER_ERROR>> >>)

DeclareVariable(d) ==
  /\ NewStatement
  /\ \E x \in {Expression(d.init)}, garbage \in BOOLEAN :
       Simple(VariableError(d, x),
              Inserted(Marked(symtable, x.marks), S!CurrentKey(d.name),
                Variable("variable", IF d.type = "unknown" THEN x.type ELSE d.type,
                         garbage, S!current_scope_id)),
              x.idents, <<>>)

\* parse_variable_assigning, of a variable: a constant is assigned to like any
\* other, and an integer stays one in a float variable, because the
\* conversion is only tried where the types cannot be assigned.
AssignVariable(a) ==
  /\ NewStatement
  /\ \E k \in {Find(a.name)}, x \in {Expression(a.value)} :
       Simple(FirstError(<< <<k = S!NoKey, UNDEF>>, Check(x.err), <<StringLiteral(x), INFER>>,
                            <<~can_assign_type(TypeOf(k), x.type), TYPE>> >>),
              Marked(symtable, x.marks \cup {k}), x.idents \cup {k}, <<>>)

\* parse_variable_assigning, of "_", whose type TYPE_ALL takes any value.
Discard(e) ==
  /\ NewStatement
  /\ \E x \in {Expression(e)} :
       Simple(x.err, Marked(symtable, x.marks), x.idents, <<>>)

\* parse_variable_assigning, of a call: the value of a user's function may not
\* be ignored, that of a built-in one may.
CallStatement(e) ==
  /\ NewStatement
  /\ \E x \in {Call(e)} :
       Simple(FirstError(<<Check(x.err), <<e.form = "call" /\ x.type # "void", PARAMS>> >>),
              Marked(symtable, x.marks), {}, <<>>)

\* parse_return_statement; NoValue is a return without an expression.
NoValue == [form |-> "none"]
Returned(e) ==
  IF e = NoValue THEN Node(NoError, FALSE, "void", NoName, {}, {}) ELSE Expression(e)
Return(e) ==
  /\ NewStatement
  /\ \E x \in {Returned(e)} :
       Simple(x.err, Marked(symtable, x.marks), x.idents,
              << [t |-> "return", type |-> x.type, literal |-> x.literal,
                  bare |-> e = NoValue] >>)

\* parse_if_statement and parse_while_statement up to their block.  The name
\* between pipes is entered in the scope around the statement, under whatever
\* symbol that scope already has of this name; its declaration node, and an
\* identifier node named after the condition, are put into the block.
ConditionError(c, x) ==
  FirstError(<<Check(x.err),
               <<x.type # "bool" /\ ~is_nullable(x.type), TYPE>>,
               <<c.pipe \in Functions /\ FunKey(c.pipe) \in DOMAIN symtable, OTHER_ERROR>> >>)

\* The scope of the block that follows.
BlockScope == scope_counter + 2

OpenStatement(kind, c, x, garbage) ==
  /\ symtable' = IF c.pipe = NoPipe THEN Marked(symtable, x.marks)
                 ELSE Inserted(Marked(symtable, x.marks), S!CurrentKey(c.pipe),
                        Variable("variable", detach_nullable(x.type), garbage, BlockScope))
  /\ identifiers' = identifiers \cup Placed(x.idents, OpenScopes)
       \cup IF c.pipe = NoPipe THEN {}
            ELSE Placed({x.name}, OpenScopes \cup {BlockScope - 1, BlockScope})
  /\ blocks' = Append(Appended(<<>>), Block(kind, <<>>, FALSE))
  /\ UNCHANGED <<scope_stack, scope_counter, function, verdict, headers, begun, menu>>

Condition(kind, c) ==
  /\ NewStatement
  /\ \E x \in {Expression(c.condition)}, garbage \in BOOLEAN :
       IF ConditionError(c, x) # NoError THEN StopAt(ConditionError(c, x))
       ELSE OpenStatement(kind, c, x, garbage)

Unchanged == UNCHANGED <<headers, begun, identifiers, statements, menu>>

\* enter_scope before parse_block and enter_scope in it.
EnterBlock ==
  /\ verdict = Running /\ blocks # <<>> /\ ~Top.opened
  /\ IF ~S!Room(2) THEN Stop(INTERNAL)
     ELSE /\ S!EnterScopes(2)
          /\ blocks' = [blocks EXCEPT ![Len(blocks)].opened = TRUE]
          /\ UNCHANGED <<function, symtable, verdict>> /\ Unchanged

Outer == SubSeq(blocks, 1, Len(blocks) - 1)
Closed(node) == [Outer EXCEPT ![Len(Outer)].code = Append(@, node)]

\* Mutant: only one of the two scopes of a block is left.
CloseTrueBlockHalf ==
  /\ AtStatement /\ Top.kind = "true"
  /\ S!ExitScopes(1)
  /\ blocks' = [blocks EXCEPT ![Len(blocks)].kind = "after"]
  /\ UNCHANGED <<function, symtable, verdict>> /\ Unchanged

\* The right brace of a true block; what follows decides about else.
CloseTrueBlock ==
  /\ AtStatement /\ Top.kind = "true"
  /\ S!ExitScopes(2)
  /\ blocks' = [blocks EXCEPT ![Len(blocks)].kind = "after"]
  /\ UNCHANGED <<function, symtable, verdict>> /\ Unchanged

AfterTrueBlock ==
  /\ verdict = Running /\ blocks # <<>> /\ Top.kind = "after"
  /\ \/ blocks' = Append(Outer, [Block("else", <<>>, FALSE) EXCEPT !.other = Top.code])
     \/ blocks' = Closed([t |-> "if", body |-> Top.code, left |-> <<>>])
  /\ UNCHANGED <<scope_stack, scope_counter, function, symtable, verdict>> /\ Unchanged

CloseBlock ==
  /\ AtStatement /\ Top.kind \in {"else", "while"}
  /\ S!ExitScopes(2)
  /\ blocks' = IF Top.kind = "else"
               THEN Closed([t |-> "if", body |-> Top.other, left |-> Top.code])
               ELSE Closed([t |-> "while", body |-> Top.code])
  /\ UNCHANGED <<function, symtable, verdict>> /\ Unchanged
-----------------------------------------------------------------------------
(* The end of a function *)

\* The right brace of the body: the end of parse_function.
EndFunction ==
  LET err == ReturnError(Header.type, Top.empty, Top.code)
  IN /\ AtStatement /\ Top.kind = "function"
     /\ IF err # NoError THEN Stop(err)
        ELSE /\ S!ExitScopes(1)
             /\ blocks' = <<>>
             /\ UNCHANGED <<function, symtable, verdict>> /\ Unchanged
-----------------------------------------------------------------------------
(* The end of parse_program *)

HeaderIndex(f) == CHOOSE i \in DOMAIN headers : headers[i].name = f

\* scope_check_identifiers_in_tree, of one node.  The walk from a declaration
\* reaches what follows it in its block and the blocks inside; the walk from
\* a function's node also the functions behind it.  A built-in function has
\* no declaration, and an operator's name has no symbol at all.
ScopeError(id) ==
  IF id.name = OperatorName THEN Crash
  ELSE IF id.name = BuiltinName THEN UNDEF
  ELSE LET s == symtable[id.name]
       IN CASE s.kind = "variable" -> IF s.home \in id.within THEN NoError ELSE UNDEF
            [] s.kind = "parameter" -> IF s.home <= id.in THEN NoError ELSE UNDEF
            [] s.kind = "function" ->
                 IF HeaderIndex(id.name[1]) <= id.in THEN NoError ELSE UNDEF

ScopeErrors == {ScopeError(id) : id \in identifiers} \ {NoError}

\* is_main_correct and is_symtable_all_used
MainError ==
  IF FunKey("main") \notin DOMAIN symtable THEN UNDEF
  ELSE FirstError(<< <<symtable[FunKey("main")].params # <<>>, PARAMS>>,
                     <<TypeOf(FunKey("main")) # "void", PARAMS>>,
                     <<\E k \in DOMAIN symtable : ~symtable[k].used, UNUSED>> >>)

\* Which of several misplaced identifiers the walk meets first is left open.
Finish ==
  /\ verdict = Running /\ blocks = <<>> /\ headers # <<>> /\ begun = Len(headers)
  /\ IF MainError # NoError THEN Stop(MainError)
     ELSE IF ScopeErrors # {} THEN \E v \in ScopeErrors : Stop(v)
     ELSE Stop(Accepted)
-----------------------------------------------------------------------------
ParserNext ==
  \/ \E h \in Menus[menu].headers : DeclareFunction(h)
  \/ BeginFunction \/ ParseParameter
  \/ \E d \in Menus[menu].declarations : DeclareVariable(d)
  \/ \E a \in Menus[menu].assignments : AssignVariable(a)
  \/ \E e \in Menus[menu].discards : Discard(e)
  \/ \E e \in Menus[menu].calls : CallStatement(e)
  \/ \E e \in Menus[menu].returns : Return(e)
  \/ \E kind \in {"true", "while"}, c \in Menus[menu].conditions : Condition(kind, c)
  \/ EnterBlock \/ CloseTrueBlock \/ AfterTrueBlock \/ CloseBlock
  \/ EndFunction \/ Finish

ParserSpec == ParserInit /\ [][ParserNext]_parserVars
-----------------------------------------------------------------------------
(* Properties *)

\* Whatever the program, its scopes are entered, filled and left as Scopes
\* describes, and so (ScopesProofs) as nested blocks: declarations reach no
\* further than their block.
ImplementsScopes == S!ScopesSpec
ScopesAreLexical == S!ScopesAreLexical

\* A name that was resolved while its text was parsed, by the numbers on the
\* stack, stands where the later walk of the tree finds its declaration: the
\* two ways in which the parser decides scope can only disagree about a
\* name between pipes, whose declaration is not where its key says.
OrdinaryNamesInScope ==
  \A id \in identifiers :
    (id.name \in VariableKeys /\ symtable[id.name].home = id.name[2])
      => id.name[2] \in id.within

\* "Variable is already defined": a name between pipes that a declaration in
\* an open block has taken is refused, as a second declaration of it is.
PipeNamesAreNew ==
  [][\A kind \in {"true", "while"}, c \in Menus[menu].conditions :
       \A k \in {Find(c.pipe)} \ {S!NoKey} :
         Condition(kind, c) /\ symtable[k].kind = "variable" /\ symtable[k].home = k[2]
           => verdict' # Running]_parserVars
=============================================================================
