------------------------------- MODULE Scopes -------------------------------
(***************************************************************************)
(* How the compiler finds the declaration a name refers to (src/2/IFJ/     *)
(* parser.c): the symbol table is flat, and a variable is entered under    *)
(* "name.scope.function".  Scopes are numbered by a counter that is never  *)
(* reset; the numbers of the open ones are kept on a stack of fixed depth. *)
(* The module holds the operations; Parser puts them in the order in which *)
(* a program's text makes them happen.                                     *)
(***************************************************************************)
EXTENDS Integers, Sequences

CONSTANTS
  Identifiers,       \* names a program may give to variables
  Functions,         \* names it may give to functions
  MAX_SCOPE_DEPTH    \* size of scope_stack

VARIABLES
  scope_stack,     \* scope_stack[0 .. scope_stack_top]
  scope_counter,
  declared,        \* the keys of variables and parameters in the table
  function         \* the function whose text is being parsed

scopeVars == <<scope_stack, scope_counter, declared, function>>

\* construct_variable_name: the scope is the current one.
VarKey(n, scope, f) == <<n, scope, f>>

\* The scope 0 below the stack belongs to no block.
current_scope_id == IF scope_stack = <<>> THEN 0 ELSE scope_stack[Len(scope_stack)]

CurrentKey(n) == VarKey(n, current_scope_id, function)

DeclaredIn(n, scope) == VarKey(n, scope, function) \in declared

ScopeAt(i) == IF i = 0 THEN 0 ELSE scope_stack[i]

\* The positions up to top at which n is declared, 0 for below the stack.
Hits(n, top) == {i \in 0 .. top : DeclaredIn(n, ScopeAt(i))}

\* search_variable_in_scopes returns the first hit from the top; NoKey is NULL.
NoKey == <<>>

\* Mutant: every number given out is tried, not those on the stack.
search_variable_in_numbers(n) ==
  LET hits == {i \in 0 .. scope_counter : DeclaredIn(n, i)}
  IN IF hits = {} THEN NoKey
     ELSE VarKey(n, CHOOSE i \in hits : \A j \in hits : j <= i, function)

search_variable_in_scopes(n) ==
  LET hits == Hits(n, Len(scope_stack))
  IN IF hits = {} THEN NoKey
     ELSE VarKey(n, ScopeAt(CHOOSE i \in hits : \A j \in hits : j <= i), function)

\* search_variable_in_outer_scopes starts one below the top.
DeclaredOutside(n) == Hits(n, Len(scope_stack) - 1) # {}

Room(k) == Len(scope_stack) + k <= MAX_SCOPE_DEPTH

\* enter_scope, k times in a row; the overflow that ends the program is ~Room.
EnterScopes(k) ==
  /\ Room(k)
  /\ scope_stack' = scope_stack \o [i \in 1 .. k |-> scope_counter + i]
  /\ scope_counter' = scope_counter + k

\* Mutant: the numbers of scopes that are left are given out again.
ExitScopesReusing(k) ==
  /\ Len(scope_stack) >= k
  /\ scope_stack' = SubSeq(scope_stack, 1, Len(scope_stack) - k)
  /\ scope_counter' = scope_counter - k

\* exit_scope, k times in a row.
ExitScopes(k) ==
  /\ Len(scope_stack) >= k
  /\ scope_stack' = SubSeq(scope_stack, 1, Len(scope_stack) - k)
  /\ UNCHANGED scope_counter

\* symtable_insert refuses a key that is taken, and its callers do not look.
Enter(n) == declared' = declared \cup {CurrentKey(n)}
-----------------------------------------------------------------------------
(* The operations in any order a block structure allows. *)

ScopesInit ==
  /\ scope_stack = <<>> /\ scope_counter = 0
  /\ declared = {}
  /\ function \in Functions

\* parse_function: one scope for the parameters and the body.
OpenFunction(f) ==
  /\ scope_stack = <<>>
  /\ function' = f /\ EnterScopes(1) /\ UNCHANGED declared

\* Its first reading, for the header only: the body is skipped.
SkipFunction(f) ==
  /\ scope_stack = <<>> /\ Room(1)
  /\ scope_counter' = scope_counter + 1
  /\ function' = f /\ UNCHANGED <<scope_stack, declared>>

CloseFunction ==
  Len(scope_stack) = 1 /\ ExitScopes(1) /\ UNCHANGED <<declared, function>>

\* parse_if_statement and parse_while_statement enter a scope around
\* parse_block, which enters another.
OpenBlock ==
  scope_stack # <<>> /\ EnterScopes(2) /\ UNCHANGED <<declared, function>>

CloseBlock ==
  Len(scope_stack) >= 3 /\ ExitScopes(2) /\ UNCHANGED <<declared, function>>

\* parse_variable_declaration
DeclareVariable(n) ==
  /\ scope_stack # <<>>
  /\ ~DeclaredOutside(n) /\ ~DeclaredIn(n, current_scope_id)
  /\ Enter(n)
  /\ UNCHANGED <<scope_stack, scope_counter, function>>

\* parse_parameter, and the name between pipes of an if or a while.
DeclareLocal(n) ==
  /\ scope_stack # <<>>
  /\ Enter(n)
  /\ UNCHANGED <<scope_stack, scope_counter, function>>

ScopesNext ==
  \/ \E f \in Functions : OpenFunction(f) \/ SkipFunction(f)
  \/ CloseFunction \/ OpenBlock \/ CloseBlock
  \/ \E n \in Identifiers : DeclareVariable(n) \/ DeclareLocal(n)

ScopesSpec == ScopesInit /\ [][ScopesNext]_scopeVars
-----------------------------------------------------------------------------
(* Properties *)

FrameOf(scope) == {n \in Identifiers : DeclaredIn(n, scope)}

Lex == INSTANCE LexicalScopes
         WITH frames <- [i \in DOMAIN scope_stack |-> FrameOf(scope_stack[i])]

\* The flat table and the stack of numbers behave as nested blocks do: a
\* block just opened sees no name of its own, whatever blocks and functions
\* came and went before it, and a name declared in it goes when it closes.
ScopesAreLexical == Lex!LexSpec
=============================================================================
