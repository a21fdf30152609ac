---------------------------- MODULE ReturnChecks ----------------------------
(***************************************************************************)
(* The checks of return (src/2/IFJ/parser.c): check_return_types and what  *)
(* it calls, over the statements of a body as Parser keeps them.  They are *)
(* recursive, over blocks inside blocks, and stand in a module of their    *)
(* own: Parser takes them as its parameter ReturnError.                    *)
(***************************************************************************)
EXTENDS Parser

\* Mutant: a return in one branch of an if is enough.
RECURSIVE ReturnsSomewhere(_)
ReturnsSomewhere(code) ==
  /\ code # <<>>
  /\ LET n == Head(code)
     IN \/ n.t = "return"
        \/ n.t = "if" /\ (ReturnsSomewhere(n.body) \/ ReturnsSomewhere(n.left))
        \/ ReturnsSomewhere(Tail(code))

\* check_return_types_recursive: some return is met on the way through the
\* list, or both branches of an if have one; the body of a while never counts.
RECURSIVE Returns(_)
Returns(code) ==
  /\ code # <<>>
  /\ LET n == Head(code)
     IN \/ n.t = "return"
        \/ n.t = "if" /\ Returns(n.body) /\ Returns(n.left)
        \/ n.t # "return" /\ Returns(Tail(code))

\* The return nodes it looks at: none behind one that ends the list.
RECURSIVE Visited(_)
Visited(code) ==
  IF code = <<>> THEN {}
  ELSE LET n == Head(code)
       IN CASE n.t = "return" -> {n}
            [] n.t = "if" -> Visited(n.body) \cup Visited(n.left)
                 \cup IF Returns(<<n>>) THEN {} ELSE Visited(Tail(code))
            [] n.t = "while" -> Visited(n.body) \cup Visited(Tail(code))

\* All return nodes in the order of check_all_return_types.
RECURSIVE AllReturns(_)
AllReturns(code) ==
  IF code = <<>> THEN <<>>
  ELSE LET n == Head(code)
       IN (CASE n.t = "return" -> <<n>>
             [] n.t = "if" -> AllReturns(n.body) \o AllReturns(n.left)
             [] n.t = "while" -> AllReturns(n.body)) \o AllReturns(Tail(code))

\* check_all_return_types: a conversion is for literals; a return without an
\* expression has no node to ask.
LateReturnError(n, type) ==
  IF n.type = type THEN NoError
  ELSE IF n.bare THEN Crash
  ELSE IF ~n.literal \/ ~can_assign_type(type, n.type) THEN PARAMS ELSE NoError

\* check_return_types: for a void function it starts by reading the first
\* statement, which a function with an empty body does not have.
check_return_types(type, empty, code) ==
  LET all == AllReturns(code)
      late == [i \in DOMAIN all |-> Check(LateReturnError(all[i], type))]
  IN IF type = "void"
     THEN FirstError(<< <<empty, Crash>>,
                        <<\E i \in DOMAIN all : all[i].type # "void", RETURN>> >>)
     ELSE FirstError(<< <<\E n \in Visited(code) : ~can_assign_type(type, n.type), PARAMS>>,
                        <<~Returns(code), RETURN>> >> \o late)
-----------------------------------------------------------------------------
(* Property *)

\* The ways a run of a body can end: with a return node, or off its end.
Off == [t |-> "off", type |-> "", literal |-> FALSE, bare |-> FALSE]
RECURSIVE Ends(_)
Ends(code) ==
  IF code = <<>> THEN {Off}
  ELSE LET n == Head(code)
           inner == CASE n.t = "return" -> {n}
                      [] n.t = "if" -> Ends(n.body) \cup Ends(n.left)
                      [] n.t = "while" -> Ends(n.body) \cup {Off}
       IN (inner \ {Off})
            \cup IF Off \in inner THEN Ends(Tail(code)) ELSE {}

\* A function that passes the checks of return cannot run off its end unless
\* it is void, and every return that a run can reach gives a value of the
\* function's type, or a literal that becomes one.
FunctionsReturn ==
  [][(blocks # <<>> /\ blocks' = <<>>) =>
       \A end \in Ends(Top.code) :
         IF Header.type = "void" THEN end = Off \/ end.type = "void"
         ELSE /\ end # Off
              /\ \/ end.type = Header.type
                 \/ end.literal /\ can_assign_type(Header.type, end.type)]_parserVars
=============================================================================
