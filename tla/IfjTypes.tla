------------------------------ MODULE IfjTypes ------------------------------
(***************************************************************************)
(* The typing rules of the compiler's parser (src/2/IFJ/parser.c): which   *)
(* value may be stored where and what an operator makes of its operands.   *)
(* An operand is a record with its type and whether its node is a literal; *)
(* only an integer literal is ever converted, to the float of its value.   *)
(***************************************************************************)
NullableTypes == {"int?", "float?", "u8?"}

DataTypes == {"null", "int", "float", "all", "void", "bool", "u8", "unknown"}
               \cup NullableTypes

is_nullable(t) == t \in NullableTypes

detach_nullable(t) ==
  CASE t = "int?" -> "int"
    [] t = "float?" -> "float"
    [] t = "u8?" -> "u8"
    [] OTHER -> t

can_assign_type(expected, actual) ==
  \/ expected = actual
  \/ expected = "float" /\ actual = "int"
  \/ is_nullable(expected) /\ actual \in {detach_nullable(expected), "null"}

NoType == "no type"

IntLiteral(x) == x.literal /\ x.type = "int"

\* Two operands of the types int and float, one of them an integer literal.
Convertible(l, r) ==
  \/ IntLiteral(l) /\ detach_nullable(r.type) = "float"
  \/ IntLiteral(r) /\ detach_nullable(l.type) = "float"

\* == and !=: null is compared with nullable operands only.
EqualityType(l, r) ==
  IF "null" \in {l.type, r.type}
  THEN IF is_nullable(l.type) \/ is_nullable(r.type) THEN "bool" ELSE NoType
  ELSE IF detach_nullable(l.type) = detach_nullable(r.type) \/ Convertible(l, r)
       THEN "bool" ELSE NoType

\* The operands' common type of the other operators.
NumberType(l, r) ==
  IF {l.type, r.type} \cap (NullableTypes \cup {"null"}) # {} THEN NoType
  ELSE IF l.type = r.type
       THEN IF l.type \in {"int", "float"} THEN l.type ELSE NoType
       ELSE IF Convertible(l, r) THEN "float" ELSE NoType

\* perform_type_checking_and_create_node; NoType is ERR_SEMANTIC_TYPE.
OperationType(op, l, r) ==
  IF {l.type, r.type} \cap {"u8", "u8?"} # {} THEN NoType
  ELSE IF op = "equality" THEN EqualityType(l, r)
       ELSE IF op = "relation" /\ NumberType(l, r) # NoType THEN "bool"
            ELSE NumberType(l, r)
=============================================================================
