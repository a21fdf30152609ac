-------------------------- MODULE SymbolDictionary --------------------------
(***************************************************************************)
(* What the compiler's symbol table promises its callers, whatever its     *)
(* representation: a partial function from names to symbols, of which only *)
(* the mark "has been looked up" matters here.  SymTable implements it.    *)
(***************************************************************************)
CONSTANTS
  SymNames, SymBuiltin,      \* the names, and those of built-in functions
  SymNull, SymAllUsed    \* answers that are no name

VARIABLES symbols,  \* the names in the table, each with its mark
          answer    \* what the last operation returned

Put(n, used) == [m \in DOMAIN symbols \cup {n} |-> IF m = n THEN used ELSE symbols[m]]

\* A name is inserted once; a second symbol of that name is refused.
Insert(n, used) ==
  \/ n \notin DOMAIN symbols /\ symbols' = Put(n, used) /\ answer' = n
  \/ n \in DOMAIN symbols /\ UNCHANGED symbols /\ answer' = SymNull

\* Looking a name up marks it.
Search(n) ==
  \/ n \in DOMAIN symbols /\ symbols' = Put(n, TRUE) /\ answer' = n
  \/ n \notin DOMAIN symbols /\ UNCHANGED symbols /\ answer' = SymNull

Remove(n) ==
  /\ symbols' = [m \in DOMAIN symbols \ {n} |-> symbols[m]]
  /\ UNCHANGED answer

Clear == symbols' = [n \in {} |-> FALSE] /\ UNCHANGED answer

\* The report of a symbol that was never looked up, built-in ones excepted.
CheckUsed ==
  /\ answer' = IF \A n \in DOMAIN symbols \ SymBuiltin : symbols[n]
               THEN SymAllUsed ELSE SymNull
  /\ UNCHANGED symbols

=============================================================================
