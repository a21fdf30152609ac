------------------------------ MODULE SymTable ------------------------------
(***************************************************************************)
(* The compiler's symbol table (src/2/IFJ/symtable.c): a hash table with   *)
(* chaining that doubles before the insertion that finds it three quarters *)
(* full.  A symbol is its name and its mark is_used; what else a symbol    *)
(* carries never decides anything here.  The string hash is a CONSTANT.    *)
(***************************************************************************)
EXTENDS Integers, Sequences, FiniteSets, SequencesExt

CONSTANTS
  SymNames,         \* the keys the callers use
  SymHash,        \* the hash of a key before it is reduced modulo the size
  SymBuiltin,       \* the keys that start with "ifj."
  SymUnderscore,    \* the key "_", in the table from the start
  SymNull,        \* the NULL the functions return, or the exit with an error
  SymAllUsed,     \* is_symtable_all_used returned
  SymInitialSize,   \* INITIAL_SYMTABLE_SIZE
  SymMaxSize        \* bound: the largest table of the model

ASSUME SymTableAssumption ==
  /\ SymInitialSize \in Nat \ {0} /\ SymMaxSize \in Nat
  /\ SymUnderscore \in SymNames /\ SymBuiltin \subseteq SymNames /\ SymNames \cap {SymNull, SymAllUsed} = {}
  /\ SymHash \in [SymNames -> Nat]

VARIABLES
  symSize,    \* symtable->size
  symCount,   \* symtable->count
  symTable,   \* symtable->table: the chain of every index
  symAnswer   \* the name of the symbol the last call returned, or SymNull

symVars == <<symSize, symCount, symTable, symAnswer>>

symtable_hash(n, size) == SymHash[n] % size

NoChains(size) == [i \in 0 .. size - 1 |-> <<>>]

PushSymbol(t, s, size) ==
  [t EXCEPT ![symtable_hash(s.name, size)] = <<s>> \o @]

\* The position of n in a chain, 0 when it is not there.
SymPosition(chain, n) ==
  IF \E i \in DOMAIN chain : chain[i].name = n
  THEN CHOOSE i \in DOMAIN chain :
         chain[i].name = n /\ \A j \in 1 .. i - 1 : chain[j].name # n
  ELSE 0

\* The places of symbols: an index and a position in its chain.
Cells(t, size) == UNION {{h} \X DOMAIN t[h] : h \in 0 .. size - 1}
At(t, c) == t[c[1]][c[2]]

\* The table is read from index 0 up, every chain from its head.
ReadAfter(c, d) == c[1] > d[1] \/ (c[1] = d[1] /\ c[2] > d[2])

\* The symbols that stand at cells, pushed in front of one chain as they are read:
\* the one read last is its head.
PushedInTurn(t, cells) ==
  [i \in 1 .. Cardinality(cells) |->
     At(t, CHOOSE c \in cells : Cardinality({d \in cells : ReadAfter(d, c)}) = i - 1)]

\* Mutant: the chains are chosen with the size that the table had.
GrownTableOldHash(t, size) ==
  [h \in 0 .. 2 * size - 1 |->
     PushedInTurn(t, {c \in Cells(t, size) : symtable_hash(At(t, c).name, size) = h})]

\* symtable_grow: every symbol is pushed in front of its chain in the table
\* of twice the size.
GrownTable(t, size) ==
  [h \in 0 .. 2 * size - 1 |->
     PushedInTurn(t, {c \in Cells(t, size) : symtable_hash(At(t, c).name, 2 * size) = h})]

NeedsGrowth == 4 * symCount >= 3 * symSize

SizeForInsert == IF NeedsGrowth THEN 2 * symSize ELSE symSize
TableForInsert == IF NeedsGrowth THEN GrownTable(symTable, symSize) ELSE symTable

SymInit ==
  /\ symSize = SymInitialSize
  /\ symCount = 1
  /\ symTable = PushSymbol(NoChains(SymInitialSize),
                           [name |-> SymUnderscore, used |-> TRUE], SymInitialSize)
  /\ symAnswer = SymUnderscore

\* The growth comes before the search for a duplicate, so that a refused
\* insertion may still have doubled the table.
symtable_insert(n, used) ==
  /\ SizeForInsert <= SymMaxSize
  /\ symSize' = SizeForInsert
  /\ IF SymPosition(TableForInsert[symtable_hash(n, SizeForInsert)], n) # 0
     THEN symTable' = TableForInsert /\ symAnswer' = SymNull /\ UNCHANGED symCount
     ELSE /\ symTable' = PushSymbol(TableForInsert, [name |-> n, used |-> used],
                                    SizeForInsert)
          /\ symCount' = symCount + 1
          /\ symAnswer' = n

symtable_search(n) ==
  LET h == symtable_hash(n, symSize)
      i == SymPosition(symTable[h], n)
  IN /\ \/ /\ i # 0
           /\ symTable' = [symTable EXCEPT ![h][i].used = TRUE]
           /\ symAnswer' = n
        \/ i = 0 /\ symAnswer' = SymNull /\ UNCHANGED symTable
     /\ UNCHANGED <<symSize, symCount>>

\* Mutant: the chain loses its head, whatever the place of the symbol in it.
symtable_remove_head(n) ==
  LET h == symtable_hash(n, symSize)
  IN /\ SymPosition(symTable[h], n) # 0
     /\ symTable' = [symTable EXCEPT ![h] = Tail(@)]
     /\ symCount' = symCount - 1
     /\ UNCHANGED <<symSize, symAnswer>>

\* The predecessor is linked to the successor.
symtable_remove(n) ==
  LET h == symtable_hash(n, symSize)
      i == SymPosition(symTable[h], n)
  IN /\ i # 0
     /\ symTable' = [symTable EXCEPT ![h] = RemoveAt(@, i)]
     /\ symCount' = symCount - 1
     /\ UNCHANGED <<symSize, symAnswer>>

\* A scan of every chain that skips the built-in functions; a symbol without
\* its mark ends the program with ERR_SEMANTIC_UNUSED.
is_symtable_all_used ==
  /\ symAnswer' = IF \A h \in 0 .. symSize - 1 : \A i \in DOMAIN symTable[h] :
                       symTable[h][i].used \/ symTable[h][i].name \in SymBuiltin
                  THEN SymAllUsed ELSE SymNull
  /\ UNCHANGED <<symSize, symCount, symTable>>

\* The table of size 0 that is left can only be initialised again.
symtable_free ==
  /\ symSize' = 0 /\ symCount' = 0 /\ symTable' = NoChains(0)
  /\ UNCHANGED symAnswer

SymNext ==
  /\ symSize > 0
  /\ \/ \E n \in SymNames :
          \/ \E used \in BOOLEAN : symtable_insert(n, used)
          \/ symtable_search(n)
          \/ symtable_remove(n)
     \/ is_symtable_all_used
     \/ symtable_free

SymSpec == SymInit /\ [][SymNext]_symVars
-----------------------------------------------------------------------------
(* Properties *)

\* Every symbol stands in the chain its name hashes to, and no name twice.
Hashed(t, size) ==
  /\ \A c \in Cells(t, size) : symtable_hash(At(t, c).name, size) = c[1]
  /\ \A c, d \in Cells(t, size) : At(t, c).name = At(t, d).name => c = d

\* The table is hashed under its present size, and the count is the number of
\* symbols: insertion, removal and every rehash while the table grows keep it so.
ChainsRight ==
  /\ Hashed(symTable, symSize)
  /\ Cardinality(Cells(symTable, symSize)) = symCount

\* The table seen as a partial function of names.
Names(t, size) == {At(t, c).name : c \in Cells(t, size)}
Mark(t, size, n) == At(t, CHOOSE c \in Cells(t, size) : At(t, c).name = n).used
Contents(t, size) == [n \in Names(t, size) |-> Mark(t, size, n)]

D == INSTANCE SymbolDictionary
       WITH symbols <- Contents(symTable, symSize), answer <- symAnswer

\* From the moment "_" is in it, the table answers every call as the
\* dictionary does: a lookup finds exactly what was inserted and not
\* removed, before and after the table grows, and marks nothing else.
ImplementsDictionary ==
  [][/\ \A n \in SymNames :
          /\ \A used \in BOOLEAN : symtable_insert(n, used) => D!Insert(n, used)
          /\ symtable_search(n) => D!Search(n)
          /\ symtable_remove(n) => D!Remove(n)
     /\ is_symtable_all_used => D!CheckUsed
     /\ symtable_free => D!Clear]_symVars
=============================================================================
