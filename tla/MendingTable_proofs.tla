------------------------- MODULE MendingTable_proofs -------------------------
(***************************************************************************)
(* Proofs about MendingTable, for any set of names the source leaves       *)
(* undeclared, any number of generated names and any bounds.               *)
(***************************************************************************)
EXTENDS MendingTable, TLAPS

Failures == {"no", "heuristic", "lookup", "enum", "circular"}

\* A type that can be written with the aliases A and the tags T: what it refers to
\* is there, and only a pointer is written with an alias.
GoodType(t, A, T) ==
  /\ t \in Type
  /\ t.alias \in A \cup {NoAlias}
  /\ t.base \in Nat => t.base \in T
  /\ t.alias # NoAlias => t.ptr > 0

\* Every typedef is of such a type, and the counter is ahead of all generated
\* aliases.
TypedefsInv ==
  /\ aliasCounter \in Nat
  /\ DOMAIN typedefs \subseteq Aliases
  /\ typedefs = [a \in DOMAIN typedefs |-> typedefs[a]]
  /\ \A a \in DOMAIN typedefs : GoodType(typedefs[a], DOMAIN typedefs, DOMAIN records)
  /\ \A a \in DOMAIN typedefs : a \in Nat => a < aliasCounter

\* The symbols have aliases that are declared, each its own.
SymbolsInv ==
  /\ DOMAIN records \subseteq Tags
  /\ records \in [DOMAIN records -> SUBSET (Members \X Nat)]
  /\ DOMAIN variables \subseteq Names
  /\ variables \in [DOMAIN variables -> Nat]
  /\ DOMAIN functions \subseteq Names
  /\ functions \in [DOMAIN functions -> Nat]
  /\ \A s \in AliasedSymbols : s[3] \in DOMAIN typedefs \cap Nat
  /\ AliasIdentifiesSymbol

SubscriptsInv ==
  /\ DOMAIN subscripts \subseteq Names \X (Nat \ {0})
  /\ subscripts \in [DOMAIN subscripts -> Nat]
  /\ \A x \in DOMAIN subscripts : subscripts[x] \in DOMAIN typedefs

RestInv ==
  /\ locked \subseteq DOMAIN typedefs
  /\ late \subseteq DOMAIN typedefs
  /\ DOMAIN enums \subseteq NamedEnums
  /\ enums \in [DOMAIN enums -> Nat]
  /\ ppFiles \subseteq Headers
  /\ tagCounter \in Nat /\ constantCounter \in Nat
  /\ dirty \in BOOLEAN
  /\ failed \in Failures

TableInv == TypedefsInv /\ SymbolsInv /\ SubscriptsInv /\ RestInv

-----------------------------------------------------------------------------
\* What Put returns: the function with one more, or one other, value.
LEMMA PutFacts ==
  ASSUME NEW f, NEW k, NEW v
  PROVE  /\ DOMAIN Put(f, k, v) = DOMAIN f \cup {k}
         /\ Put(f, k, v)[k] = v
         /\ \A x \in DOMAIN f : x # k => Put(f, k, v)[x] = f[x]
         /\ Put(f, k, v) = [x \in DOMAIN Put(f, k, v) |-> Put(f, k, v)[x]]
  BY DEF Put

\* The sets the names are taken from do not overlap.
LEMMA NamesApart ==
  /\ \A b \in Builtins \cup NamedRecords \cup NamedEnums : b \notin Nat
  /\ NoAlias \notin Aliases
  BY NamesAssumption DEF Aliases

\* A type stays good when aliases and tags are added.
LEMMA GoodTypeGrows ==
  ASSUME NEW t, NEW A, NEW T, NEW B, NEW U, A \subseteq B, T \subseteq U, GoodType(t, A, T)
  PROVE  GoodType(t, B, U)
  BY DEF GoodType

\* The types that are built from a name.
LEMMA PlainGood ==
  ASSUME NEW A, NEW T, NEW b \in Builtins \cup NamedRecords \cup NamedEnums
  PROVE  GoodType(Plain(b), A, T)
<1>1. Plain(b) \in Type /\ Plain(b).alias = NoAlias /\ Plain(b).base = b
  BY DEF Plain, Type
<1>2. b \notin Nat
  BY NamesApart
<1>3. QED
  BY <1>1, <1>2 DEF GoodType

\* A pointer to a good type is good.
LEMMA PointerGood ==
  ASSUME NEW t, NEW A, NEW T, GoodType(t, A, T)
  PROVE  /\ GoodType(PointerTo(t), A, T)
         /\ PointerTo(t).alias = t.alias
<1>1. t \in Type
  BY DEF GoodType
<1>2. /\ PointerTo(t) \in Type
      /\ PointerTo(t).alias = t.alias /\ PointerTo(t).base = t.base
      /\ PointerTo(t).ptr = t.ptr + 1 /\ t.ptr \in Nat
  BY <1>1 DEF PointerTo, Type
<1>3. QED
  BY <1>2 DEF GoodType

\* What clang sees behind a typedef is good, and written without an alias.
LEMMA CanonicalGood ==
  ASSUME TypedefsInv, NEW a \in DOMAIN typedefs
  PROVE  /\ GoodType(Canonical(typedefs[a]), DOMAIN typedefs, DOMAIN records)
         /\ Canonical(typedefs[a]).alias = NoAlias
<1> DEFINE t == typedefs[a]
<1>1. GoodType(t, DOMAIN typedefs, DOMAIN records)
  BY DEF TypedefsInv
<1> HIDE DEF t
<1>2. CASE t.alias = NoAlias
  BY <1>1, <1>2 DEF Canonical, t
<1>3. CASE t.alias # NoAlias
  <2>1. t.alias \in DOMAIN typedefs
    BY <1>1, <1>3 DEF GoodType
  <2> DEFINE u == typedefs[t.alias]
  <2>2. GoodType(u, DOMAIN typedefs, DOMAIN records)
    BY <2>1 DEF TypedefsInv
  <2> HIDE DEF u
  <2>3. Canonical(t) = [ptr |-> t.ptr + u.ptr, base |-> u.base, alias |-> NoAlias]
    BY <1>3 DEF Canonical, u
  <2>4. t.ptr \in Nat /\ u.ptr \in Nat /\ u \in Type
    BY <1>1, <2>2 DEF GoodType, Type
  <2>5. Canonical(t) \in Type /\ Canonical(t).alias = NoAlias /\ Canonical(t).base = u.base
    BY <2>3, <2>4 DEF Type
  <2>6. QED
    BY <2>2, <2>5 DEF GoodType, t
<1>4. QED
  BY <1>2, <1>3

\* The types of expressions are good; those of symbols are known by an alias that
\* is declared.
LEMMA TypeArgsGood ==
  ASSUME TypedefsInv, NEW q \in TypeArgs
  PROVE  /\ GoodType(q.type, DOMAIN typedefs, DOMAIN records)
         /\ q.alias # NoAlias => q.alias \in DOMAIN typedefs
<1>1. CASE \E a \in DOMAIN typedefs : q = [alias |-> a, type |-> Canonical(typedefs[a])]
  <2>1. PICK a \in DOMAIN typedefs : q = [alias |-> a, type |-> Canonical(typedefs[a])]
    BY <1>1
  <2>2. q.alias = a /\ q.type = Canonical(typedefs[a])
    BY <2>1
  <2>3. QED
    BY <2>2, CanonicalGood
<1>2. CASE \E a \in DOMAIN typedefs :
             q = [alias |-> NoAlias, type |-> PointerTo(Canonical(typedefs[a]))]
  <2>1. PICK a \in DOMAIN typedefs :
               q = [alias |-> NoAlias, type |-> PointerTo(Canonical(typedefs[a]))]
    BY <1>2
  <2>2. q.alias = NoAlias /\ q.type = PointerTo(Canonical(typedefs[a]))
    BY <2>1
  <2>3. QED
    BY <2>2, CanonicalGood, PointerGood
<1>3. CASE \E a \in DOMAIN typedefs :
             /\ typedefs[a].ptr > 0 /\ typedefs[a].alias = NoAlias
             /\ q = [alias |-> NoAlias, type |-> [typedefs[a] EXCEPT !.ptr = @ - 1]]
  <2>1. PICK a \in DOMAIN typedefs :
             /\ typedefs[a].ptr > 0 /\ typedefs[a].alias = NoAlias
             /\ q = [alias |-> NoAlias, type |-> [typedefs[a] EXCEPT !.ptr = @ - 1]]
    BY <1>3
  <2> DEFINE t == typedefs[a]
  <2>2. GoodType(t, DOMAIN typedefs, DOMAIN records) /\ t.ptr > 0 /\ t.alias = NoAlias
    BY <2>1 DEF TypedefsInv
  <2>3. q.alias = NoAlias /\ q.type = [t EXCEPT !.ptr = @ - 1]
    BY <2>1
  <2> HIDE DEF t
  <2>4. t \in Type
    BY <2>2 DEF GoodType
  <2>5. q.type \in Type /\ q.type.alias = NoAlias /\ q.type.base = t.base
    BY <2>2, <2>3, <2>4 DEF Type
  <2>6. QED
    BY <2>2, <2>3, <2>5 DEF GoodType
<1>4. CASE \E n \in 0..1, b \in {INT} \cup NamedRecords \cup NamedEnums :
             q = [alias |-> NoAlias, type |-> [ptr |-> n, base |-> b, alias |-> NoAlias]]
  <2>1. PICK n \in 0..1, b \in {INT} \cup NamedRecords \cup NamedEnums :
             q = [alias |-> NoAlias, type |-> [ptr |-> n, base |-> b, alias |-> NoAlias]]
    BY <1>4
  <2>2. q.alias = NoAlias /\ q.type = [ptr |-> n, base |-> b, alias |-> NoAlias]
    BY <2>1
  <2>3. b \in Builtins \cup NamedRecords \cup NamedEnums /\ b \notin Nat
    BY NamesApart DEF Builtins
  <2>4. q.type \in Type /\ q.type.alias = NoAlias /\ q.type.base = b
    BY <2>2, <2>3 DEF Type
  <2>5. QED
    BY <2>2, <2>3, <2>4 DEF GoodType
<1>5. QED
  BY <1>1, <1>2, <1>3, <1>4 DEF TypeArgs

-----------------------------------------------------------------------------
\* Typedefs that are added or changed keep TypedefsInv if their types are good.
LEMMA TypedefsStep ==
  ASSUME TypedefsInv, aliasCounter' \in Nat, aliasCounter <= aliasCounter',
         DOMAIN typedefs \subseteq DOMAIN typedefs', DOMAIN records \subseteq DOMAIN records',
         typedefs' = [a \in DOMAIN typedefs' |-> typedefs'[a]],
         \A a \in DOMAIN typedefs' :
           /\ \/ a \in DOMAIN typedefs
              \/ a \in Aliases /\ (a \in Nat => a < aliasCounter')
           /\ \/ a \in DOMAIN typedefs /\ typedefs'[a] = typedefs[a]
              \/ GoodType(typedefs'[a], DOMAIN typedefs', DOMAIN records')
  PROVE  TypedefsInv'
<1>1. DOMAIN typedefs' \subseteq Aliases
  BY DEF TypedefsInv, Aliases
<1>2. \A a \in DOMAIN typedefs' : GoodType(typedefs'[a], DOMAIN typedefs', DOMAIN records')
  BY GoodTypeGrows DEF TypedefsInv
<1>3. \A a \in DOMAIN typedefs' : a \in Nat => a < aliasCounter'
  BY DEF TypedefsInv
<1>4. QED
  BY <1>1, <1>2, <1>3 DEF TypedefsInv, GoodType, Type, Aliases

\* A record without members is put into the table.
LEMMA EmptyRecordPut ==
  ASSUME SymbolsInv, NEW r \in Tags
  PROVE  LET R == Put(records, r, {}) IN
         /\ DOMAIN R = DOMAIN records \cup {r} /\ DOMAIN R \subseteq Tags
         /\ R \in [DOMAIN R -> SUBSET (Members \X Nat)]
         /\ \A u \in DOMAIN R : R[u] = {} \/ (u \in DOMAIN records /\ R[u] = records[u])
<1> DEFINE R == Put(records, r, {})
<1>1. /\ DOMAIN R = DOMAIN records \cup {r} /\ R[r] = {}
      /\ \A u \in DOMAIN records : u # r => R[u] = records[u]
      /\ R = [u \in DOMAIN R |-> R[u]]
  BY DEF Put
<1>2. /\ DOMAIN records \subseteq Tags
      /\ \A u \in DOMAIN records : records[u] \in SUBSET (Members \X Nat)
  BY DEF SymbolsInv
<1> HIDE DEF R
<1>3. \A u \in DOMAIN R : R[u] \in SUBSET (Members \X Nat)
  BY <1>1, <1>2
<1>4. QED
  BY <1>1, <1>2, <1>3 DEF R

\* Symbols that stay as they are, with a tag that has no member yet or without.
LEMMA SymbolsStay ==
  ASSUME SymbolsInv, DOMAIN typedefs \subseteq DOMAIN typedefs', UNCHANGED <<variables, functions>>,
         \/ records' = records
         \/ \E r \in Tags : records' = Put(records, r, {})
  PROVE  SymbolsInv'
<1>1. /\ DOMAIN records \subseteq DOMAIN records' /\ DOMAIN records' \subseteq Tags
      /\ records' \in [DOMAIN records' -> SUBSET (Members \X Nat)]
      /\ \A r \in DOMAIN records' : records'[r] = {} \/ (r \in DOMAIN records /\ records'[r] = records[r])
  <2>1. CASE records' = records
    BY <2>1 DEF SymbolsInv
  <2>2. CASE \E r \in Tags : records' = Put(records, r, {})
    BY <2>2, EmptyRecordPut
  <2>3. QED
    BY <2>1, <2>2
<1>2. AliasedSymbols' \subseteq AliasedSymbols
  BY <1>1 DEF AliasedSymbols
<1>3. QED
  BY <1>1, <1>2 DEF SymbolsInv, AliasIdentifiesSymbol, Tags

\* One symbol is added, with the next generated alias.
LEMMA SymbolAdded ==
  ASSUME TypedefsInv, SymbolsInv, NEW x,
         DOMAIN typedefs' = DOMAIN typedefs \cup {aliasCounter},
         AliasedSymbols' \subseteq AliasedSymbols \cup {x}, x[3] = aliasCounter
  PROVE  /\ \A s \in AliasedSymbols' : s[3] \in DOMAIN typedefs' \cap Nat
         /\ AliasIdentifiesSymbol'
<1>1. aliasCounter \in Nat /\ aliasCounter \notin DOMAIN typedefs
  BY DEF TypedefsInv
<1>2. \A s \in AliasedSymbols : s[3] \in DOMAIN typedefs \cap Nat /\ s[3] # aliasCounter
  BY <1>1 DEF SymbolsInv
<1>3. \A s, u \in AliasedSymbols : s[3] = u[3] => s = u
  BY DEF SymbolsInv, AliasIdentifiesSymbol
<1>4. \A s \in AliasedSymbols' : s[3] \in DOMAIN typedefs' \cap Nat
  BY <1>1, <1>2
<1>5. \A s, u \in AliasedSymbols' : s[3] = u[3] => s = u
  BY <1>2, <1>3
<1>6. QED
  BY <1>4, <1>5 DEF AliasIdentifiesSymbol

\* The table as it was, whatever was thrown or written.
LEMMA TableStays ==
  ASSUME TableInv, UNCHANGED <<table, counters>>,
         late' \subseteq DOMAIN typedefs, dirty' \in BOOLEAN, failed' \in Failures
  PROVE  TableInv' /\ locked' = locked
<1>1. UNCHANGED <<typedefs, locked, records, enums, variables, functions, subscripts, ppFiles,
                  aliasCounter, tagCounter, constantCounter>>
  BY DEF table, counters
<1>2. TypedefsInv'
  BY <1>1 DEF TableInv, TypedefsInv
<1>3. AliasedSymbols' = AliasedSymbols
  BY <1>1 DEF AliasedSymbols
<1>4. SymbolsInv'
  BY <1>1, <1>3 DEF TableInv, SymbolsInv, AliasIdentifiesSymbol
<1>5. SubscriptsInv' /\ RestInv'
  BY <1>1 DEF TableInv, SubscriptsInv, RestInv
<1>6. QED
  BY <1>1, <1>2, <1>4, <1>5 DEF TableInv

LEMMA ThrowStep ==
  ASSUME TableInv, Throw \/ LookupFails
  PROVE  TableInv' /\ locked' = locked
  BY TableStays DEF Throw, LookupFails, Failures, TableInv, RestInv

\* Typedefs that exist are given a good type, and perhaps locked.
LEMMA RetypeStep ==
  ASSUME TableInv, NEW A \in SUBSET DOMAIN typedefs, NEW t,
         GoodType(t, DOMAIN typedefs, DOMAIN records),
         SetAliasedType(A, t), locked' = locked \/ locked' = locked \cup A
  PROVE  TableInv' /\ locked \subseteq locked'
<1>1. /\ typedefs' = [a \in DOMAIN typedefs |-> IF a \in A THEN t ELSE typedefs[a]]
      /\ dirty' = TRUE
      /\ UNCHANGED <<records, enums, variables, functions, subscripts, ppFiles,
                     aliasCounter, tagCounter, constantCounter, late, failed>>
  BY DEF SetAliasedType, Altered, counters
<1>2. DOMAIN typedefs' = DOMAIN typedefs
  BY <1>1
<1>3. TypedefsInv'
  <2>1. aliasCounter' \in Nat /\ aliasCounter <= aliasCounter'
    BY <1>1 DEF TableInv, TypedefsInv
  <2>2. \A a \in DOMAIN typedefs' :
          typedefs'[a] = typedefs[a] \/ GoodType(typedefs'[a], DOMAIN typedefs', DOMAIN records')
    BY <1>1, <1>2
  <2>3. typedefs' = [a \in DOMAIN typedefs' |-> typedefs'[a]]
    BY <1>1
  <2>4. QED
    BY <1>1, <1>2, <2>1, <2>2, <2>3, TypedefsStep DEF TableInv
<1>4. SymbolsInv'
  BY <1>1, <1>2, SymbolsStay DEF TableInv
<1>5. SubscriptsInv' /\ RestInv'
  BY <1>1, <1>2 DEF TableInv, SubscriptsInv, RestInv
<1>6. QED
  BY <1>3, <1>4, <1>5 DEF TableInv

LEMMA SetAndLockStep ==
  ASSUME TableInv, NEW A \in SUBSET DOMAIN typedefs, NEW t,
         GoodType(t, DOMAIN typedefs, DOMAIN records), SetAndLock(A, t)
  PROVE  TableInv' /\ locked \subseteq locked'
  BY RetypeStep DEF SetAndLock

\* The symbol of an expression's type is changed, or not found.
LEMMA ChangeStep ==
  ASSUME TableInv, NEW q \in TypeArgs, NEW t,
         GoodType(t, DOMAIN typedefs, DOMAIN records), Change(q, t)
  PROVE  TableInv' /\ locked \subseteq locked'
<1>1. CASE q.alias # NoAlias /\ SetAndLock({q.alias}, t)
  <2>1. {q.alias} \in SUBSET DOMAIN typedefs
    BY <1>1, TypeArgsGood DEF TableInv
  <2>2. QED
    BY <1>1, <2>1, SetAndLockStep
<1>2. CASE LookupFails
  BY <1>2, ThrowStep
<1>3. QED
  BY <1>1, <1>2 DEF Change

-----------------------------------------------------------------------------
\* createTypedef with the next generated alias.
LEMMA AliasCreated ==
  ASSUME TableInv, NewAlias, NEW t, CreateTypedef(aliasCounter, t),
         DOMAIN records \subseteq DOMAIN records',
         GoodType(t, DOMAIN typedefs, DOMAIN records')
  PROVE  /\ TypedefsInv'
         /\ DOMAIN typedefs' = DOMAIN typedefs \cup {aliasCounter}
         /\ locked' = locked
         /\ aliasCounter \in Nat
<1>1. /\ aliasCounter' = aliasCounter + 1
      /\ typedefs' = Put(typedefs, aliasCounter, t)
      /\ locked' = locked \ {aliasCounter}
  BY DEF NewAlias, CreateTypedef
<1>2. aliasCounter \in Nat /\ aliasCounter \notin DOMAIN typedefs
  BY DEF TableInv, TypedefsInv
<1>3. /\ DOMAIN typedefs' = DOMAIN typedefs \cup {aliasCounter}
      /\ typedefs'[aliasCounter] = t
      /\ \A a \in DOMAIN typedefs : typedefs'[a] = typedefs[a]
      /\ typedefs' = [a \in DOMAIN typedefs' |-> typedefs'[a]]
  BY <1>1, <1>2 DEF Put
<1>4. locked' = locked
  BY <1>1, <1>2 DEF TableInv, RestInv
<1>5. GoodType(t, DOMAIN typedefs', DOMAIN records')
  BY <1>3, GoodTypeGrows
<1>6. /\ aliasCounter' \in Nat /\ aliasCounter <= aliasCounter'
      /\ aliasCounter < aliasCounter' /\ aliasCounter \in Aliases
  BY <1>1, <1>2 DEF Aliases
<1>7. TypedefsInv'
  BY <1>3, <1>5, <1>6, TypedefsStep DEF TableInv
<1>8. QED
  BY <1>2, <1>3, <1>4, <1>7

\* createTypedefOfGeneratedStructType with a struct that is put into the table.
LEMMA StructGood ==
  ASSUME TableInv, NEW A
  PROVE  /\ tagCounter \in Nat /\ tagCounter \in Tags
         /\ DOMAIN NewRecord = DOMAIN records \cup {tagCounter}
         /\ GoodType(Plain(tagCounter), A, DOMAIN NewRecord)
<1>1. tagCounter \in Nat
  BY DEF TableInv, RestInv
<1>2. DOMAIN NewRecord = DOMAIN records \cup {tagCounter}
  BY PutFacts DEF NewRecord
<1>3. /\ Plain(tagCounter) \in Type /\ Plain(tagCounter).alias = NoAlias
      /\ Plain(tagCounter).base = tagCounter
  BY <1>1 DEF Plain, Type
<1>4. QED
  BY <1>1, <1>2, <1>3 DEF GoodType, Tags

\* What is left of the invariant when the typedefs only grow.
LEMMA RestStays ==
  ASSUME TableInv, DOMAIN typedefs \subseteq DOMAIN typedefs',
         UNCHANGED <<enums, subscripts, ppFiles, constantCounter, failed>>,
         tagCounter' \in Nat, dirty' \in BOOLEAN,
         locked' \subseteq DOMAIN typedefs', late' \subseteq DOMAIN typedefs'
  PROVE  SubscriptsInv' /\ RestInv'
  BY DEF TableInv, SubscriptsInv, RestInv

LEMMA DeclareFunctionStep ==
  ASSUME TableInv, DeclareFunction
  PROVE  TableInv' /\ locked \subseteq locked'
<1>1. PICK f \in Names \ DOMAIN functions :
        /\ NewAlias
        /\ CreateTypedef(aliasCounter, Plain(VOID))
        /\ functions' = Put(functions, f, aliasCounter)
        /\ Altered
        /\ UNCHANGED <<records, enums, variables, subscripts, ppFiles, tagCounter, constantCounter>>
  BY DEF DeclareFunction
<1>2. GoodType(Plain(VOID), DOMAIN typedefs, DOMAIN records')
  BY PlainGood DEF Builtins
<1>3. /\ TypedefsInv' /\ DOMAIN typedefs' = DOMAIN typedefs \cup {aliasCounter}
      /\ locked' = locked /\ aliasCounter \in Nat
  BY <1>1, <1>2, AliasCreated
<1>4. /\ DOMAIN functions' = DOMAIN functions \cup {f} /\ functions'[f] = aliasCounter
      /\ \A g \in DOMAIN functions : functions'[g] = functions[g]
      /\ functions' = [g \in DOMAIN functions' |-> functions'[g]]
  BY <1>1 DEF Put
<1>5. AliasedSymbols' \subseteq AliasedSymbols \cup {<<"function", <<f>>, aliasCounter>>}
  BY <1>1, <1>4 DEF AliasedSymbols
<1>6. /\ \A s \in AliasedSymbols' : s[3] \in DOMAIN typedefs' \cap Nat
      /\ AliasIdentifiesSymbol'
  <2>1. <<"function", <<f>>, aliasCounter>>[3] = aliasCounter
    OBVIOUS
  <2>2. QED
    BY <1>3, <1>5, <2>1, SymbolAdded DEF TableInv
<1>7. /\ DOMAIN functions' \subseteq Names
      /\ functions' \in [DOMAIN functions' -> Nat]
  BY <1>3, <1>4 DEF TableInv, SymbolsInv
<1>8. SymbolsInv'
  BY <1>1, <1>6, <1>7 DEF TableInv, SymbolsInv, Tags
<1>9. SubscriptsInv' /\ RestInv'
  BY <1>1, <1>3, RestStays DEF Altered, TableInv, RestInv
<1>10. QED
  BY <1>3, <1>8, <1>9 DEF TableInv

LEMMA DeclareVariableStep ==
  ASSUME TableInv, DeclareVariableOrTypedef
  PROVE  TableInv' /\ locked \subseteq locked'
<1>1. PICK v \in Names \ DOMAIN variables :
        /\ NewAlias
        /\ CreateTypedef(aliasCounter, Plain(tagCounter)) /\ tagCounter' = tagCounter + 1
        /\ records' = NewRecord
        /\ variables' = Put(variables, v, aliasCounter)
        /\ Altered
        /\ UNCHANGED <<enums, functions, subscripts, ppFiles, constantCounter>>
  BY DEF DeclareVariableOrTypedef, CreateTypedefOfGeneratedStructType
<1>2. /\ DOMAIN records \subseteq DOMAIN records' /\ tagCounter \in Nat /\ tagCounter \in Tags
      /\ GoodType(Plain(tagCounter), DOMAIN typedefs, DOMAIN records')
  BY <1>1, StructGood
<1>3. /\ TypedefsInv' /\ DOMAIN typedefs' = DOMAIN typedefs \cup {aliasCounter}
      /\ locked' = locked /\ aliasCounter \in Nat
  BY <1>1, <1>2, AliasCreated
<1>4. /\ DOMAIN variables' = DOMAIN variables \cup {v} /\ variables'[v] = aliasCounter
      /\ \A w \in DOMAIN variables : variables'[w] = variables[w]
      /\ variables' = [w \in DOMAIN variables' |-> variables'[w]]
  BY <1>1 DEF Put
<1>5. /\ DOMAIN records' \subseteq Tags
      /\ records' \in [DOMAIN records' -> SUBSET (Members \X Nat)]
      /\ \A r \in DOMAIN records' : records'[r] = {} \/ (r \in DOMAIN records /\ records'[r] = records[r])
  BY <1>1, <1>2, EmptyRecordPut DEF NewRecord, TableInv
<1>6. AliasedSymbols' \subseteq AliasedSymbols \cup {<<"variable", <<v>>, aliasCounter>>}
  BY <1>1, <1>4, <1>5 DEF AliasedSymbols
<1>7. /\ \A s \in AliasedSymbols' : s[3] \in DOMAIN typedefs' \cap Nat
      /\ AliasIdentifiesSymbol'
  <2>1. <<"variable", <<v>>, aliasCounter>>[3] = aliasCounter
    OBVIOUS
  <2>2. QED
    BY <1>3, <1>6, <2>1, SymbolAdded DEF TableInv
<1>8. /\ DOMAIN variables' \subseteq Names
      /\ variables' \in [DOMAIN variables' -> Nat]
  BY <1>3, <1>4 DEF TableInv, SymbolsInv
<1>9. SymbolsInv'
  BY <1>1, <1>5, <1>7, <1>8 DEF TableInv, SymbolsInv, Tags
<1>10. SubscriptsInv' /\ RestInv'
  BY <1>1, <1>2, <1>3, RestStays DEF Altered, TableInv, RestInv
<1>11. QED
  BY <1>3, <1>9, <1>10 DEF TableInv

\* The typedef that is declared anew is one that came too late.
LEMMA DeclareTypedefStep ==
  ASSUME TableInv, DeclareTypedefTypeAlias
  PROVE  TableInv' /\ locked \ locked' \subseteq late
<1>1. PICK t \in (TypedefNames \ DOMAIN typedefs) \cup late :
        /\ typedefs' = Put(typedefs, t, Plain(tagCounter)) /\ locked' = locked \ {t}
        /\ tagCounter' = tagCounter + 1
        /\ records' = NewRecord
        /\ late' = late \ {t}
        /\ dirty' = TRUE
        /\ UNCHANGED <<enums, variables, functions, subscripts, ppFiles, aliasCounter,
                       constantCounter, failed>>
  BY DEF DeclareTypedefTypeAlias, CreateTypedefOfGeneratedStructType, CreateTypedef
<1>2. /\ DOMAIN typedefs' = DOMAIN typedefs \cup {t} /\ typedefs'[t] = Plain(tagCounter)
      /\ \A a \in DOMAIN typedefs : a # t => typedefs'[a] = typedefs[a]
      /\ typedefs' = [a \in DOMAIN typedefs' |-> typedefs'[a]]
  BY <1>1 DEF Put
<1>3. /\ DOMAIN records \subseteq DOMAIN records' /\ tagCounter \in Nat /\ tagCounter \in Tags
      /\ GoodType(Plain(tagCounter), DOMAIN typedefs', DOMAIN records')
  BY <1>1, StructGood
<1>4. /\ late \subseteq DOMAIN typedefs /\ locked \subseteq DOMAIN typedefs
      /\ t \in Aliases /\ (t \notin DOMAIN typedefs => t \notin Nat)
      /\ aliasCounter' \in Nat /\ aliasCounter <= aliasCounter'
  BY <1>1, NamesAssumption DEF TableInv, RestInv, TypedefsInv, Aliases
<1>5. TypedefsInv'
  BY <1>2, <1>3, <1>4, TypedefsStep DEF TableInv
<1>6. SymbolsInv'
  BY <1>1, <1>2, <1>3, SymbolsStay DEF TableInv, NewRecord
<1>7. SubscriptsInv' /\ RestInv'
  BY <1>1, <1>2, <1>3, <1>4, RestStays
<1>8. locked \ locked' \subseteq late
  BY <1>1, <1>4
<1>9. QED
  BY <1>5, <1>6, <1>7, <1>8 DEF TableInv

LEMMA AddRecordMemberStep ==
  ASSUME TableInv, AddRecordMember
  PROVE  TableInv' /\ locked \subseteq locked'
<1>1. CASE Throw
  BY <1>1, ThrowStep
<1>2. ASSUME NEW r \in DOMAIN records, NEW m \in Members,
             NewAlias, CreateTypedefOfGeneratedStructType(aliasCounter),
             records' = [NewRecord EXCEPT ![r] = @ \cup {<<m, aliasCounter>>}], Altered,
             UNCHANGED <<enums, variables, functions, subscripts, ppFiles, constantCounter>>
      PROVE  TableInv' /\ locked \subseteq locked'
  <2>1. CreateTypedef(aliasCounter, Plain(tagCounter)) /\ tagCounter' = tagCounter + 1
    BY <1>2 DEF CreateTypedefOfGeneratedStructType
  <2>2. /\ DOMAIN NewRecord = DOMAIN records \cup {tagCounter}
        /\ tagCounter \in Nat /\ tagCounter \in Tags
        /\ GoodType(Plain(tagCounter), DOMAIN typedefs, DOMAIN NewRecord)
    BY StructGood
  <2>3. DOMAIN records' = DOMAIN NewRecord
    BY <1>2
  <2>4. /\ TypedefsInv' /\ DOMAIN typedefs' = DOMAIN typedefs \cup {aliasCounter}
        /\ locked' = locked /\ aliasCounter \in Nat
    BY <1>2, <2>1, <2>2, <2>3, AliasCreated
  <2>5. /\ DOMAIN NewRecord \subseteq Tags
        /\ NewRecord \in [DOMAIN NewRecord -> SUBSET (Members \X Nat)]
        /\ \A u \in DOMAIN NewRecord :
             NewRecord[u] = {} \/ (u \in DOMAIN records /\ NewRecord[u] = records[u])
    BY <2>2, EmptyRecordPut DEF NewRecord, TableInv
  <2> HIDE DEF NewRecord
  <2>6. /\ records' \in [DOMAIN records' -> SUBSET (Members \X Nat)]
        /\ \A u \in DOMAIN records' : \A pair \in records'[u] :
             \/ u \in DOMAIN records /\ pair \in records[u]
             \/ u = r /\ pair = <<m, aliasCounter>>
    BY <1>2, <2>2, <2>3, <2>4, <2>5
  <2>7. AliasedSymbols' \subseteq AliasedSymbols \cup {<<"member", <<r, m>>, aliasCounter>>}
    <3>1. ASSUME NEW u \in DOMAIN records', NEW pair \in records'[u]
          PROVE  <<"member", <<u, pair[1]>>, pair[2]>>
                   \in AliasedSymbols \cup {<<"member", <<r, m>>, aliasCounter>>}
      <4>1. CASE u \in DOMAIN records /\ pair \in records[u]
        BY <4>1 DEF AliasedSymbols
      <4>2. CASE u = r /\ pair = <<m, aliasCounter>>
        BY <4>2
      <4>3. QED
        BY <2>6, <4>1, <4>2
    <3>2. QED
      BY <1>2, <3>1 DEF AliasedSymbols
  <2>8. /\ \A s \in AliasedSymbols' : s[3] \in DOMAIN typedefs' \cap Nat
        /\ AliasIdentifiesSymbol'
    <3>1. <<"member", <<r, m>>, aliasCounter>>[3] = aliasCounter
      OBVIOUS
    <3>2. QED
      BY <2>4, <2>7, <3>1, SymbolAdded DEF TableInv
  <2>9. SymbolsInv'
    BY <1>2, <2>3, <2>5, <2>6, <2>8 DEF TableInv, SymbolsInv, Tags
  <2>10. SubscriptsInv' /\ RestInv'
    BY <1>2, <2>1, <2>2, <2>4, RestStays DEF Altered, TableInv, RestInv
  <2>11. QED
    BY <2>4, <2>9, <2>10 DEF TableInv
<1>3. QED
  BY <1>1, <1>2 DEF AddRecordMember

LEMMA DefineTagTypeStep ==
  ASSUME TableInv, DefineTagType
  PROVE  TableInv' /\ locked \subseteq locked'
<1>1. /\ dirty' = TRUE
      /\ UNCHANGED <<typedefs, locked, variables, functions, subscripts, ppFiles,
                     aliasCounter, tagCounter, late, failed>>
  BY DEF DefineTagType, Altered
<1>2. \/ records' = records
      \/ \E r \in NamedRecords : records' = Put(records, r, {})
  BY DEF DefineTagType
<1>3. NamedRecords \subseteq Tags
  BY DEF Tags
<1>4. SymbolsInv'
  BY <1>1, <1>2, <1>3, SymbolsStay DEF TableInv
<1>5. DOMAIN records \subseteq DOMAIN records'
  BY <1>2 DEF Put
<1>6. TypedefsInv'
  BY <1>1, <1>5, TypedefsStep DEF TableInv, TypedefsInv
<1>7. constantCounter' \in Nat /\ DOMAIN enums' \subseteq NamedEnums
      /\ enums' \in [DOMAIN enums' -> Nat]
  <2>1. CASE UNCHANGED <<enums, constantCounter>>
    BY <2>1 DEF TableInv, RestInv
  <2>2. CASE /\ constantCounter' = constantCounter + 1
             /\ \E e \in NamedEnums : enums' = Put(enums, e, constantCounter)
    <3>1. PICK e \in NamedEnums : enums' = Put(enums, e, constantCounter)
      BY <2>2
    <3>2. /\ DOMAIN enums' = DOMAIN enums \cup {e} /\ enums'[e] = constantCounter
          /\ \A d \in DOMAIN enums : d # e => enums'[d] = enums[d]
          /\ enums' = [d \in DOMAIN enums' |-> enums'[d]]
      BY <3>1 DEF Put
    <3>3. /\ constantCounter \in Nat /\ DOMAIN enums \subseteq NamedEnums
          /\ \A d \in DOMAIN enums : enums[d] \in Nat
      BY DEF TableInv, RestInv
    <3>4. \A d \in DOMAIN enums' : enums'[d] \in Nat
      BY <3>2, <3>3
    <3> HIDE <3>1
    <3>5. QED
      BY <2>2, <3>2, <3>3, <3>4
  <2>3. QED
    BY <2>1, <2>2 DEF DefineTagType
<1>8. SubscriptsInv' /\ RestInv'
  BY <1>1, <1>7 DEF TableInv, SubscriptsInv, RestInv
<1>9. QED
  BY <1>1, <1>4, <1>6, <1>8 DEF TableInv

LEMMA CreateHeaderFileStep ==
  ASSUME TableInv, CreateHeaderFile
  PROVE  TableInv' /\ locked \subseteq locked'
<1>1. /\ UNCHANGED <<typedefs, locked, records, enums, variables, functions, subscripts,
                     aliasCounter, tagCounter, constantCounter, late>>
      /\ dirty' = TRUE /\ failed' \in {failed, "heuristic"}
      /\ \E h \in Headers : ppFiles' \in {ppFiles, ppFiles \cup {h}}
  BY DEF CreateHeaderFile, Altered, counters
<1>2. TypedefsInv'
  BY <1>1 DEF TableInv, TypedefsInv
<1>3. SymbolsInv'
  BY <1>1, SymbolsStay DEF TableInv
<1>4. SubscriptsInv' /\ RestInv'
  BY <1>1 DEF TableInv, SubscriptsInv, RestInv, Failures
<1>5. QED
  BY <1>1, <1>2, <1>3, <1>4 DEF TableInv

LEMMA AdjustConversionStep ==
  ASSUME TableInv, AdjustConversionTypes
  PROVE  TableInv' /\ locked \subseteq locked'
<1>1. PICK l, r \in TypeArgs :
        \/ Throw \/ LookupFails
        \/ Change(r, l.type) \/ Change(l, r.type)
        \/ /\ NoAlias \notin {l.alias, r.alias}
           /\ \/ Change(r, typedefs[l.alias])
              \/ Change(l, typedefs[r.alias])
              \/ SetAndLock({l.alias, r.alias}, Plain(INT))
  BY DEF AdjustConversionTypes
<1>2. /\ GoodType(l.type, DOMAIN typedefs, DOMAIN records)
      /\ GoodType(r.type, DOMAIN typedefs, DOMAIN records)
      /\ l.alias # NoAlias => l.alias \in DOMAIN typedefs
      /\ r.alias # NoAlias => r.alias \in DOMAIN typedefs
  BY TypeArgsGood DEF TableInv
<1>3. CASE Throw \/ LookupFails
  BY <1>3, ThrowStep
<1>4. CASE Change(r, l.type) \/ Change(l, r.type)
  BY <1>2, <1>4, ChangeStep
<1>5. CASE NoAlias \notin {l.alias, r.alias}
           /\ (Change(r, typedefs[l.alias]) \/ Change(l, typedefs[r.alias]))
  <2>1. /\ GoodType(typedefs[l.alias], DOMAIN typedefs, DOMAIN records)
        /\ GoodType(typedefs[r.alias], DOMAIN typedefs, DOMAIN records)
    BY <1>2, <1>5 DEF TableInv, TypedefsInv
  <2>2. QED
    BY <1>5, <2>1, ChangeStep
<1>6. CASE NoAlias \notin {l.alias, r.alias} /\ SetAndLock({l.alias, r.alias}, Plain(INT))
  <2>1. GoodType(Plain(INT), DOMAIN typedefs, DOMAIN records)
    BY PlainGood DEF Builtins
  <2>2. {l.alias, r.alias} \in SUBSET DOMAIN typedefs
    BY <1>2, <1>6
  <2>3. QED
    BY <1>6, <2>1, <2>2, SetAndLockStep
<1>7. QED
  BY <1>1, <1>3, <1>4, <1>5, <1>6

LEMMA AdjustOperandStep ==
  ASSUME TableInv, NEW t, NEW op, NEW side, NEW q \in TypeArgs, AdjustOperand(t, op, side, q)
  PROVE  TableInv' /\ locked \subseteq locked'
<1>1. /\ GoodType(Plain(INT), DOMAIN typedefs, DOMAIN records)
      /\ GoodType(PointerTo(Plain(INT)), DOMAIN typedefs, DOMAIN records)
  BY PlainGood, PointerGood DEF Builtins
<1>2. Throw \/ Change(q, Plain(INT)) \/ Change(q, PointerTo(Plain(INT)))
  BY DEF AdjustOperand
<1>3. CASE Throw
  BY <1>3, ThrowStep
<1>4. CASE Change(q, Plain(INT)) \/ Change(q, PointerTo(Plain(INT)))
  BY <1>1, <1>4, ChangeStep
<1>5. QED
  BY <1>2, <1>3, <1>4

\* What adjustOperandTypes may do, its conditions left out.
LEMMA OperandTypesCases ==
  ASSUME AdjustOperandTypes
  PROVE  \E l, r \in TypeArgs, op \in {"==", "+", "-", "*"} :
           \/ Throw \/ LookupFails
           \/ AdjustOperand(l.type, op, TRUE, r) \/ AdjustOperand(r.type, op, FALSE, l)
           \/ AdjustOperand(typedefs[l.alias], op, TRUE, r)
           \/ AdjustOperand(typedefs[r.alias], op, FALSE, l)
           \/ /\ NoAlias \notin {l.alias, r.alias}
              /\ SetAndLock({l.alias, r.alias}, Plain(INT))
  BY ZenonT(60) DEF AdjustOperandTypes

LEMMA AdjustOperandTypesStep ==
  ASSUME TableInv, AdjustOperandTypes
  PROVE  TableInv' /\ locked \subseteq locked'
<1>1. PICK l, r \in TypeArgs, op \in {"==", "+", "-", "*"} :
        \/ Throw \/ LookupFails
        \/ AdjustOperand(l.type, op, TRUE, r) \/ AdjustOperand(r.type, op, FALSE, l)
        \/ AdjustOperand(typedefs[l.alias], op, TRUE, r)
        \/ AdjustOperand(typedefs[r.alias], op, FALSE, l)
        \/ /\ NoAlias \notin {l.alias, r.alias}
           /\ SetAndLock({l.alias, r.alias}, Plain(INT))
  BY OperandTypesCases
<1>2. CASE Throw \/ LookupFails
  BY <1>2, ThrowStep
<1>3. CASE \/ AdjustOperand(l.type, op, TRUE, r) \/ AdjustOperand(r.type, op, FALSE, l)
           \/ AdjustOperand(typedefs[l.alias], op, TRUE, r)
           \/ AdjustOperand(typedefs[r.alias], op, FALSE, l)
  BY <1>3, AdjustOperandStep
<1>4. CASE NoAlias \notin {l.alias, r.alias} /\ SetAndLock({l.alias, r.alias}, Plain(INT))
  <2>1. GoodType(Plain(INT), DOMAIN typedefs, DOMAIN records)
    BY PlainGood DEF Builtins
  <2>2. {l.alias, r.alias} \in SUBSET DOMAIN typedefs
    BY <1>4, TypeArgsGood DEF TableInv
  <2>3. QED
    BY <1>4, <2>1, <2>2, SetAndLockStep
<1>5. QED
  BY <1>1, <1>2, <1>3, <1>4

LEMMA AdjustMemberReferenceStep ==
  ASSUME TableInv, AdjustMemberReference
  PROVE  TableInv' /\ locked \subseteq locked'
<1>1. PICK q \in TypeArgs :
        \/ q.alias # NoAlias /\ SetAndLock({q.alias}, PointerTo(typedefs[q.alias]))
        \/ Throw
        \/ Altered /\ UNCHANGED <<table, counters>>
  BY DEF AdjustMemberReference
<1>2. CASE q.alias # NoAlias /\ SetAndLock({q.alias}, PointerTo(typedefs[q.alias]))
  <2>1. q.alias \in DOMAIN typedefs
    BY <1>2, TypeArgsGood DEF TableInv
  <2>2. GoodType(PointerTo(typedefs[q.alias]), DOMAIN typedefs, DOMAIN records)
    BY <2>1, PointerGood DEF TableInv, TypedefsInv
  <2>3. QED
    BY <1>2, <2>1, <2>2, SetAndLockStep
<1>3. CASE Throw
  BY <1>3, ThrowStep
<1>4. CASE Altered /\ UNCHANGED <<table, counters>>
  BY <1>4, TableStays DEF Altered, TableInv, RestInv
<1>5. QED
  BY <1>1, <1>2, <1>3, <1>4

\* The alias of a variable is declared.
LEMMA VariableDeclared ==
  ASSUME TableInv, NEW v \in DOMAIN variables
  PROVE  variables[v] \in DOMAIN typedefs /\ variables[v] \in Nat
<1>1. <<"variable", <<v>>, variables[v]>> \in AliasedSymbols
  BY DEF AliasedSymbols
<1>2. <<"variable", <<v>>, variables[v]>>[3] = variables[v]
  OBVIOUS
<1>3. QED
  BY <1>1, <1>2 DEF TableInv, SymbolsInv

LEMMA ConvertSubscriptStep ==
  ASSUME TableInv, ConvertSubscriptToInteger
  PROVE  TableInv' /\ locked \subseteq locked'
<1>1. CASE Throw
  BY <1>1, ThrowStep
<1>2. ASSUME NEW v \in DOMAIN variables, SetAliasedType({variables[v]}, Plain(UINT)),
             UNCHANGED locked
      PROVE  TableInv' /\ locked \subseteq locked'
  <2>1. GoodType(Plain(UINT), DOMAIN typedefs, DOMAIN records)
    BY PlainGood DEF Builtins
  <2>2. variables[v] \in DOMAIN typedefs
    BY VariableDeclared
  <2>3. QED
    BY <1>2, <2>1, <2>2, RetypeStep
<1>3. QED
  BY <1>1, <1>2 DEF ConvertSubscriptToInteger

LEMMA AdjustToIntStep ==
  ASSUME TableInv, AdjustToInt
  PROVE  TableInv' /\ locked \subseteq locked'
<1>1. PICK q \in TypeArgs :
        \/ q.alias # NoAlias /\ SetAliasedType({q.alias}, Plain(INT)) /\ UNCHANGED locked
        \/ Throw
  BY DEF AdjustToInt
<1>2. CASE q.alias # NoAlias /\ SetAliasedType({q.alias}, Plain(INT)) /\ UNCHANGED locked
  <2>1. GoodType(Plain(INT), DOMAIN typedefs, DOMAIN records)
    BY PlainGood DEF Builtins
  <2>2. q.alias \in DOMAIN typedefs
    BY <1>2, TypeArgsGood DEF TableInv
  <2>3. QED
    BY <1>2, <2>1, <2>2, RetypeStep
<1>3. CASE Throw
  BY <1>3, ThrowStep
<1>4. QED
  BY <1>1, <1>2, <1>3

\* A variable is mapped for one subscript more.
LEMMA SubscriptAdded ==
  ASSUME TableInv, NEW v \in Names, NEW n \in Nat \ {0}, NEW a \in DOMAIN typedefs \cap Nat,
         subscripts' = Put(subscripts, <<v, n>>, a), DOMAIN typedefs \subseteq DOMAIN typedefs'
  PROVE  SubscriptsInv'
<1>1. /\ DOMAIN subscripts' = DOMAIN subscripts \cup {<<v, n>>} /\ subscripts'[<<v, n>>] = a
      /\ \A x \in DOMAIN subscripts : x # <<v, n>> => subscripts'[x] = subscripts[x]
      /\ subscripts' = [x \in DOMAIN subscripts' |-> subscripts'[x]]
  BY DEF Put
<1>2. /\ DOMAIN subscripts \subseteq Names \X (Nat \ {0})
      /\ \A x \in DOMAIN subscripts : subscripts[x] \in Nat /\ subscripts[x] \in DOMAIN typedefs
  BY DEF TableInv, SubscriptsInv
<1>3. \A x \in DOMAIN subscripts' : subscripts'[x] \in Nat /\ subscripts'[x] \in DOMAIN typedefs'
  BY <1>1, <1>2
<1>4. DOMAIN subscripts' \subseteq Names \X (Nat \ {0})
  BY <1>1, <1>2
<1>5. QED
  BY <1>1, <1>3, <1>4 DEF SubscriptsInv

LEMMA AdjustSubscriptBaseStep ==
  ASSUME TableInv, AdjustSubscriptBase
  PROVE  TableInv' /\ locked \subseteq locked'
<1>1. CASE Throw
  BY <1>1, ThrowStep
<1>2. ASSUME NEW v \in Names, NEW n \in 0..(MaxSubscripts - 1), <<v, n>> \in DOMAIN subscripts,
             typedefs' = [typedefs EXCEPT ![subscripts[<<v, n>>]] = PointerTo(@)],
             subscripts' = Put(subscripts, <<v, n + 1>>, subscripts[<<v, n>>]),
             Altered,
             UNCHANGED <<locked, records, enums, variables, functions, ppFiles, counters>>
      PROVE  TableInv' /\ locked \subseteq locked'
  <2> DEFINE a == subscripts[<<v, n>>]
  <2>1. a \in DOMAIN typedefs /\ a \in Nat
    BY <1>2 DEF TableInv, SubscriptsInv
  <2>2. /\ typedefs' = [typedefs EXCEPT ![a] = PointerTo(@)]
        /\ subscripts' = Put(subscripts, <<v, n + 1>>, a)
        /\ dirty' = TRUE
        /\ UNCHANGED <<locked, records, enums, variables, functions, ppFiles,
                       aliasCounter, tagCounter, constantCounter, late, failed>>
    BY <1>2 DEF Altered, counters
  <2>3. n + 1 \in Nat \ {0}
    BY <1>2, BoundsAssumption
  <2> HIDE DEF a
  <2>4. GoodType(typedefs[a], DOMAIN typedefs, DOMAIN records)
    BY <2>1 DEF TableInv, TypedefsInv
  <2>5. GoodType(PointerTo(typedefs[a]), DOMAIN typedefs, DOMAIN records)
    BY <2>4, PointerGood
  <2>6. /\ DOMAIN typedefs' = DOMAIN typedefs
        /\ typedefs'[a] = PointerTo(typedefs[a])
        /\ \A b \in DOMAIN typedefs : b # a => typedefs'[b] = typedefs[b]
        /\ typedefs' = [b \in DOMAIN typedefs' |-> typedefs'[b]]
    BY <2>1, <2>2
  <2>7. TypedefsInv'
    <3>1. aliasCounter' \in Nat /\ aliasCounter <= aliasCounter' /\ DOMAIN records' = DOMAIN records
      BY <2>2 DEF TableInv, TypedefsInv
    <3>2. \A b \in DOMAIN typedefs' :
            typedefs'[b] = typedefs[b] \/ GoodType(typedefs'[b], DOMAIN typedefs', DOMAIN records')
      BY <2>5, <2>6, <3>1
    <3>3. QED
      BY <2>6, <3>1, <3>2, TypedefsStep DEF TableInv
  <2>8. SymbolsInv'
    BY <2>2, <2>6, SymbolsStay DEF TableInv
  <2>9. SubscriptsInv'
    BY <2>1, <2>2, <2>3, <2>6, SubscriptAdded
  <2>10. RestInv'
    BY <2>2, <2>6 DEF TableInv, RestInv
  <2>11. QED
    BY <2>2, <2>7, <2>8, <2>9, <2>10 DEF TableInv
<1>3. ASSUME NEW v \in DOMAIN variables, typedefs[variables[v]].ptr = 0, NewAlias,
             typedefs' = [Put(typedefs, aliasCounter, typedefs[variables[v]]) EXCEPT
                            ![variables[v]] = [ptr |-> 1, base |-> typedefs[variables[v]].base,
                                               alias |-> aliasCounter]],
             subscripts' = Put(subscripts, <<v, 1>>, variables[v]),
             Altered,
             UNCHANGED <<locked, records, enums, variables, functions, ppFiles,
                         tagCounter, constantCounter>>
      PROVE  TableInv' /\ locked \subseteq locked'
  <2> DEFINE a == variables[v]
             t == typedefs[a]
             u == [ptr |-> 1, base |-> t.base, alias |-> aliasCounter]
             T == Put(typedefs, aliasCounter, t)
  <2>1. a \in DOMAIN typedefs /\ a \in Nat
    BY VariableDeclared
  <2>2. v \in Names /\ aliasCounter' = aliasCounter + 1 /\ dirty' = TRUE /\ UNCHANGED <<late, failed>>
    BY <1>3 DEF Altered, NewAlias, TableInv, SymbolsInv
  <2>3. GoodType(t, DOMAIN typedefs, DOMAIN records)
    BY <2>1 DEF TableInv, TypedefsInv
  <2>4. aliasCounter \in Nat /\ aliasCounter \notin DOMAIN typedefs
    BY DEF TableInv, TypedefsInv
  <2>5. typedefs' = [T EXCEPT ![a] = u] /\ subscripts' = Put(subscripts, <<v, 1>>, a)
    BY <1>3
  <2>6. /\ DOMAIN T = DOMAIN typedefs \cup {aliasCounter} /\ T[aliasCounter] = t
        /\ \A b \in DOMAIN typedefs : T[b] = typedefs[b]
    BY <2>4 DEF Put
  <2> HIDE DEF a, T, t
  <2>7. GoodType(u, DOMAIN typedefs \cup {aliasCounter}, DOMAIN records)
    <3>1. t.base \in Builtins \cup Nat \cup NamedRecords \cup NamedEnums
      BY <2>3 DEF GoodType, Type
    <3>2. u \in Type /\ u.alias = aliasCounter /\ u.ptr = 1 /\ u.base = t.base
      BY <2>4, <3>1 DEF Type
    <3>3. QED
      BY <2>3, <3>2 DEF GoodType
  <2> HIDE DEF u
  <2>8. /\ DOMAIN typedefs' = DOMAIN typedefs \cup {aliasCounter}
        /\ typedefs'[a] = u /\ typedefs'[aliasCounter] = t
        /\ \A b \in DOMAIN typedefs : b # a => typedefs'[b] = typedefs[b]
        /\ typedefs' = [b \in DOMAIN typedefs' |-> typedefs'[b]]
    BY <2>1, <2>4, <2>5, <2>6
  <2>9. TypedefsInv'
    <3>1. /\ aliasCounter' \in Nat /\ aliasCounter <= aliasCounter' /\ DOMAIN records' = DOMAIN records
          /\ aliasCounter < aliasCounter' /\ aliasCounter \in Aliases
      BY <1>3, <2>2, <2>4 DEF Aliases
    <3>2. GoodType(t, DOMAIN typedefs', DOMAIN records') /\ GoodType(u, DOMAIN typedefs', DOMAIN records')
      BY <2>3, <2>7, <2>8, <3>1, GoodTypeGrows
    <3>3. \A b \in DOMAIN typedefs' :
            \/ b \in DOMAIN typedefs /\ typedefs'[b] = typedefs[b]
            \/ GoodType(typedefs'[b], DOMAIN typedefs', DOMAIN records')
      BY <2>8, <3>2
    <3>4. QED
      BY <2>8, <3>1, <3>3, TypedefsStep DEF TableInv
  <2>10. SymbolsInv'
    BY <1>3, <2>8, SymbolsStay DEF TableInv
  <2>11. SubscriptsInv'
    BY <2>1, <2>2, <2>5, <2>8, SubscriptAdded
  <2>12. RestInv'
    BY <1>3, <2>2, <2>8 DEF TableInv, RestInv
  <2>13. QED
    BY <1>3, <2>9, <2>10, <2>11, <2>12 DEF TableInv
<1>4. QED
  BY <1>1, <1>2, <1>3 DEF AdjustSubscriptBase

LEMMA AdjustIncompleteArgStep ==
  ASSUME TableInv, AdjustIncompleteArgInCall
  PROVE  TableInv' /\ locked \subseteq locked'
<1>1. CASE Throw
  BY <1>1, ThrowStep
<1>2. ASSUME NEW q \in TypeArgs, q.alias # NoAlias, tagCounter' = tagCounter + 1,
             records' = NewRecord,
             typedefs' = [typedefs EXCEPT ![q.alias] = Plain(tagCounter)], Altered,
             UNCHANGED <<locked, enums, variables, functions, subscripts, ppFiles,
                         aliasCounter, constantCounter>>
      PROVE  TableInv' /\ locked \subseteq locked'
  <2>1. q.alias \in DOMAIN typedefs
    BY <1>2, TypeArgsGood DEF TableInv
  <2>2. /\ DOMAIN typedefs' = DOMAIN typedefs /\ typedefs'[q.alias] = Plain(tagCounter)
        /\ \A a \in DOMAIN typedefs : a # q.alias => typedefs'[a] = typedefs[a]
        /\ typedefs' = [a \in DOMAIN typedefs' |-> typedefs'[a]]
    BY <1>2, <2>1
  <2>3. /\ DOMAIN records \subseteq DOMAIN records' /\ tagCounter \in Nat /\ tagCounter \in Tags
        /\ GoodType(Plain(tagCounter), DOMAIN typedefs', DOMAIN records')
    BY <1>2, StructGood
  <2>4. TypedefsInv'
    <3>1. aliasCounter' \in Nat /\ aliasCounter <= aliasCounter'
      BY <1>2 DEF TableInv, TypedefsInv
    <3>2. QED
      BY <2>2, <2>3, <3>1, TypedefsStep DEF TableInv
  <2>5. SymbolsInv'
    BY <1>2, <2>2, <2>3, SymbolsStay DEF TableInv, NewRecord
  <2>6. SubscriptsInv' /\ RestInv'
    BY <1>2, <2>2, <2>3, RestStays DEF Altered, TableInv, RestInv
  <2>7. QED
    BY <1>2, <2>4, <2>5, <2>6 DEF TableInv
<1>3. ASSUME NEW q \in TypeArgs, q.alias # NoAlias, SetAliasedType({q.alias}, Plain(INT)),
             UNCHANGED locked
      PROVE  TableInv' /\ locked \subseteq locked'
  <2>1. GoodType(Plain(INT), DOMAIN typedefs, DOMAIN records)
    BY PlainGood DEF Builtins
  <2>2. q.alias \in DOMAIN typedefs
    BY <1>3, TypeArgsGood DEF TableInv
  <2>3. QED
    BY <1>3, <2>1, <2>2, RetypeStep
<1>4. QED
  BY <1>1, <1>2, <1>3 DEF AdjustIncompleteArgInCall

\* Only an alias of the table comes too late.
LEMMA WriteMendfileStep ==
  ASSUME TableInv, WriteMendfile
  PROVE  TableInv' /\ locked' = locked
<1>1. Unordered \subseteq DOMAIN typedefs
  <2>1. \A a \in DOMAIN typedefs : WrittenWith(a) \subseteq DOMAIN typedefs
    BY DEF TableInv, TypedefsInv, GoodType, WrittenWith
  <2>2. QED
    BY <2>1 DEF Unordered
<1>2. late' \subseteq DOMAIN typedefs
  <2>1. late' \in LateAliases \/ late' = {}
    BY DEF WriteMendfile
  <2>2. LateAliases \subseteq SUBSET Unordered
    BY DEF LateAliases
  <2>3. QED
    BY <1>1, <2>1, <2>2
<1>3. dirty' \in BOOLEAN /\ failed' \in Failures
  BY DEF WriteMendfile, Failures
<1>4. UNCHANGED <<table, counters>>
  BY DEF WriteMendfile
<1>5. QED
  BY <1>2, <1>3, <1>4, TableStays

-----------------------------------------------------------------------------
\* In a mendfile that was written, the symbols depend on each other in no circle.
GraphInv == (~dirty /\ failed = "no") => Acyclic(Symbols, DirectDependencies)

LEMMA InitInv == Init => TableInv /\ GraphInv
<1> SUFFICES ASSUME Init PROVE TableInv /\ GraphInv
  OBVIOUS
<1>1. /\ DOMAIN typedefs = {} /\ DOMAIN records = {} /\ DOMAIN enums = {}
      /\ DOMAIN variables = {} /\ DOMAIN functions = {} /\ DOMAIN subscripts = {}
  BY DEF Init
<1>2. TypedefsInv
  BY <1>1 DEF Init, TypedefsInv
<1>3. AliasedSymbols = {}
  BY <1>1 DEF AliasedSymbols
<1>4. SymbolsInv
  BY <1>1, <1>3 DEF Init, SymbolsInv, AliasIdentifiesSymbol
<1>5. SubscriptsInv /\ RestInv
  <2>1. subscripts \in [{} -> Nat] /\ enums \in [{} -> Nat]
    BY DEF Init
  <2>2. SubscriptsInv
    BY <1>1, <2>1 DEF SubscriptsInv
  <2>3. RestInv
    BY <1>1, <2>1 DEF Init, RestInv, Failures
  <2>4. QED
    BY <2>2, <2>3
<1>6. Symbols = {}
  BY <1>1 DEF Symbols
<1>7. GraphInv
  BY <1>6 DEF GraphInv, Acyclic
<1>8. QED
  BY <1>2, <1>4, <1>5, <1>7 DEF TableInv

\* Every step keeps the invariant, and the locks of the aliases that were in time.
LEMMA NextStep ==
  ASSUME TableInv, [Next]_vars
  PROVE  TableInv' /\ locked \ locked' \subseteq late
<1>1. CASE DeclareFunction
  BY <1>1, DeclareFunctionStep
<1>2. CASE DeclareVariableOrTypedef
  BY <1>2, DeclareVariableStep
<1>3. CASE DeclareTypedefTypeAlias
  BY <1>3, DeclareTypedefStep
<1>4. CASE AddRecordMember
  BY <1>4, AddRecordMemberStep
<1>5. CASE DefineTagType
  BY <1>5, DefineTagTypeStep
<1>6. CASE CreateHeaderFile
  BY <1>6, CreateHeaderFileStep
<1>7. CASE AdjustConversionTypes
  BY <1>7, AdjustConversionStep
<1>8. CASE AdjustOperandTypes
  BY <1>8, AdjustOperandTypesStep
<1>9. CASE AdjustMemberReference
  BY <1>9, AdjustMemberReferenceStep
<1>10. CASE AdjustSubscriptBase
  BY <1>10, AdjustSubscriptBaseStep
<1>11. CASE ConvertSubscriptToInteger
  BY <1>11, ConvertSubscriptStep
<1>12. CASE AdjustToInt
  BY <1>12, AdjustToIntStep
<1>13. CASE AdjustIncompleteArgInCall
  BY <1>13, AdjustIncompleteArgStep
<1>14. CASE WriteMendfile
  BY <1>14, WriteMendfileStep
<1>15. CASE UNCHANGED vars
  BY <1>15, TableStays DEF vars, TableInv, RestInv
<1>16. QED
  BY <1>1, <1>2, <1>3, <1>4, <1>5, <1>6, <1>7, <1>8, <1>9, <1>10, <1>11, <1>12, <1>13,
     <1>14, <1>15 DEF Next, Ended

\* A heuristic leaves the mendfile out of date, whichever branch it takes.
LEMMA HeuristicDirties ==
  ASSUME \/ DeclareFunction \/ DeclareVariableOrTypedef \/ DeclareTypedefTypeAlias
         \/ AddRecordMember \/ DefineTagType \/ CreateHeaderFile
         \/ AdjustConversionTypes \/ AdjustOperandTypes \/ AdjustMemberReference
         \/ AdjustSubscriptBase \/ ConvertSubscriptToInteger \/ AdjustToInt
         \/ AdjustIncompleteArgInCall
  PROVE  dirty' = TRUE
<1>1. Throw \/ LookupFails \/ Altered => dirty' = TRUE
  BY DEF Throw, LookupFails, Altered
<1>2. \A A, t : SetAliasedType(A, t) => dirty' = TRUE
  BY <1>1 DEF SetAliasedType
<1>3. \A q, t : Change(q, t) => dirty' = TRUE
  BY <1>1, <1>2 DEF Change, SetAndLock
<1>4. \A t, op, side, q : AdjustOperand(t, op, side, q) => dirty' = TRUE
  BY <1>1, <1>3 DEF AdjustOperand
<1>5. CASE DeclareFunction \/ DeclareVariableOrTypedef \/ DeclareTypedefTypeAlias
           \/ AddRecordMember \/ DefineTagType \/ CreateHeaderFile
  BY <1>1, <1>5 DEF DeclareFunction, DeclareVariableOrTypedef, DeclareTypedefTypeAlias,
                    AddRecordMember, DefineTagType, CreateHeaderFile
<1>6. CASE AdjustConversionTypes
  BY <1>1, <1>2, <1>3, <1>6 DEF AdjustConversionTypes, SetAndLock
<1>7. CASE AdjustOperandTypes
  BY <1>1, <1>2, <1>4, <1>7, OperandTypesCases DEF SetAndLock
<1>8. CASE AdjustMemberReference
  BY <1>1, <1>2, <1>8 DEF AdjustMemberReference, SetAndLock
<1>9. CASE AdjustSubscriptBase \/ ConvertSubscriptToInteger \/ AdjustToInt
           \/ AdjustIncompleteArgInCall
  BY <1>1, <1>2, <1>9 DEF AdjustSubscriptBase, ConvertSubscriptToInteger, AdjustToInt,
                          AdjustIncompleteArgInCall
<1>10. QED
  BY <1>5, <1>6, <1>7, <1>8, <1>9

\* writeMendfile refuses a table whose graph has a circle.
LEMMA GraphStep ==
  ASSUME GraphInv, [Next]_vars
  PROVE  GraphInv'
<1>1. CASE dirty' = TRUE
  BY <1>1 DEF GraphInv
<1>2. CASE WriteMendfile
  <2>1. dirty' = FALSE => Acyclic(Symbols, DirectDependencies)
    BY <1>2 DEF WriteMendfile
  <2>2. typedefs' = typedefs /\ records' = records
    BY <1>2 DEF WriteMendfile, table
  <2>3. dirty' \in BOOLEAN
    BY <1>2 DEF WriteMendfile
  <2>4. QED
    BY <2>1, <2>2, <2>3 DEF GraphInv, Acyclic, Symbols, DirectDependencies,
                            RecordDependencies, TypedefDependencies
<1>3. CASE UNCHANGED vars
  BY <1>3 DEF vars, table, GraphInv, Acyclic, Symbols, DirectDependencies,
              RecordDependencies, TypedefDependencies
<1>4. QED
  BY <1>1, <1>2, <1>3, HeuristicDirties DEF Next, Ended

\* A circle of records that contain each other by value is a circle of the graph:
\* C sees a record behind an alias without a pointer only if the typedef is of the
\* record itself.
LEMMA NoContainment ==
  ASSUME TableInv, Acyclic(Symbols, DirectDependencies)
  PROVE  Acyclic(DOMAIN records, Contains)
<1> SUFFICES ASSUME NEW C \in SUBSET DOMAIN records, C # {},
                    \A s \in C : Contains(s) \cap C # {}
             PROVE  FALSE
  BY DEF Acyclic
<1> DEFINE D == ({"record"} \X C) \cup ({"typedef"} \X {a \in DOMAIN typedefs : typedefs[a].base \in C})
<1>1. D \in SUBSET Symbols /\ D # {}
  <2>1. D \subseteq Symbols
    BY DEF Symbols
  <2>2. PICK s \in C : TRUE
    OBVIOUS
  <2>3. <<"record", s>> \in D
    OBVIOUS
  <2>4. QED
    BY <2>1, <2>3
<1>2. PICK x \in D : DirectDependencies(x) \cap D = {}
  BY <1>1 DEF Acyclic
<1>3. CASE \E s \in C : x = <<"record", s>>
  <2>1. PICK s \in C : x = <<"record", s>>
    BY <1>3
  <2>2. PICK u \in C, pair \in records[s] : Canonical(typedefs[pair[2]]) = Plain(u)
    BY DEF Contains
  <2> DEFINE a == pair[2]
  <2>3. a \in DOMAIN typedefs
    <3>1. <<"member", <<s, pair[1]>>, a>> \in AliasedSymbols
      BY DEF AliasedSymbols
    <3>2. <<"member", <<s, pair[1]>>, a>>[3] = a
      OBVIOUS
    <3>3. QED
      BY <3>1, <3>2 DEF TableInv, SymbolsInv
  <2>4. GoodType(typedefs[a], DOMAIN typedefs, DOMAIN records)
    BY <2>3 DEF TableInv, TypedefsInv
  <2>5. Canonical(typedefs[a]).ptr = 0 /\ Canonical(typedefs[a]).base = u
    BY <2>2 DEF Plain
  <2> HIDE DEF a
  <2>6. typedefs[a].alias = NoAlias
    <3>1. CASE typedefs[a].alias # NoAlias
      <4>1. typedefs[a].alias \in DOMAIN typedefs /\ typedefs[a].ptr > 0 /\ typedefs[a].ptr \in Nat
        BY <2>4, <3>1 DEF GoodType, Type
      <4>2. typedefs[typedefs[a].alias].ptr \in Nat
        BY <4>1 DEF TableInv, TypedefsInv, GoodType, Type
      <4>3. Canonical(typedefs[a]).ptr = typedefs[a].ptr + typedefs[typedefs[a].alias].ptr
        BY <3>1 DEF Canonical
      <4>4. QED
        BY <2>5, <4>1, <4>2, <4>3
    <3>2. QED
      BY <3>1
  <2>7. typedefs[a].base = u
    BY <2>5, <2>6 DEF Canonical
  <2>8. <<"typedef", a>> \in D
    BY <2>3, <2>7
  <2>9. <<"typedef", a>> \in DirectDependencies(x)
    <3>1. x[1] = "record" /\ x[2] = s
      BY <2>1
    <3>2. <<"typedef", a>> \in RecordDependencies(s)
      BY <2>2 DEF RecordDependencies, a
    <3>3. QED
      BY <3>1, <3>2 DEF DirectDependencies
  <2>10. QED
    BY <1>2, <2>8, <2>9
<1>4. CASE \E a \in DOMAIN typedefs : typedefs[a].base \in C /\ x = <<"typedef", a>>
  <2>1. PICK a \in DOMAIN typedefs : typedefs[a].base \in C /\ x = <<"typedef", a>>
    BY <1>4
  <2>2. x[1] = "typedef" /\ x[2] = a
    BY <2>1
  <2>3. <<"record", typedefs[a].base>> \in DirectDependencies(x)
    BY <2>1, <2>2 DEF DirectDependencies, TypedefDependencies
  <2>4. QED
    BY <1>2, <2>1, <2>3
<1>5. QED
  BY <1>3, <1>4

LEMMA InductiveInv == Spec => [](TableInv /\ GraphInv)
<1>1. Init => TableInv /\ GraphInv
  BY InitInv
<1>2. TableInv /\ GraphInv /\ [Next]_vars => TableInv' /\ GraphInv'
  BY NextStep, GraphStep
<1>3. QED
  BY <1>1, <1>2, PTL DEF Spec

-----------------------------------------------------------------------------
\* The table has its type whatever heuristics alter it, and in whatever order.
THEOREM TypeCorrect == Spec => []TypeOK
<1>1. TableInv => TypeOK
  BY DEF TableInv, TypedefsInv, SymbolsInv, SubscriptsInv, RestInv, Failures, GoodType,
         TypeOK
<1>2. QED
  BY <1>1, InductiveInv, PTL

\* A generated alias belongs to one variable, function or member: a heuristic that
\* replaces the type behind the alias of a diagnostic changes no other symbol.
THEOREM OneSymbolPerAlias == Spec => []AliasIdentifiesSymbol
<1>1. TableInv => AliasIdentifiesSymbol
  BY DEF TableInv, SymbolsInv
<1>2. QED
  BY <1>1, InductiveInv, PTL

\* The mendfile refers to no alias and no generated tag that it does not declare.
THEOREM Resolved == Spec => []ReferencesResolve
<1>1. TableInv => ReferencesResolve
  BY DEF TableInv, TypedefsInv, SymbolsInv, SubscriptsInv, GoodType, ReferencesResolve
<1>2. QED
  BY <1>1, InductiveInv, PTL

\* A mendfile that writeMendfile did not refuse can be compiled as far as records
\* go: none contains itself.
THEOREM RecordsComplete == Spec => []NoRecordContainsItself
<1>1. TableInv /\ GraphInv => NoRecordContainsItself
  BY NoContainment DEF GraphInv, NoRecordContainsItself, UpToDate
<1>2. QED
  BY <1>1, InductiveInv, PTL

\* A lock is lost only by an alias that the mendfile declared too late.
THEOREM LocksStay == Spec => LocksKept
<1>1. TableInv /\ [Next]_vars => [locked \ locked' \subseteq late]_vars
  BY NextStep
<1>2. QED
  BY <1>1, InductiveInv, PTL DEF Spec, LocksKept
=============================================================================
