----------------------------- MODULE MendingTable -----------------------------
(***************************************************************************)
(* The mending table of one source file and the heuristics that alter it   *)
(* (MendingHandler), one action per heuristic.  A symbol that the source   *)
(* uses and does not declare is declared with a type alias of its own,     *)
(* whose aliased type later heuristics replace.                            *)
(*                                                                         *)
(* Generated alias and tag names are the numbers of their counters, and    *)
(* names taken from the source are not numbers.  A type is a base          *)
(* (a builtin, a record or an enum), the number of pointers or arrays over *)
(* it (no heuristic tells the two apart), and the alias its declaration is *)
(* written with, if it is not written with the base.                       *)
(*                                                                         *)
(* What clang can complain about is external.  A declaration is missing    *)
(* only while the table lacks it (the exporter compiles with the mendfile, *)
(* and a batch names a symbol once), and a type mismatch involves types    *)
(* that expressions over the declared symbols have, in a mendfile that is  *)
(* up to date.                                                             *)
(***************************************************************************)
EXTENDS Integers, Sequences, FiniteSets

CONSTANTS
  Names,          \* undeclared variables and functions of the source
  Members,        \* undeclared members
  TypedefNames,   \* type names that the source does not define
  NamedRecords,   \* structs and unions that the source names
  NamedEnums,     \* enums that the source names
  Headers,        \* missing headers
  INT, UINT, VOID,\* the builtin types
  NoAlias,
  MaxAliases,     \* bound: generated aliases
  MaxTags,        \* bound: generated tags
  MaxConstants,   \* bound: generated enum constants
  MaxPointers,    \* bound: pointers over a base
  MaxSubscripts   \* bound: subscripts on a variable

Builtins == {INT, UINT, VOID}

ASSUME NamesAssumption ==
  /\ Cardinality(Builtins) = 3
  /\ Builtins \cap (Nat \cup NamedRecords \cup NamedEnums) = {}
  /\ NamedRecords \cap (Nat \cup NamedEnums) = {}
  /\ NamedEnums \cap Nat = {}
  /\ (TypedefNames \cup {NoAlias}) \cap Nat = {}
  /\ NoAlias \notin TypedefNames

ASSUME BoundsAssumption ==
  {MaxAliases, MaxTags, MaxConstants, MaxPointers, MaxSubscripts} \subseteq Nat

VARIABLES
  typedefs,     \* alias -> aliased type
  locked,       \* aliases whose typedef symbol is locked
  records,      \* tag -> set of <<member, its alias>>
  enums,        \* tag -> its one constant
  variables,    \* name -> its alias
  functions,    \* name -> the alias of its return type
  subscripts,   \* arraySubscriptToCorrespondingSymbol: <<variable, number of
                \* subscripts>> -> the alias of the variable it was mapped to
  ppFiles,
  aliasCounter, \* the counters of MendingTypeNameGenerator
  tagCounter,
  constantCounter,
  dirty,        \* the table was altered after the mendfile was written
  late,         \* aliases that the mendfile uses before it declares them
  failed        \* what ended the mending of the file

table == <<typedefs, locked, records, enums, variables, functions, subscripts, ppFiles>>
counters == <<aliasCounter, tagCounter, constantCounter>>
vars == <<table, counters, dirty, late, failed>>

Type == [ptr : Nat, base : Builtins \cup Nat \cup NamedRecords \cup NamedEnums,
         alias : {NoAlias} \cup Nat]

Plain(b) == [ptr |-> 0, base |-> b, alias |-> NoAlias]
PointerTo(t) == [t EXCEPT !.ptr = @ + 1]
IsRecord(b) == b \in Nat \cup NamedRecords

Put(f, k, v) == [x \in DOMAIN f \cup {k} |-> IF x = k THEN v ELSE f[x]]

Init ==
  /\ typedefs = <<>> /\ locked = {}
  /\ records = <<>> /\ enums = <<>>
  /\ variables = <<>> /\ functions = <<>>
  /\ subscripts = <<>> /\ ppFiles = {}
  /\ aliasCounter = 0 /\ tagCounter = 0 /\ constantCounter = 0
  /\ dirty = FALSE /\ late = {}
  /\ failed = "no"

-----------------------------------------------------------------------------
\* An unchecked exception leaves the handler: mendingIteration makes it fatal.
Throw == failed' = "heuristic" /\ dirty' = TRUE /\ UNCHANGED <<table, counters, late>>

Altered == dirty' = TRUE /\ UNCHANGED <<late, failed>>

\* createTypedef: a new, unlocked typedef symbol, in place of one of its name.
CreateTypedef(a, t) ==
  /\ typedefs' = Put(typedefs, a, t)
  /\ locked' = locked \ {a}

\* createTypedefOfGeneratedStructType: an empty struct of a new name.
CreateTypedefOfGeneratedStructType(a) ==
  /\ tagCounter < MaxTags
  /\ tagCounter' = tagCounter + 1
  /\ CreateTypedef(a, Plain(tagCounter))

NewRecord == Put(records, tagCounter, {})

\* newTypedefAliasName.
NewAlias == aliasCounter < MaxAliases /\ aliasCounter' = aliasCounter + 1

DeclareFunction ==
  \E f \in Names \ DOMAIN functions :
    /\ NewAlias
    /\ CreateTypedef(aliasCounter, Plain(VOID))
    /\ functions' = Put(functions, f, aliasCounter)
    /\ Altered
    /\ UNCHANGED <<records, enums, variables, subscripts, ppFiles, tagCounter, constantCounter>>

\* Mutant: the name of the counter is taken and the counter is not advanced.
DeclareVariableReusingName ==
  \E v \in Names \ DOMAIN variables :
    /\ CreateTypedefOfGeneratedStructType(aliasCounter)
    /\ records' = NewRecord
    /\ variables' = Put(variables, v, aliasCounter)
    /\ Altered
    /\ UNCHANGED <<enums, functions, subscripts, ppFiles, aliasCounter, constantCounter>>

DeclareVariableOrTypedef ==
  \E v \in Names \ DOMAIN variables :
    /\ NewAlias
    /\ CreateTypedefOfGeneratedStructType(aliasCounter)
    /\ records' = NewRecord
    /\ variables' = Put(variables, v, aliasCounter)
    /\ Altered
    /\ UNCHANGED <<enums, functions, subscripts, ppFiles, constantCounter>>

\* A type name that the source does not define, or an alias that the mendfile
\* declares too late: its typedef symbol is replaced.
DeclareTypedefTypeAlias ==
  \E t \in (TypedefNames \ DOMAIN typedefs) \cup late :
    /\ CreateTypedefOfGeneratedStructType(t)
    /\ records' = NewRecord
    /\ late' = late \ {t}
    /\ dirty' = TRUE
    /\ UNCHANGED <<enums, variables, functions, subscripts, ppFiles, aliasCounter, constantCounter, failed>>

\* A member is added to a record of the table; a record that is not there (the
\* source defines it) makes the heuristic throw.
AddRecordMember ==
  \/ \E r \in DOMAIN records, m \in Members :
       /\ \A pair \in records[r] : pair[1] # m
       /\ NewAlias
       /\ CreateTypedefOfGeneratedStructType(aliasCounter)
       /\ records' = [NewRecord EXCEPT ![r] = @ \cup {<<m, aliasCounter>>}]
       /\ Altered
       /\ UNCHANGED <<enums, variables, functions, subscripts, ppFiles, constantCounter>>
  \/ NamedRecords \ DOMAIN records # {} /\ Members # {} /\ Throw

\* defineTagTypeHeuristic: an incomplete struct or union becomes an empty
\* struct, an incomplete enum gets a constant.
DefineTagType ==
  /\ \/ /\ \E r \in NamedRecords \ DOMAIN records : records' = Put(records, r, {})
        /\ UNCHANGED <<enums, constantCounter>>
     \/ /\ constantCounter < MaxConstants
        /\ \E e \in NamedEnums \ DOMAIN enums : enums' = Put(enums, e, constantCounter)
        /\ constantCounter' = constantCounter + 1
        /\ UNCHANGED records
  /\ Altered
  /\ UNCHANGED <<typedefs, locked, variables, functions, subscripts, ppFiles,
                 aliasCounter, tagCounter>>

\* createHeaderFileHeuristic: a header that the table has is skipped (another
\* spelling of the same canonical path), and one is remembered before the file
\* system may refuse it.
CreateHeaderFile ==
  /\ \E h \in Headers :
       \/ h \in ppFiles /\ UNCHANGED ppFiles /\ Altered
       \/ h \notin ppFiles /\ ppFiles' = ppFiles \cup {h} /\ Altered
       \/ h \notin ppFiles /\ ppFiles' = ppFiles \cup {h} /\ failed' = "heuristic" /\ dirty' = TRUE
          /\ UNCHANGED late
  /\ UNCHANGED <<typedefs, locked, records, enums, variables, functions, subscripts, counters>>

-----------------------------------------------------------------------------
\* The mendfile declares the table.  The heuristics of this section are those of
\* diagnostics that no strategy handles before one about a missing declaration.
UpToDate == ~dirty /\ late = {}

\* The type clang sees behind a type: an alias it is written with is followed.
Canonical(t) ==
  IF t.alias = NoAlias THEN t
  ELSE [ptr |-> t.ptr + typedefs[t.alias].ptr, base |-> typedefs[t.alias].base, alias |-> NoAlias]

\* The types that clang gives to expressions: that of a declared symbol is known
\* by its alias; the address of a symbol ("alias *") and what a pointer points to
\* have no alias of the table; and so have the types the source declares.
TypeArgs ==
  {q \in
     {[alias |-> a, type |-> Canonical(typedefs[a])] : a \in DOMAIN typedefs}
     \cup {[alias |-> NoAlias, type |-> PointerTo(Canonical(typedefs[a]))] : a \in DOMAIN typedefs}
     \cup {[alias |-> NoAlias, type |-> [typedefs[a] EXCEPT !.ptr = @ - 1]] :
             a \in {b \in DOMAIN typedefs : typedefs[b].ptr > 0 /\ typedefs[b].alias = NoAlias}}
     \cup {[alias |-> NoAlias, type |-> [ptr |-> n, base |-> b, alias |-> NoAlias]] :
             n \in 0..1, b \in {INT} \cup NamedRecords \cup NamedEnums}
   : q.type.ptr <= MaxPointers}

ByValue(t) == t.ptr = 0 /\ t.base \in Nat \cup NamedRecords \cup {VOID}

\* err_typecheck_convert_incompatible, err_typecheck_invalid_operands: a record
\* or void meets another type; the sum of two pointers.
Incompatible(l, r) == l.type # r.type /\ ~(~ByValue(l.type) /\ ~ByValue(r.type))

InvalidOperands(l, op, r) ==
  ~(/\ ~ByValue(l.type) /\ ~ByValue(r.type)
    /\ op = "+" => 0 \in {l.type.ptr, r.type.ptr})

Controlled(b) == b \in DOMAIN records \cup DOMAIN enums

\* A type whose name the table has no alias for, unless it is a generated tag.
SourceOfTruth(q) ==
  /\ q.alias = NoAlias
  /\ ~(q.type.ptr = 0 /\ Controlled(q.type.base) /\ q.type.base \in Nat)

\* setAliasedType (and setLocked) on the typedef symbols of some aliases.
SetAliasedType(A, t) ==
  /\ typedefs' = [a \in DOMAIN typedefs |-> IF a \in A THEN t ELSE typedefs[a]]
  /\ Altered
  /\ UNCHANGED <<records, enums, variables, functions, subscripts, ppFiles, counters>>

SetAndLock(A, t) == SetAliasedType(A, t) /\ locked' = locked \cup A

\* The typedef symbol of a generated tag is looked up: it is null, and used at once.
LookupFails == failed' = "lookup" /\ dirty' = TRUE /\ UNCHANGED <<table, counters, late>>

\* Mutant: the missing symbol goes unnoticed.
ChangeUnchecked(q, t) == SetAndLock({q.alias}, t)

\* The symbol of q is looked up by the name of its type and changed.
Change(q, t) == \/ q.alias # NoAlias /\ SetAndLock({q.alias}, t)
                \/ q.alias = NoAlias /\ LookupFails

\* adjustConversionTypesHeuristic.
AdjustConversionTypes ==
  /\ UpToDate
  /\ \E l, r \in TypeArgs :
       /\ Incompatible(l, r)
       /\ \/ SourceOfTruth(l) /\ SourceOfTruth(r) /\ Throw
          \/ SourceOfTruth(l) /\ ~SourceOfTruth(r) /\ Change(r, l.type)
          \/ ~SourceOfTruth(l) /\ SourceOfTruth(r) /\ Change(l, r.type)
          \/ /\ ~SourceOfTruth(l) /\ ~SourceOfTruth(r)
             /\ \/ NoAlias \in {l.alias, r.alias} /\ LookupFails
                \/ /\ NoAlias \notin {l.alias, r.alias}
                   /\ \/ {l.alias, r.alias} \subseteq locked /\ Throw
                      \/ l.alias \in locked /\ r.alias \notin locked /\ Change(r, typedefs[l.alias])
                      \/ l.alias \notin locked /\ r.alias \in locked /\ Change(l, typedefs[r.alias])
                      \/ /\ {l.alias, r.alias} \cap locked = {}
                         /\ SetAndLock({l.alias, r.alias}, Plain(INT))

\* The operand that is not the source of truth becomes what the operation needs;
\* a record can be an operand of none.
AdjustOperand(truth, op, truthIsLhs, q) ==
  \/ /\ truth.ptr > 0
     /\ \/ op = "==" /\ Change(q, PointerTo(Plain(INT)))
        \/ op = "+" /\ Change(q, Plain(INT))
        \/ op = "-" /\ ~truthIsLhs /\ Change(q, PointerTo(Plain(INT)))
        \/ op = "-" /\ truthIsLhs /\ Throw
        \/ op = "*" /\ Throw
  \/ truth.ptr = 0 /\ ~IsRecord(truth.base) /\ Change(q, Plain(INT))
  \/ truth.ptr = 0 /\ IsRecord(truth.base) /\ Throw

\* adjustOperandTypesHeuristic; "==" stands for the comparisons and "*" for the
\* operations other than those, + and -.
AdjustOperandTypes ==
  /\ UpToDate
  /\ \E l, r \in TypeArgs, op \in {"==", "+", "-", "*"} :
       /\ InvalidOperands(l, op, r)
       /\ \/ SourceOfTruth(l) /\ SourceOfTruth(r) /\ Throw
          \/ SourceOfTruth(l) /\ ~SourceOfTruth(r) /\ AdjustOperand(l.type, op, TRUE, r)
          \/ ~SourceOfTruth(l) /\ SourceOfTruth(r) /\ AdjustOperand(r.type, op, FALSE, l)
          \/ /\ ~SourceOfTruth(l) /\ ~SourceOfTruth(r)
             /\ \/ NoAlias \in {l.alias, r.alias} /\ LookupFails
                \/ /\ NoAlias \notin {l.alias, r.alias}
                   /\ \/ {l.alias, r.alias} \subseteq locked /\ Throw
                      \/ /\ l.alias \in locked /\ r.alias \notin locked
                         /\ AdjustOperand(typedefs[l.alias], op, TRUE, r)
                      \/ /\ l.alias \notin locked /\ r.alias \in locked
                         /\ AdjustOperand(typedefs[r.alias], op, FALSE, l)
                      \/ /\ {l.alias, r.alias} \cap locked = {}
                         /\ SetAndLock({l.alias, r.alias}, Plain(INT))

\* adjustMemberReferenceHeuristic: p->m where p is no pointer makes p's alias a
\* pointer to what it was; s.m where s is a pointer is left alone.
AdjustMemberReference ==
  /\ UpToDate
  /\ \E q \in TypeArgs :
       \/ /\ q.type.ptr = 0
          /\ \/ q.alias # NoAlias /\ SetAndLock({q.alias}, PointerTo(typedefs[q.alias]))
             \/ q.alias = NoAlias /\ Throw
       \/ q.type.ptr > 0 /\ Altered /\ UNCHANGED <<table, counters>>

\* Mutant: the variable's own alias is created anew as the pointer.
AdjustSubscriptBaseRecreating ==
  /\ UpToDate
  /\ \E v \in DOMAIN variables :
       /\ typedefs[variables[v]].ptr < MaxPointers
       /\ CreateTypedef(variables[v], PointerTo(typedefs[variables[v]]))
  /\ Altered
  /\ UNCHANGED <<records, enums, variables, functions, subscripts, ppFiles, counters>>

\* adjustSubscriptBaseHeuristic.  The base of the subscript is a variable with n
\* subscripts that clang sees no pointer or array in.  One that was mapped makes
\* the variable's alias a pointer to what it was; a bare variable gets an alias
\* for its elements; others throw, as does the same number of subscripts spelled
\* in another way.  Only variables are ever mapped, so that the branches for
\* functions and members of the code are never taken.
AdjustSubscriptBase ==
  /\ UpToDate
  /\ \E v \in Names, n \in 0..(MaxSubscripts - 1) :
       \/ /\ <<v, n>> \in DOMAIN subscripts
          /\ LET a == subscripts[<<v, n>>] IN
             /\ Canonical(typedefs[a]).ptr = n
             /\ typedefs' = [typedefs EXCEPT ![a] = PointerTo(@)]
             /\ subscripts' = Put(subscripts, <<v, n + 1>>, a)
          /\ Altered
          /\ UNCHANGED <<locked, records, enums, variables, functions, ppFiles, counters>>
       \/ /\ n = 0 /\ v \in DOMAIN variables
          /\ typedefs[variables[v]].ptr = 0
          /\ NewAlias
          /\ LET a == variables[v]
                 t == typedefs[a]
             IN  /\ typedefs' = [Put(typedefs, aliasCounter, t) EXCEPT
                                   ![a] = [ptr |-> 1, base |-> t.base, alias |-> aliasCounter]]
                 /\ subscripts' = Put(subscripts, <<v, 1>>, a)
          /\ Altered
          /\ UNCHANGED <<locked, records, enums, variables, functions, ppFiles,
                         tagCounter, constantCounter>>
       \/ n = 0 /\ v \notin DOMAIN variables /\ Throw
       \/ n > 0 /\ Throw

\* convertSubscriptToIntegerHeuristic: only for a variable of the table.
ConvertSubscriptToInteger ==
  /\ UpToDate
  /\ \/ \E v \in DOMAIN variables :
          SetAliasedType({variables[v]}, Plain(UINT)) /\ UNCHANGED locked
     \/ Throw

\* adjustIncrementDecrementHeuristic, adjustArraySizeNonInt: int, not locked.
AdjustToInt ==
  /\ UpToDate
  /\ \E q \in TypeArgs :
       /\ ByValue(q.type)
       /\ \/ q.alias # NoAlias /\ SetAliasedType({q.alias}, Plain(INT)) /\ UNCHANGED locked
          \/ q.alias = NoAlias /\ Throw

\* Mutant: the new struct is not put into the table.
AdjustIncompleteArgWithoutStruct ==
  /\ UpToDate
  /\ tagCounter < MaxTags
  /\ \E a \in DOMAIN typedefs :
       /\ typedefs[a] = Plain(VOID)
       /\ typedefs' = [typedefs EXCEPT ![a] = Plain(tagCounter)]
  /\ tagCounter' = tagCounter + 1
  /\ Altered
  /\ UNCHANGED <<locked, records, enums, variables, functions, subscripts, ppFiles,
                 aliasCounter, constantCounter>>

\* adjustIncompleteArgInCall: a void argument becomes a new struct.
AdjustIncompleteArgInCall ==
  /\ UpToDate
  /\ \E q \in TypeArgs :
       /\ ByValue(q.type)
       /\ \/ q.alias = NoAlias /\ Throw
          \/ /\ q.alias # NoAlias /\ q.type.base = VOID
             /\ tagCounter < MaxTags
             /\ tagCounter' = tagCounter + 1
             /\ records' = NewRecord
             /\ typedefs' = [typedefs EXCEPT ![q.alias] = Plain(tagCounter)]
             /\ Altered
             /\ UNCHANGED <<locked, enums, variables, functions, subscripts, ppFiles,
                            aliasCounter, constantCounter>>
          \/ /\ q.alias # NoAlias /\ q.type.base # VOID
             /\ SetAliasedType({q.alias}, Plain(INT))
             /\ UNCHANGED locked

-----------------------------------------------------------------------------
\* The nodes of the dependency graph.
Symbols == ({"typedef"} \X DOMAIN typedefs) \cup ({"record"} \X DOMAIN records)

\* A record depends on the aliases of its members.
RecordDependencies(r) == {<<"typedef", pair[2]>> : pair \in records[r]}

\* Mutant: what a typedef depends on is forgotten.
TypedefDependenciesForgotten(a) == {}

\* A typedef depends on the record its type is built from, behind any number of
\* pointers; not on the alias the type is written with.
TypedefDependencies(a) == {<<"record", b>> : b \in {typedefs[a].base} \cap DOMAIN records}

DirectDependencies(s) ==
  IF s[1] = "record" THEN RecordDependencies(s[2]) ELSE TypedefDependencies(s[2])

\* A relation on a finite set has a cycle iff some non-empty part of the set has
\* a successor in the part for each of its elements.
Acyclic(S, Succ(_)) == \A C \in SUBSET S : C # {} => \E s \in C : Succ(s) \cap C = {}

\* What a symbol depends on, directly or not: it is in every set that holds the
\* symbol and what its elements depend on.
DependsOn(s, u) ==
  \A C \in SUBSET Symbols :
    (s \in C /\ \A c \in C : DirectDependencies(c) \subseteq C) => u \in C

\* The alias that a typedef is written with, which may be its own.
WrittenWith(a) == {typedefs[a].alias} \ {NoAlias}

\* The aliases that a typedef is written with and does not depend on: the order of
\* the symbols, which follows their hashes where the graph allows, may put the
\* typedef first.
Unordered ==
  UNION {{c \in WrittenWith(a) : c = a \/ ~DependsOn(<<"typedef", a>>, <<"typedef", c>>)} :
           a \in DOMAIN typedefs}

\* The aliases that come too late in some order: of typedefs that are written with
\* each other's aliases in a circle, one is always first.
LateAliases ==
  {L \in SUBSET Unordered :
     LET InTime(a) == WrittenWith(a) \ L IN Acyclic(DOMAIN typedefs, InTime)}

\* writeMendfile.  An enum of the table has no node in the graph, so that a
\* typedef of one is a null pointer; a cycle leaves no order of the symbols.
WriteMendfile ==
  /\ dirty
  /\ failed' = IF \E a \in DOMAIN typedefs : typedefs[a].base \in DOMAIN enums THEN "enum"
               ELSE IF ~Acyclic(Symbols, DirectDependencies) THEN "circular"
               ELSE "no"
  /\ dirty' = (failed' # "no")
  /\ late' \in IF failed' = "no" THEN LateAliases ELSE {{}}
  /\ UNCHANGED <<table, counters>>

\* The mending of the file has ended: with a fatal exception, or after an export
\* of a mendfile that was written.
Ended == (failed # "no" \/ ~dirty) /\ UNCHANGED vars

Next ==
  \/ /\ failed = "no"
     /\ \/ DeclareFunction
        \/ DeclareVariableOrTypedef
        \/ DeclareTypedefTypeAlias
        \/ AddRecordMember
        \/ DefineTagType
        \/ CreateHeaderFile
        \/ AdjustConversionTypes
        \/ AdjustOperandTypes
        \/ AdjustMemberReference
        \/ AdjustSubscriptBase
        \/ ConvertSubscriptToInteger
        \/ AdjustToInt
        \/ AdjustIncompleteArgInCall
        \/ WriteMendfile
  \/ Ended

Spec == Init /\ [][Next]_vars

-----------------------------------------------------------------------------
Aliases == Nat \cup TypedefNames
Tags == Nat \cup NamedRecords

TypeOK ==
  /\ DOMAIN typedefs \subseteq Aliases
  /\ typedefs \in [DOMAIN typedefs -> Type]
  /\ locked \subseteq DOMAIN typedefs
  /\ DOMAIN records \subseteq Tags
  /\ records \in [DOMAIN records -> SUBSET (Members \X Nat)]
  /\ DOMAIN enums \subseteq NamedEnums
  /\ enums \in [DOMAIN enums -> Nat]
  /\ DOMAIN variables \subseteq Names
  /\ variables \in [DOMAIN variables -> Nat]
  /\ DOMAIN functions \subseteq Names
  /\ functions \in [DOMAIN functions -> Nat]
  /\ DOMAIN subscripts \subseteq Names \X (Nat \ {0})
  /\ subscripts \in [DOMAIN subscripts -> Nat]
  /\ ppFiles \subseteq Headers
  /\ aliasCounter \in Nat /\ tagCounter \in Nat /\ constantCounter \in Nat
  /\ dirty \in BOOLEAN
  /\ late \subseteq DOMAIN typedefs
  /\ failed \in {"no", "heuristic", "lookup", "enum", "circular"}

\* The symbols that have an alias of their own.
AliasedSymbols ==
  {<<"variable", <<v>>, variables[v]>> : v \in DOMAIN variables}
  \cup {<<"function", <<f>>, functions[f]>> : f \in DOMAIN functions}
  \cup UNION {{<<"member", <<r, pair[1]>>, pair[2]>> : pair \in records[r]} : r \in DOMAIN records}

\* "With the name we can also uniquely identify the symbol"
\* (MendingTypeNameGenerator): no two variables, functions or members of the
\* table share an alias, so that replacing the type behind an alias never
\* changes a second symbol.
AliasIdentifiesSymbol ==
  \A s, u \in AliasedSymbols : s[3] = u[3] => s = u

\* Nothing in the table refers to what is not there: the alias of every variable,
\* function, member and subscript, the alias a type is written with, and every
\* generated tag behind a type are declared by the mendfile.
ReferencesResolve ==
  /\ \A s \in AliasedSymbols : s[3] \in DOMAIN typedefs
  /\ \A x \in DOMAIN subscripts : subscripts[x] \in DOMAIN typedefs
  /\ \A a \in DOMAIN typedefs :
       /\ typedefs[a].alias \in DOMAIN typedefs \cup {NoAlias}
       /\ typedefs[a].base \in Nat => typedefs[a].base \in DOMAIN records

\* The records that a record contains by value, as C sees the declarations.
Contains(r) ==
  {s \in DOMAIN records : \E pair \in records[r] : Canonical(typedefs[pair[2]]) = Plain(s)}

\* A mendfile that was written declares no record that contains itself by value,
\* directly or through others: every record can be completed.
NoRecordContainsItself ==
  (UpToDate /\ failed = "no") => Acyclic(DOMAIN records, Contains)

\* "Circular dependencies are allowed when a struct includes a pointer to itself
\* or when two records include pointers to each other" (MendingTable): the
\* mendfile is refused only when a record contains itself by value.
PointerCyclesAllowed == failed = "circular" => ~Acyclic(DOMAIN records, Contains)

\* "neither is source of truth. are also both controlled typedef aliases", and the
\* assertion of adjustConversionTypesHeuristic: the side that is to be changed
\* has the name of a typedef alias.
ToBeChangedIsTypedefAlias == failed # "lookup"

\* A lock that was set stays set: an alias loses its lock, which keeps the
\* conversions and operations between two aliases from replacing its type, only
\* when the mendfile declared it too late and it is declared again.
LocksKept == [][locked \ locked' \subseteq late]_vars
=============================================================================
