---------------------------- MODULE SymbolSpace ----------------------------
(***************************************************************************)
(* SymbolSpace of volatility3/framework/symbols/__init__.py: the symbol    *)
(* tables of a context, and the resolution of the references between their *)
(* types.                                                                  *)
(*                                                                         *)
(* A table makes a new template whenever it is asked for a type.  The      *)
(* members of a structure are references to other types: embedded, or      *)
(* wrapped in a pointer or an array.  get_type() resolves all it can       *)
(* reach, one reference after the other, and replaces them at the end: an  *)
(* exception in between leaves what was done so far.                       *)
(***************************************************************************)
EXTENDS Integers, Sequences, SequencesExt, Functions

CONSTANTS
  Names,       \* table names
  Parts,       \* names of types and symbols inside a table
  Contents,    \* what a table can hold: [types |-> ..., symbols |-> ...], see below
  MaxCalls     \* bound: number of calls

(***************************************************************************)
(* content.types[part] is the sequence of the members' types, in the order *)
(* a traversal meets them, embedded ones before wrapped ones; or Malformed:*)
(* the table raises a SymbolSpaceError other than SymbolError over it.     *)
(* content.symbols[part] is the type of a symbol.  The type of a member or *)
(* symbol is [to, wrapped]: the full name of a structure, and whether it   *)
(* is under a pointer or array.                                            *)
(***************************************************************************)
Malformed == "malformed"

FullNames == Names \X Parts
MemberTypes == [to : FullNames, wrapped : BOOLEAN]

ASSUME ContentsAssumption ==
  \A content \in Contents :
    /\ \A part \in DOMAIN content.types :
         LET members == content.types[part]
         IN members = Malformed
              \/ /\ members \in Seq(MemberTypes)
                 /\ \A i, j \in DOMAIN members : i < j /\ members[i].wrapped => members[j].wrapped
    /\ \A part \in DOMAIN content.symbols : content.symbols[part] \in MemberTypes

Unset == 0           \* the reference has not been replaced
Nothing == <<>>      \* no call is in progress
Caller == 0          \* get_type() was not called on behalf of a symbol

VARIABLES
  tables,      \* _dict: name -> [id, content, cache], the cache of the table
               \* holding the symbols it has made: part -> symbol
  heap,        \* all structure templates made so far
  symbols,     \* all symbols made so far: [type, at]
  resolved,    \* _resolved: full name -> template
  resolvedSymbols,  \* _resolved_symbols: full name -> symbol whose type it is
  visit,       \* references still to be looked at: [parent, member]
  replacements,\* references to be replaced at the end
  serving,     \* the call in progress: the type to resolve, and for whom
  answer,      \* what the last call returned: a type, a symbol, or an exception
  made,        \* tables made so far
  halfDone,    \* history: names whose resolution an exception cut short
  calls

traversal == <<visit, replacements, serving>>
vars == <<tables, heap, symbols, resolved, resolvedSymbols, traversal, answer, made, halfDone, calls>>

\* A template: at[i] is the template the wrapper of member i points to
Structure(name, maker, members) ==
  [kind |-> "structure", name |-> name, maker |-> maker, members |-> members,
   at |-> [i \in DOMAIN members |-> Unset]]

UnresolvedTemplate(name) ==
  [kind |-> "unresolved", name |-> name, maker |-> 0, members |-> <<>>, at |-> <<>>]

\* dictionary[key] = value
With(dictionary, key, value) ==
  [k \in DOMAIN dictionary \cup {key} |-> IF k = key THEN value ELSE dictionary[k]]

AType(t) == [what |-> "type", is |-> t]
ASymbol(s) == [what |-> "symbol", is |-> s]
Raised == [what |-> "exception", is |-> 0]

-----------------------------------------------------------------------------
(* _weak_resolve *)

HasType(name) == name[1] \in DOMAIN tables /\ name[2] \in DOMAIN tables[name[1]].content.types

IsMalformed(name) == HasType(name) /\ tables[name[1]].content.types[name[2]] = Malformed

HasSymbol(name) == name[1] \in DOMAIN tables /\ name[2] \in DOMAIN tables[name[1]].content.symbols

\* What the table makes of a type it has
MadeType(name) == Structure(name, tables[name[1]].id, tables[name[1]].content.types[name[2]])

\* The references of template t, in the order they are met
References(t, template) == [i \in DOMAIN template.members |-> [parent |-> t, member |-> i]]

Target(pair) == heap[pair.parent].members[pair.member].to

-----------------------------------------------------------------------------
(* Deviations a bug could introduce; only the mutants of PROJECT.json use them. *)

\* Removing a table forgets none of the types.
KeepsTypes(types) == types

\* No wrapper is replaced, as no structure member is.
ReplacesNothing(template, i) == FALSE

-----------------------------------------------------------------------------
Init ==
  /\ tables = <<>> /\ heap = <<>> /\ symbols = <<>>
  /\ resolved = <<>> /\ resolvedSymbols = <<>>
  /\ visit = <<>> /\ replacements = {} /\ serving = Nothing
  /\ answer = Raised /\ made = 0 /\ halfDone = {} /\ calls = 0

Call == serving = Nothing /\ calls < MaxCalls /\ calls' = calls + 1

\* "Reset the resolved list, since we're removing some symbols"
Reset(types) == <<>>

\* remove(key): the reset comes before the KeyError for a name that is not there
RemoveTable(name) ==
  /\ Call
  /\ resolved' = Reset(resolved)
  /\ halfDone' = {}
  /\ tables' = Restrict(tables, DOMAIN tables \ {name})
  /\ UNCHANGED <<heap, symbols, resolvedSymbols, traversal, answer, made>>

\* append(value): a table of the same name is removed first
AppendTable(name, content) ==
  /\ Call
  /\ made' = made + 1
  /\ tables' = With(tables, name, [id |-> made + 1, content |-> content, cache |-> <<>>])
  /\ IF name \in DOMAIN tables THEN resolved' = Reset(resolved) /\ halfDone' = {}
     ELSE UNCHANGED <<resolved, halfDone>>
  /\ UNCHANGED <<heap, symbols, resolvedSymbols, traversal, answer>>

\* clear_symbol_cache(table_name)
ClearSymbolCache(name) ==
  /\ Call
  /\ name \in DOMAIN tables
  /\ tables' = [tables EXCEPT ![name].cache = <<>>]
  /\ UNCHANGED <<heap, symbols, resolved, resolvedSymbols, traversal, answer, made, halfDone>>

Cached(name) == name \in DOMAIN resolved

\* if isinstance(self._resolved[type_name], ReferenceTemplate): raise
Usable(t) == heap[t].kind = "structure"

\* get_type() of a name resolved before
CachedType(name) == IF Usable(resolved[name]) THEN AType(resolved[name]) ELSE Raised

\* The weak resolution that get_type() starts with
StartsTraversal(name, call) ==
  LET t == Len(heap) + 1
  IN /\ heap' = Append(heap, MadeType(name))
     /\ resolved' = With(resolved, name, t)
     /\ visit' = References(t, MadeType(name))
     /\ replacements' = {}
     /\ serving' = call

GetType(name) ==
  /\ Call
  /\ \/ /\ Cached(name)
        /\ answer' = CachedType(name)
        /\ UNCHANGED <<heap, resolved, traversal>>
     \/ /\ ~Cached(name) /\ HasType(name) /\ ~IsMalformed(name)
        /\ StartsTraversal(name, [type |-> name, for |-> Caller])
        /\ UNCHANGED answer
     \/ /\ ~Cached(name) /\ (HasType(name) => IsMalformed(name))
        /\ answer' = Raised
        /\ UNCHANGED <<heap, resolved, traversal>>
  /\ UNCHANGED <<tables, symbols, resolvedSymbols, made, halfDone>>

(***************************************************************************)
(* _iterative_resolve(), one reference at a time.  A type that a table     *)
(* does not have becomes an UnresolvedTemplate; over a malformed one the   *)
(* traversal is left, with no replacement made.                            *)
(***************************************************************************)
Visit ==
  /\ visit # <<>>
  /\ LET pair == Head(visit)
         name == Target(pair)
         t == Len(heap) + 1
         template == IF HasType(name) THEN MadeType(name) ELSE UnresolvedTemplate(name)
     IN IF Cached(name)
        THEN /\ visit' = Tail(visit)
             /\ replacements' = replacements \cup {pair}
             /\ UNCHANGED <<heap, resolved, serving, answer, halfDone>>
        ELSE IF IsMalformed(name)
        THEN /\ visit' = <<>> /\ replacements' = {} /\ serving' = Nothing
             /\ answer' = Raised
             /\ halfDone' = halfDone \cup {heap[p.parent].name : p \in replacements \cup Range(visit)}
             /\ UNCHANGED <<heap, resolved>>
        ELSE /\ heap' = Append(heap, template)
             /\ resolved' = With(resolved, name, t)
             /\ visit' = Tail(visit) \o References(t, template)
             /\ replacements' = replacements \cup {pair}
             /\ UNCHANGED <<serving, answer, halfDone>>
  /\ UNCHANGED <<tables, symbols, resolvedSymbols, made, calls>>

(***************************************************************************)
(* replace_child() on a pointer or array stores the new child.  On a       *)
(* structure it looks for the members of a member named "members" and      *)
(* changes nothing: an embedded structure stays a reference.               *)
(***************************************************************************)
Replaces(template, i) == template.members[i].wrapped

Replaced(h) ==
  [t \in DOMAIN h |-> [h[t] EXCEPT !.at =
     [i \in DOMAIN @ |-> IF [parent |-> t, member |-> i] \in replacements /\ Replaces(h[t], i)
                         THEN resolved[h[t].members[i].to] ELSE @[i]]]]

\* _subresolve() ends: the pointer of the symbol's type gets its target
Subresolved(sym, t) == [symbols EXCEPT ![sym].at = t]

\* The traversal ends; get_type() returns the type, to its caller or get_symbol()
Finish ==
  /\ serving # Nothing /\ visit = <<>>
  /\ heap' = Replaced(heap)
  /\ replacements' = {} /\ serving' = Nothing
  /\ IF serving.for = Caller
     THEN /\ answer' = AType(resolved[serving.type])
          /\ UNCHANGED <<symbols, resolvedSymbols>>
     ELSE /\ answer' = ASymbol(serving.for)
          /\ symbols' = Subresolved(serving.for, resolved[serving.type])
          /\ resolvedSymbols' = With(resolvedSymbols, symbols[serving.for].name, serving.for)
  /\ UNCHANGED <<tables, resolved, visit, made, halfDone, calls>>

\* The symbol a table returns: the one it has made before, or a new one
SymbolOf(name) ==
  LET table == tables[name[1]]
  IN IF name[2] \in DOMAIN table.cache THEN [all |-> symbols, is |-> table.cache[name[2]]]
     ELSE [all |-> Append(symbols, [name |-> name, type |-> table.content.symbols[name[2]], at |-> Unset]),
           is |-> Len(symbols) + 1]

\* symbol_name in self._resolved_symbols
Done(name) == name \in DOMAIN resolvedSymbols

(***************************************************************************)
(* get_symbol(): the first time a name is looked up, what the symbol's     *)
(* type points to is resolved.  A type that is itself a reference has no   *)
(* children, and stays one.                                                *)
(***************************************************************************)
GetSymbol(name) ==
  /\ Call
  /\ \/ /\ ~HasSymbol(name)
        /\ answer' = Raised
        /\ UNCHANGED <<tables, heap, symbols, resolved, resolvedSymbols, traversal>>
     \/ /\ HasSymbol(name)
        /\ LET found == SymbolOf(name)
               type == tables[name[1]].content.symbols[name[2]]
               to == type.to
           IN /\ tables' = [tables EXCEPT ![name[1]].cache = With(@, name[2], found.is)]
              /\ \/ /\ Done(name)
                    /\ answer' = ASymbol(found.is)
                    /\ symbols' = found.all
                    /\ UNCHANGED <<heap, resolved, resolvedSymbols, traversal>>
                 \/ /\ ~Done(name) /\ ~type.wrapped
                    /\ answer' = ASymbol(found.is)
                    /\ symbols' = found.all
                    /\ resolvedSymbols' = With(resolvedSymbols, name, found.is)
                    /\ UNCHANGED <<heap, resolved, traversal>>
                 \/ /\ ~Done(name) /\ type.wrapped /\ Cached(to) /\ Usable(resolved[to])
                    /\ answer' = ASymbol(found.is)
                    /\ symbols' = [found.all EXCEPT ![found.is].at = resolved[to]]
                    /\ resolvedSymbols' = With(resolvedSymbols, name, found.is)
                    /\ UNCHANGED <<heap, resolved, traversal>>
                 \/ /\ ~Done(name) /\ type.wrapped /\ ~Cached(to)
                    /\ HasType(to) /\ ~IsMalformed(to)
                    /\ StartsTraversal(to, [type |-> to, for |-> found.is])
                    /\ symbols' = found.all
                    /\ UNCHANGED <<resolvedSymbols, answer>>
                 \/ /\ ~Done(name) /\ type.wrapped
                    /\ IF Cached(to) THEN ~Usable(resolved[to]) ELSE HasType(to) => IsMalformed(to)
                    /\ answer' = Raised
                    /\ symbols' = found.all
                    /\ UNCHANGED <<heap, resolved, resolvedSymbols, traversal>>
  /\ UNCHANGED <<made, halfDone>>

Next ==
  \/ \E name \in Names : RemoveTable(name) \/ ClearSymbolCache(name)
  \/ \E name \in Names, content \in Contents : AppendTable(name, content)
  \/ \E name \in FullNames : GetType(name) \/ GetSymbol(name)
  \/ Visit \/ Finish

Spec == Init /\ [][Next]_vars

-----------------------------------------------------------------------------
(* Properties *)

\* Whatever table was appended, replaced or removed before, a type in the cache
\* was made by the table that now has its name, and its pointers lead to types of
\* the cache and nowhere else: no layout of a table that is gone is used again.
OnlyCurrentTypes ==
  \A name \in DOMAIN resolved :
    LET template == heap[resolved[name]]
    IN /\ template.name = name
       /\ template.kind = "structure" =>
            name[1] \in DOMAIN tables /\ template.maker = tables[name[1]].id
       /\ Range(template.at) \subseteq {Unset} \cup Range(resolved)

\* Between calls, every pointer and array of a cached type leads to a structure
\* or to an UnresolvedTemplate, unless a malformed type cut its traversal short: the
\* cache keeps such a half-resolved type, and the next get_type() returns it.  And a
\* symbol that comes back with its pointer unresolved is one whose name had been
\* resolved for a former symbol: its table was replaced, or its cache cleared.
WrappersResolved ==
  /\ serving = Nothing =>
       \A name \in DOMAIN resolved \ halfDone :
         LET template == heap[resolved[name]]
         IN \A i \in DOMAIN template.members : template.members[i].wrapped => template.at[i] # Unset
  /\ answer.what = "symbol" =>
       LET symbol == symbols[answer.is]
       IN symbol.type.wrapped /\ symbol.at = Unset =>
            symbol.name \in DOMAIN resolvedSymbols /\ resolvedSymbols[symbol.name] # answer.is

=============================================================================
