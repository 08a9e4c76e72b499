-------------------------- MODULE SymbolSpaceProofs --------------------------
(***************************************************************************)
(* No type of a table that was replaced or removed is used again, for any  *)
(* tables, types and number of calls.                                      *)
(*                                                                         *)
(* A traversal puts types into the cache while it goes, and replaces the   *)
(* references it has met at the end.  What a reference refers to is in the *)
(* cache once it has been met, and stays there, as no table is removed     *)
(* before the traversal is over (Underway); so a pointer gets a type of    *)
(* the cache.  Everything else is about what is a template (Types).        *)
(***************************************************************************)
EXTENDS SymbolSpace, SequenceTheorems, TLAPS

Templates ==
  [kind : {"structure", "unresolved"}, name : FullNames, maker : Nat, members : Seq(MemberTypes), at : Seq(Nat)]

IsTable(x) ==
  /\ x = [id |-> x.id, content |-> x.content, cache |-> x.cache]
  /\ x.id \in Nat /\ x.content \in Contents

Types ==
  /\ heap \in Seq(Templates) /\ made \in Nat
  /\ resolved \in [DOMAIN resolved -> DOMAIN heap]
  /\ \A name \in DOMAIN tables : IsTable(tables[name])

\* A reference of a template
Met(pair) == pair.parent \in DOMAIN heap /\ pair.member \in DOMAIN heap[pair.parent].members

Underway ==
  /\ visit \in Seq([parent : Nat, member : Nat])
  /\ \A i \in DOMAIN visit : Met(visit[i])
  /\ \A pair \in replacements : Met(pair) /\ Target(pair) \in DOMAIN resolved
  /\ serving = Nothing => visit = <<>> /\ replacements = {}

IInv == Types /\ Underway /\ OnlyCurrentTypes

\* The tables may have got other caches, but are the same
TablesStay ==
  /\ DOMAIN tables' = DOMAIN tables
  /\ \A name \in DOMAIN tables : IsTable(tables'[name]) /\ tables'[name].id = tables[name].id

-----------------------------------------------------------------------------
(* What is made *)

\* A structure as its table makes it.
LEMMA MadeTypeIsTemplate ==
  ASSUME Types, NEW name \in FullNames, HasType(name), ~IsMalformed(name)
  PROVE  /\ MadeType(name) \in Templates
         /\ MadeType(name).name = name /\ MadeType(name).maker = tables[name[1]].id
         /\ name[1] \in DOMAIN tables
         /\ Range(MadeType(name).at) \subseteq {Unset}
  <1> DEFINE members == tables[name[1]].content.types[name[2]]
  <1>1. name[1] \in DOMAIN tables /\ IsTable(tables[name[1]])
    BY DEF HasType, Types
  <1>2. members \in Seq(MemberTypes)
    BY <1>1, ContentsAssumption DEF HasType, IsMalformed, IsTable
  <1>3. [i \in DOMAIN members |-> Unset] \in Seq(Nat)
    <2> HIDE DEF members
    <2>1. DOMAIN members = 1 .. Len(members) /\ Len(members) \in Nat
      BY <1>2, LenProperties
    <2> QED BY <2>1, SeqDef DEF Unset
  <1>4. MadeType(name) = [kind |-> "structure", name |-> name, maker |-> tables[name[1]].id,
                          members |-> members, at |-> [i \in DOMAIN members |-> Unset]]
    BY DEF MadeType, Structure
  <1>5. Range([i \in DOMAIN members |-> Unset]) \subseteq {Unset}
    BY DEF Range
  <1>6. MadeType(name) \in Templates
    <2>1. tables[name[1]].id \in Nat
      BY <1>1 DEF IsTable
    <2> HIDE DEF members
    <2> QED BY <2>1, <1>2, <1>3, <1>4 DEF Templates
  <1>7. MadeType(name).at = [i \in DOMAIN members |-> Unset] /\ MadeType(name).name = name
        /\ MadeType(name).maker = tables[name[1]].id
    BY <1>4
  <1> QED BY <1>1, <1>5, <1>6, <1>7

\* A name no table knows.
LEMMA UnresolvedIsTemplate ==
  ASSUME NEW name \in FullNames
  PROVE  /\ UnresolvedTemplate(name) \in Templates
         /\ UnresolvedTemplate(name).name = name /\ UnresolvedTemplate(name).kind # "structure"
         /\ Range(UnresolvedTemplate(name).at) \subseteq {Unset}
  BY DEF UnresolvedTemplate, Templates, Range

\* The references of a template.
LEMMA ReferencesOfTemplate ==
  ASSUME NEW t \in Nat, NEW template \in Templates
  PROVE  /\ References(t, template) \in Seq([parent : Nat, member : Nat])
         /\ \A i \in DOMAIN References(t, template) :
              References(t, template)[i].parent = t /\ References(t, template)[i].member \in DOMAIN template.members
  <1> DEFINE n == Len(template.members)
             ref(i) == [parent |-> t, member |-> i]
  <1>1. n \in Nat /\ DOMAIN template.members = 1 .. n
    BY LenProperties DEF Templates
  <1>2. References(t, template) = [i \in 1 .. n |-> ref(i)]
    BY <1>1 DEF References
  <1>3. \A i \in 1 .. n : ref(i) \in [parent : Nat, member : Nat] /\ ref(i).parent = t /\ ref(i).member = i
    OBVIOUS
  <1> HIDE DEF n, ref
  <1>4. [i \in 1 .. n |-> ref(i)] \in Seq([parent : Nat, member : Nat])
    BY <1>1, <1>3
  <1>5. \A i \in 1 .. n : References(t, template)[i] = ref(i)
    BY <1>2
  <1> QED BY <1>1, <1>2, <1>3, <1>4, <1>5

-----------------------------------------------------------------------------
(* What a step may do *)

\* A step that adds a type to the cache: what was in the heap and the cache stays.
LEMMA TypeAdded ==
  ASSUME IInv, TablesStay, NEW name \in FullNames, name \notin DOMAIN resolved,
         NEW template \in Templates, template.name = name,
         template.kind = "structure" => name[1] \in DOMAIN tables /\ template.maker = tables[name[1]].id,
         Range(template.at) \subseteq {Unset},
         heap' = Append(heap, template),
         resolved' = With(resolved, name, Len(heap) + 1),
         made' = made
  PROVE  /\ Types' /\ OnlyCurrentTypes'
         /\ DOMAIN resolved' = DOMAIN resolved \cup {name}
         /\ \A pair : Met(pair) => Met(pair)' /\ Target(pair)' = Target(pair)
  <1>1. /\ heap' \in Seq(Templates) /\ Len(heap) \in Nat
        /\ DOMAIN heap = 1 .. Len(heap) /\ DOMAIN heap' = 1 .. Len(heap) + 1
        /\ \A t \in DOMAIN heap : heap'[t] = heap[t]
        /\ heap'[Len(heap) + 1] = template
    BY DEF IInv, Types
  <1>2. /\ DOMAIN resolved' = DOMAIN resolved \cup {name}
        /\ resolved'[name] = Len(heap) + 1
        /\ \A n \in DOMAIN resolved : resolved'[n] = resolved[n]
        /\ resolved' = [n \in DOMAIN resolved \cup {name} |-> resolved'[n]]
    BY DEF With
  <1>3. \A n \in DOMAIN resolved : resolved[n] \in DOMAIN heap
    BY DEF IInv, Types
  <1>4. Types'
    <2>1. \A n \in DOMAIN resolved' : resolved'[n] \in DOMAIN heap'
      BY <1>1, <1>2, <1>3
    <2>2. resolved' \in [DOMAIN resolved' -> DOMAIN heap']
      BY <1>2, <2>1
    <2> QED BY <1>1, <2>2 DEF IInv, Types, TablesStay
  <1>5. Range(resolved) \subseteq Range(resolved')
    BY <1>2 DEF Range
  <1>6. OnlyCurrentTypes'
    <2> SUFFICES ASSUME NEW n \in DOMAIN resolved'
                 PROVE  LET x == heap'[resolved'[n]]
                        IN /\ x.name = n
                           /\ x.kind = "structure" => n[1] \in DOMAIN tables' /\ x.maker = tables'[n[1]].id
                           /\ Range(x.at) \subseteq {Unset} \cup Range(resolved')
      BY DEF OnlyCurrentTypes
    <2>1. CASE n = name
      BY <1>1, <1>2, <2>1 DEF TablesStay
    <2>2. CASE n # name
      <3>1. n \in DOMAIN resolved /\ heap'[resolved'[n]] = heap[resolved[n]]
        BY <1>1, <1>2, <1>3, <2>2
      <3> QED BY <1>5, <3>1 DEF IInv, OnlyCurrentTypes, TablesStay
    <2> QED BY <2>1, <2>2
  <1>7. \A pair : Met(pair) => Met(pair)' /\ Target(pair)' = Target(pair)
    BY <1>1 DEF Met, Target
  <1> QED BY <1>2, <1>4, <1>6, <1>7

\* A call that begins a traversal.
LEMMA Begins ==
  ASSUME IInv, TablesStay, NEW name \in FullNames, NEW call, call # Nothing,
         ~Cached(name), HasType(name), ~IsMalformed(name), StartsTraversal(name, call), made' = made
  PROVE  IInv'
  <1>1. /\ MadeType(name) \in Templates
        /\ MadeType(name).name = name /\ MadeType(name).maker = tables[name[1]].id
        /\ name[1] \in DOMAIN tables
        /\ Range(MadeType(name).at) \subseteq {Unset}
    BY MadeTypeIsTemplate DEF IInv
  <1>2. /\ heap' = Append(heap, MadeType(name))
        /\ resolved' = With(resolved, name, Len(heap) + 1)
        /\ visit' = References(Len(heap) + 1, MadeType(name))
        /\ replacements' = {} /\ serving' = call
    BY DEF StartsTraversal
  <1>3. Types' /\ OnlyCurrentTypes'
    BY <1>1, <1>2, TypeAdded DEF Cached
  <1>4. /\ Len(heap) + 1 \in Nat /\ Len(heap) + 1 \in DOMAIN heap'
        /\ heap'[Len(heap) + 1] = MadeType(name)
    BY <1>1, <1>2 DEF IInv, Types
  <1>5. /\ visit' \in Seq([parent : Nat, member : Nat])
        /\ \A i \in DOMAIN visit' : visit'[i].parent = Len(heap) + 1 /\ visit'[i].member \in DOMAIN MadeType(name).members
    BY <1>1, <1>2, <1>4, ReferencesOfTemplate
  <1>6. \A i \in DOMAIN visit' : Met(visit[i])'
    BY <1>4, <1>5 DEF Met
  <1>7. Underway'
    BY <1>2, <1>5, <1>6 DEF Underway
  <1> QED BY <1>3, <1>7 DEF IInv

\* A call that finds what it is asked for in the cache, or raises.
LEMMA Answered ==
  ASSUME IInv, TablesStay, UNCHANGED <<heap, resolved, traversal, made>>
  PROVE  IInv'
  <1>1. Types'
    BY DEF IInv, Types, TablesStay
  <1>2. Underway'
    BY DEF IInv, Underway, Met, Target, traversal
  <1>3. OnlyCurrentTypes'
    BY DEF IInv, OnlyCurrentTypes, TablesStay
  <1> QED BY <1>1, <1>2, <1>3 DEF IInv

\* A step that leaves the tables as they are.
LEMMA TablesUnchanged ==
  ASSUME IInv, UNCHANGED tables
  PROVE  TablesStay
  BY DEF IInv, Types, TablesStay

-----------------------------------------------------------------------------
(* The calls *)

LEMMA InitIInv == Init => IInv
  <1> SUFFICES ASSUME Init PROVE IInv
    OBVIOUS
  <1>1. Types
    BY DEF Init, Types
  <1>2. Underway
    BY DEF Init, Underway
  <1>3. OnlyCurrentTypes
    BY DEF Init, OnlyCurrentTypes
  <1> QED BY <1>1, <1>2, <1>3 DEF IInv

\* Nothing is in the cache after a reset.
LEMMA Forgotten ==
  ASSUME IInv, serving = Nothing, resolved' = <<>>, UNCHANGED <<heap, traversal>>, made' \in Nat,
         \A name \in DOMAIN tables' : IsTable(tables'[name])
  PROVE  IInv'
  <1>1. Types'
    BY DEF IInv, Types
  <1>2. Underway'
    BY DEF IInv, Underway, Met, traversal
  <1>3. OnlyCurrentTypes'
    BY DEF OnlyCurrentTypes
  <1> QED BY <1>1, <1>2, <1>3 DEF IInv

LEMMA RemoveTableIInv ==
  ASSUME IInv, NEW name \in Names, RemoveTable(name)
  PROVE  IInv'
  <1>1. \A n \in DOMAIN tables' : IsTable(tables'[n])
    BY DEF IInv, Types, RemoveTable, Restrict
  <1> QED BY <1>1, Forgotten DEF IInv, Types, RemoveTable, Reset, Call

LEMMA AppendTableIInv ==
  ASSUME IInv, NEW name \in Names, NEW content \in Contents, AppendTable(name, content)
  PROVE  IInv'
  <1> DEFINE table == [id |-> made + 1, content |-> content, cache |-> <<>>]
  <1>1. /\ made \in Nat /\ made' = made + 1 /\ serving = Nothing
        /\ tables' = With(tables, name, table)
    BY DEF IInv, Types, AppendTable, Call
  <1>2. IsTable(table)
    BY <1>1 DEF IsTable
  <1> HIDE DEF table
  <1>3. /\ DOMAIN tables' = DOMAIN tables \cup {name}
        /\ \A n \in DOMAIN tables : n # name => tables'[n] = tables[n]
        /\ \A n \in DOMAIN tables' : IsTable(tables'[n])
    BY <1>1, <1>2 DEF IInv, Types, With
  <1>4. CASE name \in DOMAIN tables
    BY <1>1, <1>3, <1>4, Forgotten DEF AppendTable, Reset
  <1>5. CASE name \notin DOMAIN tables
    <2>1. UNCHANGED <<heap, resolved, traversal>>
      BY <1>5 DEF AppendTable
    <2>2. Types'
      BY <1>1, <1>3, <2>1 DEF IInv, Types
    <2>3. Underway'
      BY <2>1 DEF IInv, Underway, Met, Target, traversal
    <2>4. OnlyCurrentTypes'
      BY <1>3, <1>5, <2>1 DEF IInv, OnlyCurrentTypes
    <2> QED BY <2>2, <2>3, <2>4 DEF IInv
  <1> QED BY <1>4, <1>5

\* A new cache of a table's symbols.
LEMMA CacheChanged ==
  ASSUME IInv, NEW name \in DOMAIN tables, NEW cache, tables' = [tables EXCEPT ![name].cache = cache]
  PROVE  TablesStay
  <1>1. IsTable(tables[name])
    BY DEF IInv, Types
  <1>2. /\ DOMAIN tables' = DOMAIN tables
        /\ \A n \in DOMAIN tables : n # name => tables'[n] = tables[n]
        /\ tables'[name] = [tables[name] EXCEPT !.cache = cache]
    OBVIOUS
  <1>3. tables'[name] = [id |-> tables[name].id, content |-> tables[name].content, cache |-> cache]
    BY <1>1, <1>2 DEF IsTable
  <1>4. IsTable(tables'[name]) /\ tables'[name].id = tables[name].id
    BY <1>1, <1>3 DEF IsTable
  <1> QED BY <1>2, <1>4 DEF IInv, Types, TablesStay

LEMMA ClearSymbolCacheIInv ==
  ASSUME IInv, NEW name \in Names, ClearSymbolCache(name)
  PROVE  IInv'
  BY CacheChanged, Answered DEF ClearSymbolCache

LEMMA GetTypeIInv ==
  ASSUME IInv, NEW name \in FullNames, GetType(name)
  PROVE  IInv'
  <1>1. TablesStay /\ made' = made
    BY TablesUnchanged DEF GetType
  <1>2. [type |-> name, for |-> Caller] # Nothing
    BY DEF Nothing
  <1>3. CASE UNCHANGED <<heap, resolved, traversal>>
    BY <1>1, <1>3, Answered
  <1>4. CASE ~Cached(name) /\ HasType(name) /\ ~IsMalformed(name) /\ StartsTraversal(name, [type |-> name, for |-> Caller])
    BY <1>1, <1>2, <1>4, Begins
  <1> QED BY <1>3, <1>4 DEF GetType

LEMMA GetSymbolIInv ==
  ASSUME IInv, NEW name \in FullNames, GetSymbol(name)
  PROVE  IInv'
  <1>1. CASE ~HasSymbol(name)
    BY <1>1, TablesUnchanged, Answered DEF GetSymbol
  <1>2. CASE HasSymbol(name)
    <2> DEFINE found == SymbolOf(name)
               type == tables[name[1]].content.symbols[name[2]]
               to == type.to
               call == [type |-> to, for |-> found.is]
    <2>1. name[1] \in DOMAIN tables
      BY <1>2 DEF HasSymbol
    <2>2. tables' = [tables EXCEPT ![name[1]].cache = With(@, name[2], found.is)] /\ made' = made
      BY <1>2 DEF GetSymbol
    <2>3. TablesStay
      BY <2>1, <2>2, CacheChanged
    <2>4. \/ UNCHANGED <<heap, resolved, traversal>>
          \/ ~Cached(to) /\ HasType(to) /\ ~IsMalformed(to) /\ StartsTraversal(to, call)
      BY <1>2 DEF GetSymbol
    <2>5. CASE UNCHANGED <<heap, resolved, traversal>>
      BY <2>2, <2>3, <2>5, Answered
    <2>6. CASE ~Cached(to) /\ HasType(to) /\ ~IsMalformed(to) /\ StartsTraversal(to, call)
      <3>1. call # Nothing
        BY DEF Nothing
      <3>2. type \in MemberTypes
        BY <1>2, <2>1, ContentsAssumption DEF IInv, Types, IsTable, HasSymbol
      <3>3. to \in FullNames
        BY <3>2 DEF MemberTypes
      <3> QED BY <2>2, <2>3, <2>6, <3>1, <3>3, Begins
    <2> QED BY <2>4, <2>5, <2>6
  <1> QED BY <1>1, <1>2

-----------------------------------------------------------------------------
(* The traversal *)

\* A reference that is met leads to a name.
LEMMA TargetIsName ==
  ASSUME IInv, NEW pair, Met(pair)
  PROVE  Target(pair) \in FullNames
  <1>1. heap[pair.parent] \in Templates
    BY DEF IInv, Types, Met
  <1>2. heap[pair.parent].members \in Seq(MemberTypes)
    BY <1>1 DEF Templates
  <1>3. heap[pair.parent].members[pair.member] \in MemberTypes
    BY <1>2, LenProperties, ElementOfSeq DEF Met
  <1> QED BY <1>3 DEF Target, MemberTypes

\* What has been visited is left behind, what is to be visited comes to the end.
LEMMA TailAndMore ==
  ASSUME NEW S, NEW s \in Seq(S), s # <<>>, NEW more \in Seq(S)
  PROVE  /\ Tail(s) \in Seq(S) /\ Tail(s) \o more \in Seq(S)
         /\ 1 \in DOMAIN s /\ Head(s) = s[1]
         /\ \A i \in DOMAIN Tail(s) : i + 1 \in DOMAIN s /\ Tail(s)[i] = s[i + 1]
         /\ \A i \in DOMAIN (Tail(s) \o more) :
              \/ i + 1 \in DOMAIN s /\ (Tail(s) \o more)[i] = s[i + 1]
              \/ \E j \in DOMAIN more : (Tail(s) \o more)[i] = more[j]
  <1>1. Len(s) \in Nat \ {0} /\ DOMAIN s = 1 .. Len(s)
    BY LenProperties, EmptySeq
  <1>2. /\ Tail(s) \in Seq(S) /\ Len(Tail(s)) = Len(s) - 1
        /\ \A i \in 1 .. Len(s) - 1 : Tail(s)[i] = s[i + 1]
    BY <1>1
  <1>3. DOMAIN Tail(s) = 1 .. Len(s) - 1
    BY <1>2, LenProperties
  <1>4. Len(more) \in Nat /\ DOMAIN more = 1 .. Len(more)
    BY LenProperties
  <1> DEFINE t == Tail(s)
  <1>5. /\ t \o more \in Seq(S)
        /\ DOMAIN (t \o more) = 1 .. Len(t) + Len(more)
        /\ \A i \in 1 .. Len(t) + Len(more) : (t \o more)[i] = IF i <= Len(t) THEN t[i] ELSE more[i - Len(t)]
    <2> HIDE DEF t
    <2> QED BY <1>2, <1>4, LenProperties DEF t
  <1>6. ASSUME NEW i \in DOMAIN (t \o more)
        PROVE  \/ i + 1 \in DOMAIN s /\ (t \o more)[i] = s[i + 1]
               \/ \E j \in DOMAIN more : (t \o more)[i] = more[j]
    <2>1. CASE i <= Len(t)
      BY <1>1, <1>2, <1>5, <2>1
    <2>2. CASE i > Len(t)
      <3>1. i - Len(t) \in DOMAIN more
        BY <1>1, <1>2, <1>4, <1>5, <2>2
      <3> QED BY <1>1, <1>2, <1>5, <2>2, <3>1
    <2> QED BY <1>1, <1>2, <1>5, <2>1, <2>2
  <1> QED BY <1>1, <1>2, <1>3, <1>5, <1>6

LEMMA VisitIInv ==
  ASSUME IInv, Visit
  PROVE  IInv'
  <1> DEFINE Pairs == [parent : Nat, member : Nat]
             pair == visit[1]
             name == Target(pair)
             t == Len(heap) + 1
             template == IF HasType(name) THEN MadeType(name) ELSE UnresolvedTemplate(name)
  <1>1. /\ visit \in Seq(Pairs) /\ visit # <<>> /\ serving # Nothing
        /\ \A i \in DOMAIN visit : Met(visit[i])
    BY DEF IInv, Underway, Visit
  <1>2. /\ Tail(visit) \in Seq(Pairs) /\ 1 \in DOMAIN visit /\ Head(visit) = pair
        /\ \A i \in DOMAIN Tail(visit) : i + 1 \in DOMAIN visit /\ Tail(visit)[i] = visit[i + 1]
    BY <1>1, TailAndMore, EmptySeq
  <1>3. Met(pair) /\ name \in FullNames
    BY <1>1, <1>2, TargetIsName
  <1>4. TablesStay /\ made' = made
    BY TablesUnchanged DEF Visit
  <1>5. CASE Cached(name)
    <2>1. /\ visit' = Tail(visit) /\ replacements' = replacements \cup {pair}
          /\ UNCHANGED <<tables, heap, resolved, serving>>
      BY <1>2, <1>5 DEF Visit
    <2>2. Types'
      BY <1>4, <2>1 DEF IInv, Types, TablesStay
    <2>3. Underway'
      <3>1. \A i \in DOMAIN visit' : Met(visit[i])'
        BY <1>1, <1>2, <2>1 DEF Met
      <3>2. \A p \in replacements' : Met(p)' /\ Target(p)' \in DOMAIN resolved'
        BY <1>3, <1>5, <2>1 DEF IInv, Underway, Met, Target, Cached
      <3> QED BY <1>1, <1>2, <2>1, <3>1, <3>2 DEF Underway
    <2>4. OnlyCurrentTypes'
      BY <2>1 DEF IInv, OnlyCurrentTypes
    <2> QED BY <2>2, <2>3, <2>4 DEF IInv
  <1>6. CASE ~Cached(name) /\ IsMalformed(name)
    <2>1. /\ visit' = <<>> /\ replacements' = {} /\ serving' = Nothing
          /\ UNCHANGED <<tables, heap, resolved>>
      BY <1>2, <1>6 DEF Visit
    <2>2. Types'
      BY <1>4, <2>1 DEF IInv, Types, TablesStay
    <2>3. Underway'
      BY <2>1 DEF Underway
    <2>4. OnlyCurrentTypes'
      BY <2>1 DEF IInv, OnlyCurrentTypes
    <2> QED BY <2>2, <2>3, <2>4 DEF IInv
  <1>7. CASE ~Cached(name) /\ ~IsMalformed(name)
    <2>1. /\ heap' = Append(heap, template)
          /\ resolved' = With(resolved, name, t)
          /\ visit' = Tail(visit) \o References(t, template)
          /\ replacements' = replacements \cup {pair}
          /\ UNCHANGED <<tables, serving>>
      BY <1>2, <1>7 DEF Visit
    <2>2. /\ template \in Templates /\ template.name = name
          /\ template.kind = "structure" => name[1] \in DOMAIN tables /\ template.maker = tables[name[1]].id
          /\ Range(template.at) \subseteq {Unset}
      BY <1>3, <1>7, MadeTypeIsTemplate, UnresolvedIsTemplate DEF IInv
    <2> HIDE DEF template
    <2>3. name \notin DOMAIN resolved
      BY <1>7 DEF Cached
    <2> HIDE DEF name
    <2>4. /\ Types' /\ OnlyCurrentTypes'
          /\ DOMAIN resolved' = DOMAIN resolved \cup {name}
          /\ \A p : Met(p) => Met(p)' /\ Target(p)' = Target(p)
      BY <1>3, <1>4, <2>1, <2>2, <2>3, TypeAdded
    <2>5. /\ t \in Nat /\ t \in DOMAIN heap' /\ heap'[t] = template
      BY <2>1, <2>2 DEF IInv, Types
    <2> DEFINE more == References(t, template)
    <2>6. /\ more \in Seq(Pairs)
          /\ \A i \in DOMAIN more : more[i].parent = t /\ more[i].member \in DOMAIN template.members
      BY <2>2, <2>5, ReferencesOfTemplate
    <2> HIDE DEF more, t
    <2>7. \A i \in DOMAIN more : \A p : p = more[i] => Met(p)'
      BY <2>5, <2>6 DEF Met
    <2>8. /\ visit' \in Seq(Pairs)
          /\ \A i \in DOMAIN visit' : \/ i + 1 \in DOMAIN visit /\ visit'[i] = visit[i + 1]
                                      \/ \E j \in DOMAIN more : visit'[i] = more[j]
      BY <1>1, <2>1, <2>6, TailAndMore DEF more
    <2>9. \A i \in DOMAIN visit' : \A p : p = visit'[i] => Met(p)'
      BY <1>1, <2>4, <2>7, <2>8
    <2>10. \A i \in DOMAIN visit' : Met(visit[i])'
      BY <2>9 DEF Met
    <2>11. \A p \in replacements' : Met(p)' /\ Target(p)' \in DOMAIN resolved'
      BY <1>3, <2>1, <2>4 DEF IInv, Underway, name
    <2>12. Underway'
      BY <1>1, <2>1, <2>8, <2>10, <2>11 DEF Underway
    <2> QED BY <2>4, <2>12 DEF IInv
  <1> QED BY <1>5, <1>6, <1>7

\* At the end, what a reference has led to is in the cache.
LEMMA FinishIInv ==
  ASSUME IInv, Finish
  PROVE  IInv'
  <1>1. /\ heap' = Replaced(heap) /\ visit = <<>>
        /\ UNCHANGED <<tables, resolved, visit, made>> /\ replacements' = {} /\ serving' = Nothing
    BY DEF Finish
  <1>2. /\ heap \in Seq(Templates) /\ Len(heap) \in Nat /\ DOMAIN heap = 1 .. Len(heap)
        /\ \A t \in DOMAIN heap : heap[t] \in Templates
    BY LenProperties, ElementOfSeq DEF IInv, Types
  <1> DEFINE at(t) == [i \in DOMAIN heap[t].at |->
                         IF [parent |-> t, member |-> i] \in replacements /\ Replaces(heap[t], i)
                         THEN resolved[heap[t].members[i].to] ELSE heap[t].at[i]]
  <1>3. heap' = [t \in DOMAIN heap |-> [heap[t] EXCEPT !.at = at(t)]]
    BY <1>1 DEF Replaced
  <1>4. ASSUME NEW t \in DOMAIN heap, NEW i \in DOMAIN heap[t].at,
               [parent |-> t, member |-> i] \in replacements
        PROVE  heap[t].members[i].to \in DOMAIN resolved
    <2>1. Target([parent |-> t, member |-> i]) \in DOMAIN resolved
      BY <1>4 DEF IInv, Underway
    <2> QED BY <2>1 DEF Target
  <1>5. ASSUME NEW t \in DOMAIN heap
        PROVE  at(t) \in Seq(Nat) /\ Range(at(t)) \subseteq Range(heap[t].at) \cup Range(resolved)
    <2>1. heap[t].at \in Seq(Nat)
      BY <1>2 DEF Templates
    <2>2. DOMAIN heap[t].at = 1 .. Len(heap[t].at) /\ Len(heap[t].at) \in Nat
      BY <2>1, LenProperties
    <2>3. \A i \in DOMAIN heap[t].at : heap[t].at[i] \in Nat /\ heap[t].at[i] \in Range(heap[t].at)
      BY <2>1, <2>2, ElementOfSeq DEF Range
    <2>4. \A n \in DOMAIN resolved : resolved[n] \in Nat /\ resolved[n] \in Range(resolved)
      BY <1>2 DEF IInv, Types, Range
    <2>5. \A i \in DOMAIN heap[t].at : at(t)[i] \in Nat /\ at(t)[i] \in Range(heap[t].at) \cup Range(resolved)
      BY <1>4, <2>3, <2>4
    <2>6. DOMAIN at(t) = 1 .. Len(heap[t].at) /\ at(t) = [i \in 1 .. Len(heap[t].at) |-> at(t)[i]]
      BY <2>2
    <2> HIDE DEF at
    <2>7. at(t) \in Seq(Nat)
      <3> DEFINE n == Len(heap[t].at)
      <3>1. n \in Nat /\ at(t) = [i \in 1 .. n |-> at(t)[i]] /\ \A i \in 1 .. n : at(t)[i] \in Nat
        BY <2>2, <2>5, <2>6
      <3> HIDE DEF n
      <3> QED BY <3>1
    <2> QED BY ZenonT(30), <2>2, <2>5, <2>6, <2>7 DEF Range
  <1> HIDE DEF at
  <1>6. ASSUME NEW t \in DOMAIN heap
        PROVE  /\ heap'[t] \in Templates
               /\ heap'[t].name = heap[t].name /\ heap'[t].kind = heap[t].kind
               /\ heap'[t].maker = heap[t].maker /\ heap'[t].at = at(t)
    BY <1>2, <1>3, <1>5 DEF Templates
  <1>7. heap' \in Seq(Templates) /\ DOMAIN heap' = DOMAIN heap
    <2>1. heap' = [t \in 1 .. Len(heap) |-> heap'[t]]
      BY <1>2, <1>3
    <2>2. \A t \in 1 .. Len(heap) : heap'[t] \in Templates
      BY <1>2, <1>6
    <2> QED BY <1>2, <2>1, <2>2
  <1>8. Types'
    BY <1>1, <1>7 DEF IInv, Types
  <1>9. Underway'
    BY <1>1 DEF IInv, Underway
  <1>10. OnlyCurrentTypes'
    <2> SUFFICES ASSUME NEW n \in DOMAIN resolved
                 PROVE  LET x == heap'[resolved[n]]
                        IN /\ x.name = n
                           /\ x.kind = "structure" => n[1] \in DOMAIN tables /\ x.maker = tables[n[1]].id
                           /\ Range(x.at) \subseteq {Unset} \cup Range(resolved)
      BY <1>1 DEF OnlyCurrentTypes
    <2>1. resolved[n] \in DOMAIN heap
      BY DEF IInv, Types
    <2>2. LET x == heap[resolved[n]]
          IN /\ x.name = n
             /\ x.kind = "structure" => n[1] \in DOMAIN tables /\ x.maker = tables[n[1]].id
             /\ Range(x.at) \subseteq {Unset} \cup Range(resolved)
      BY DEF IInv, OnlyCurrentTypes
    <2> QED BY <1>5, <1>6, <2>1, <2>2
  <1> QED BY <1>8, <1>9, <1>10 DEF IInv

-----------------------------------------------------------------------------
(* Whatever tables are appended, replaced and removed, and whatever is asked for in between: the   *)
(* invariant is kept by every step (append, remove, clear_symbol_cache, get_type, get_symbol and   *)
(* _iterative_resolve).                                                                            *)
THEOREM SpaceInductive == Spec => []IInv
  <1>1. Init => IInv
    BY InitIInv
  <1>2. IInv /\ [Next]_vars => IInv'
    <2> SUFFICES ASSUME IInv, [Next]_vars PROVE IInv'
      OBVIOUS
    <2>1. CASE UNCHANGED vars
      BY <2>1, TablesUnchanged, Answered DEF vars
    <2>2. ASSUME NEW name \in Names, RemoveTable(name) PROVE IInv'
      BY <2>2, RemoveTableIInv
    <2>3. ASSUME NEW name \in Names, ClearSymbolCache(name) PROVE IInv'
      BY <2>3, ClearSymbolCacheIInv
    <2>4. ASSUME NEW name \in Names, NEW content \in Contents, AppendTable(name, content) PROVE IInv'
      BY <2>4, AppendTableIInv
    <2>5. ASSUME NEW name \in FullNames, GetType(name) PROVE IInv'
      BY <2>5, GetTypeIInv
    <2>6. ASSUME NEW name \in FullNames, GetSymbol(name) PROVE IInv'
      BY <2>6, GetSymbolIInv
    <2>7. CASE Visit
      BY <2>7, VisitIInv
    <2>8. CASE Finish
      BY <2>8, FinishIInv
    <2> QED BY <2>1, <2>2, <2>3, <2>4, <2>5, <2>6, <2>7, <2>8 DEF Next
  <1> QED BY <1>1, <1>2, PTL DEF Spec

(* A type in the cache of the symbol space was made by the table that has its name now, and its    *)
(* pointers lead to types of the cache, after any number of calls (get_type, remove, append).      *)
THEOREM TypesAreCurrent == Spec => []OnlyCurrentTypes
  <1>1. IInv => OnlyCurrentTypes
    BY DEF IInv
  <1> QED BY <1>1, SpaceInductive, PTL
==============================================================================
