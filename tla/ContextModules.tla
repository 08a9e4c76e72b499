--------------------------- MODULE ContextModules ---------------------------
(***************************************************************************)
(* Module and ModuleCollection of contexts/__init__.py, and the names that *)
(* ModuleRequirement of configuration/requirements.py gives: the modules   *)
(* of a context, which are a name and a path of the configuration, where   *)
(* they look up, whenever they are asked, what they are.                   *)
(*                                                                         *)
(* A name is a sequence of characters; only digits are told apart.         *)
(***************************************************************************)
EXTENDS Integers, Sequences, FiniteSets, FiniteSetsExt, SequencesExt, TLC

CONSTANTS
  ModuleNames,     \* the names modules are created with
  RequirementPaths,\* the configuration paths of ModuleRequirements, whose name they end with
  Places,          \* [offset, size, table]: what modules are created with; size 0 if it is not known
  ModuleTables,    \* name of a table -> its symbols, [name, address]
  AskedAt,         \* the addresses that are looked up
  MaxModules       \* bound: modules made

VARIABLES
  modules,      \* _modules, in the order of the dictionary: [name, path, sized]
  moduleConf,   \* the configuration: path -> [offset, size, table]
  createdAs,    \* history: name -> [place, path, when] of its creation
  located,      \* the last answer of get_module_symbols_by_absolute_location: [at, found]
  modulesMade

contextModulesVars == <<modules, moduleConf, createdAs, located, modulesMade>>

NotAsked == [at |-> -1, found |-> <<>>]
InContext(name) == \E i \in DOMAIN modules : modules[i].name = name
Conf(m) == moduleConf[m.path]

-----------------------------------------------------------------------------
(* Deviations a bug could introduce; only the mutants of PROJECT.json use them. *)

\* The number is not looked at again
NumberedOnce(prefix, counts) == Append(prefix, Min(counts))

-----------------------------------------------------------------------------

\* The first number that is free, beginning with the number of names of this form
Numbered(prefix, counts) == Append(prefix, Min({n \in counts : ~InContext(Append(prefix, n))}))
FreeModuleName(prefix) ==
  LET existing == {i \in DOMAIN modules : IsPrefix(prefix, modules[i].name)}
  IN IF existing = {} THEN prefix
     ELSE Numbered(prefix, Cardinality(existing) .. Cardinality(existing) + Len(modules))

\* A module that is not sized leaves the size that a former one has left at its path
Configured(path, place) ==
  (path :> [place EXCEPT !.size = IF @ = 0 /\ path \in DOMAIN moduleConf THEN moduleConf[path].size ELSE @])
  @@ moduleConf

AddModule(name, path, place) ==
  /\ modulesMade < MaxModules /\ modulesMade' = modulesMade + 1
  /\ moduleConf' = Configured(path, place)
  /\ modules' = Append(modules, [name |-> name, path |-> path, sized |-> place.size # 0])
  /\ createdAs' = (name :> [place |-> place, path |-> path, when |-> modulesMade]) @@ createdAs
  /\ located' = NotAsked

Create(prefix, place) ==
  LET name == FreeModuleName(prefix) IN AddModule(name, <<"temporary", name>>, place)

\* construct(): the name of the requirement, or that with the first number from 2 on; the
\* configuration is what it finds at its path
ConstructModule(path, place) ==
  LET free == {n \in 2 .. Len(modules) + 2 : ~InContext(Append(path[2], n))}
  IN AddModule(IF InContext(path[2]) THEN Append(path[2], Min(free)) ELSE path[2], path, [place EXCEPT !.size = 0])

DeleteModule(name) ==
  /\ InContext(name) /\ modules' = SelectSeq(modules, LAMBDA m : m.name # name)
  /\ located' = NotAsked
  /\ UNCHANGED <<moduleConf, createdAs, modulesMade>>

\* get_symbols_by_absolute_location of a sized module
SymbolsAt(m, address) ==
  IF address > Conf(m).offset + Conf(m).size THEN {}
  ELSE {s.name : s \in {s \in ModuleTables[Conf(m).table] : Conf(m).offset + s.address = address}}

\* The end of a module is taken to lie in it
Covers(m, address) == m.sized /\ Conf(m).offset <= address /\ address <= Conf(m).offset + Conf(m).size

Locate(address) ==
  /\ LET covering == SelectSeq(modules, LAMBDA m : Covers(m, address))
     IN located' = [at |-> address,
                    found |-> [i \in DOMAIN covering |-> <<covering[i].name, SymbolsAt(covering[i], address)>>]]
  /\ UNCHANGED <<modules, moduleConf, createdAs, modulesMade>>

ContextModulesInit ==
  /\ modules = <<>> /\ moduleConf = <<>> /\ createdAs = <<>> /\ located = NotAsked /\ modulesMade = 0

ContextModulesNext ==
  \/ \E place \in Places, prefix \in ModuleNames : Create(prefix, place)
  \/ \E place \in Places, path \in RequirementPaths : ConstructModule(path, place)
  \/ \E i \in DOMAIN modules : DeleteModule(modules[i].name)
  \/ \E address \in AskedAt : Locate(address)

-----------------------------------------------------------------------------
(* Properties *)

\* No two modules have one name
NamesApart == \A i, j \in DOMAIN modules : modules[i].name = modules[j].name => i = j

\* A module is what it was created as, unless its path has been configured again since
KeptAsCreated ==
  \A i \in DOMAIN modules :
    LET m == modules[i]
        created == createdAs[m.name]
    IN \/ Conf(m).offset = created.place.offset /\ Conf(m).table = created.place.table
          /\ (m.sized => Conf(m).size = created.place.size)
       \/ \E n \in DOMAIN createdAs : createdAs[n].path = m.path /\ createdAs[n].when > created.when

\* Where there are sized modules, they are answered, and besides only those that end there;
\* the symbols are those of their table at that address.
LocatedRight ==
  located # NotAsked =>
    LET place(name) == createdAs[name].place
        within(name) == place(name).offset <= located.at /\ located.at < place(name).offset + place(name).size
    IN /\ \A i \in DOMAIN modules : within(modules[i].name) =>
            \E f \in DOMAIN located.found : located.found[f][1] = modules[i].name
       /\ \A f \in DOMAIN located.found :
            LET name == located.found[f][1]
            IN /\ within(name) \/ located.at = place(name).offset + place(name).size
               /\ located.found[f][2] = {s.name : s \in {s \in ModuleTables[place(name).table] :
                                                           s.address = located.at - place(name).offset}}

(* Modules of a context: a module keeps its name and its place, and an address is answered   *)
(* with the modules that were created to hold it.                                            *)
ModulesAnswer == NamesApart /\ KeptAsCreated /\ LocatedRight
=============================================================================
