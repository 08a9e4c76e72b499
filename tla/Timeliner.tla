----------------------------- MODULE Timeliner -----------------------------
(***************************************************************************)
(* The timeliner of volatility3/framework/plugins/timeliner.py and the     *)
(* tree its rows become: it asks other plugins for items with times,       *)
(* collects them in a dictionary, and yields a row for each entry of it    *)
(* that it has met, sorted by their times.  Any exception of a plugin is   *)
(* logged, and the next plugin is asked.                                   *)
(***************************************************************************)
EXTENDS Rendering

CONSTANTS
  Yields,   \* what plugins yield: sequences of [item, type, timestamp]
  Plugins,  \* number of plugins the timeliner runs
  Types,    \* types of times: two of the four there are
  Absent,   \* NotApplicableValue, a time later than all
  Sources   \* what any other plugin yields: [rows, fails]

\* The depth that a plugin yields with a row is a natural number
ASSUME SourcesAreGenerators == Sources \subseteq Generators(Seq([level : Nat, cells : Seq(Nat)]))

VARIABLES
  plugin,    \* the plugin that is asked, 0 if the rows are not the timeliner's
  yielding,  \* what it still yields, and whether it raises then
  timeline,  \* self.timeline: sequence of [key, times], in order of insertion
  times,     \* the dictionary the local variable names: its key
  data,      \* the rows collected
  bodyfile,  \* whether a body file is written, and its lines
  listing,   \* the entries the loop over self.timeline has still to look at
  complete,  \* history: plugins that have ended well
  heard      \* history: keys of all entries plugins have yielded

timelinerVars == <<plugin, yielding, timeline, times, data, bodyfile, listing, complete, heard>>
vars == <<renderVars, timelinerVars>>

Keys == {timeline[i].key : i \in DOMAIN timeline}
EntryOf(key) == CHOOSE i \in DOMAIN timeline : timeline[i].key = key
TimesOf(key) == timeline[EntryOf(key)].times
NoKey == <<0, 0>>
NotListing == 0
Collecting == plugin \in 1..Plugins

Yielding == [left : Yields, fails : BOOLEAN]

NoTimeliner ==
  /\ plugin = 0
  /\ yielding = [left |-> <<>>, fails |-> FALSE]
  /\ timeline = <<>> /\ times = NoKey /\ data = <<>>
  /\ bodyfile = [wanted |-> FALSE, lines |-> <<>>]
  /\ listing = NotListing /\ complete = {} /\ heard = {}

TimelinerInit ==
  /\ plugin = 1
  /\ yielding \in Yielding
  /\ timeline = <<>>
  /\ times = NoKey
  /\ data = <<>>
  /\ bodyfile \in [wanted : BOOLEAN, lines : {<<>>}]
  /\ listing = NotListing
  /\ complete = {} /\ heard = {}

\* for item, timestamp_type, timestamp in plugin.generate_timeline()
TakeTime ==
  /\ Collecting /\ listing = NotListing
  /\ yielding.left # <<>>
  /\ LET time == Head(yielding.left)
         key == <<plugin, time.item>>
         known == key \in Keys
     IN /\ timeline' =
             IF known THEN [timeline EXCEPT ![EntryOf(key)].times[time.type] = time.timestamp]
             ELSE Append(timeline, [key |-> key,
                    times |-> [t \in Types |-> IF t = time.type THEN time.timestamp ELSE Absent]])
        /\ times' = key
        /\ heard' = heard \cup {key}
  /\ yielding' = [yielding EXCEPT !.left = Tail(@)]
  /\ UNCHANGED <<plugin, data, bodyfile, listing, complete>>

NextPlugin ==
  /\ plugin' = plugin + 1
  /\ yielding' \in IF plugin < Plugins THEN Yielding ELSE {yielding}

\* A deviation, for the mutants of PROJECT.json: what the plugin has yielded is dropped.
PluginRaisesForgets ==
  /\ Collecting /\ listing = NotListing
  /\ yielding.left = <<>> /\ yielding.fails
  /\ timeline' = SelectSeq(timeline, LAMBDA entry : entry.key[1] # plugin)
  /\ NextPlugin
  /\ UNCHANGED <<times, data, bodyfile, listing, complete, heard>>

\* except Exception: what the plugin has yielded so far stays in self.timeline
PluginRaises ==
  /\ Collecting /\ listing = NotListing
  /\ yielding.left = <<>> /\ yielding.fails
  /\ NextPlugin
  /\ UNCHANGED <<timeline, times, data, bodyfile, listing, complete, heard>>

PluginEnds ==
  /\ Collecting /\ listing = NotListing
  /\ yielding.left = <<>> /\ ~yielding.fails
  /\ listing' = 1
  /\ complete' = complete \cup {plugin}
  /\ UNCHANGED <<plugin, yielding, timeline, times, data, bodyfile, heard>>

\* for plugin_name, item in self.timeline: all entries there are, of every plugin.
\* times is that of an earlier loop; it is looked up only where a body file is written
ListEntry ==
  /\ Collecting /\ listing \in DOMAIN timeline
  /\ LET key == timeline[listing].key
     IN /\ data' = Append(data, [key |-> key, times |-> TimesOf(times)])
        /\ IF bodyfile.wanted
           THEN /\ times' = key
                /\ bodyfile' = [bodyfile EXCEPT !.lines = Append(@, [key |-> key, times |-> TimesOf(key)])]
           ELSE UNCHANGED <<times, bodyfile>>
  /\ listing' = listing + 1
  /\ UNCHANGED <<plugin, yielding, timeline, complete, heard>>

Listed ==
  /\ Collecting /\ listing > Len(timeline)
  /\ listing' = NotListing
  /\ NextPlugin
  /\ UNCHANGED <<timeline, times, data, bodyfile, complete, heard>>

\* _sort_function: times one after the other, sorted() being stable
Before(i, j) ==
  \/ \E t \in Types : /\ data[i].times[t] < data[j].times[t]
                       /\ \A u \in Types : u < t => data[i].times[u] = data[j].times[u]
  \/ data[i].times = data[j].times /\ i < j

\* yield from sorted(data, key=self._sort_function), at level 0
YieldRow ==
  /\ plugin > Plugins /\ data # <<>>
  /\ \E i \in DOMAIN data :
       /\ \A j \in DOMAIN data \ {i} : Before(i, j)
       /\ generator' = [generator EXCEPT !.rows =
            Append(@, [level |-> 0, cells |-> data[i].key \o [t \in Types |-> data[i].times[t]]])]
       /\ data' = RemoveAt(data, i)
  /\ UNCHANGED <<nodes, kids, populated, rowCount, stack, raised, calls, histories, out>>
  /\ UNCHANGED <<plugin, yielding, timeline, times, bodyfile, listing, complete, heard>>

-----------------------------------------------------------------------------

\* The rows of any plugin, or those of the timeliner: a bound leaves these one call
Init ==
  /\ RenderInit
  /\ \/ generator \in Sources /\ NoTimeliner /\ calls = 0
     \/ generator = [rows |-> <<>>, fails |-> FALSE] /\ TimelinerInit /\ calls = MaxCalls - 1

Collect ==
  \/ TakeTime
  \/ PluginRaises
  \/ PluginEnds
  \/ ListEntry
  \/ Listed

\* The generator runs as far as its first row before populate() has one
Next ==
  \/ Collect /\ UNCHANGED renderVars
  \/ YieldRow
  \/ ~Collecting /\ data = <<>> /\ RenderStep /\ UNCHANGED timelinerVars

Spec == Init /\ [][Next]_vars

-----------------------------------------------------------------------------
(* Properties *)

Occurrences(key) == {i \in DOMAIN nodes : SubSeq(nodes[i].row.cells, 1, 2) = key}

\* The timeline has an entry of a plugin once for each plugin that ended well from then
\* on, itself included: an exception loses what the plugin had yielded only if all
\* the plugins after it fail too, and the other entries are repeated.  Each line of the
\* body file has the times of the entry it names.
EntriesListed ==
  /\ \A i \in DOMAIN bodyfile.lines : bodyfile.lines[i].times = TimesOf(bodyfile.lines[i].key)
  /\ plugin > Plugins /\ populated /\ inserted = {} /\ failures = {} =>
       \A key \in heard : Cardinality(Occurrences(key)) = Cardinality({p \in complete : p >= key[1]})

=============================================================================
