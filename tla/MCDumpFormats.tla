--------------------------- MODULE MCDumpFormats ---------------------------
(***************************************************************************)
(* Small files of each format: well formed ones, cut ones, and ones whose  *)
(* headers overlap, come in any order or are missing.                      *)
(***************************************************************************)
EXTENDS DumpFormats, ModuleExtract

SeqsUpTo(S, n) == UNION {[1..k -> S] : k \in 0..n}
File(format, records, size, start, names, fallback) ==
  [format |-> format, records |-> records, size |-> size, start |-> start, names |-> names, fallback |-> fallback]

\* The records one after the other, the first one at start; length is that of each
Placed(records, lengths, start) ==
  [i \in DOMAIN records |-> [at |-> start + Total([j \in 1 .. (i - 1) |-> lengths[j]])] @@ records[i]]
Stream(format, records, lengths, start, cut, fallback) ==
  File(format, Placed(records, lengths, start), start + Total(lengths) - cut, 0, <<>>, fallback)

Table(format, records, size, start) == File(format, records, size, start, <<>>, NoName)


\* Up to three ranges; the file may be cut
Ranges == {[start |-> s, end |-> e] : s \in 0..4, e \in {0, 1, 3, 4, 5}}
LimeFile(rs, cut) == Stream("lime", rs, [i \in DOMAIN rs |-> Header + rs[i].end - rs[i].start + 1], 0, cut, NoName)
Lime == \E rs \in SeqsUpTo({r \in Ranges : r.start <= r.end + 1}, 3), cut \in {0, 1, 3} : dump = LimeFile(rs, cut)

\* Chunks of three frames at most, after the one that names the format
Frames == {[is |-> "compressed", raw |-> 4, stored |-> 2], [is |-> "compressed", raw |-> 2, stored |-> 2],
           [is |-> "plain", raw |-> 2, stored |-> 3], [is |-> "skippable", raw |-> 0, stored |-> 1],
           [is |-> "unskippable", raw |-> 0, stored |-> 1]}
Lengths(fs) == [j \in DOMAIN fs |-> FrameHeader + fs[j].stored]
Chunk(start, length, fs) ==
  LET named == <<[is |-> "skippable", raw |-> 0, stored |-> 0]>> \o fs
  IN [start |-> start, end |-> start + length - 1, frames |-> Placed(named, Lengths(named), 0)]
AvmlFile(cs, cut) ==
  Stream("avml", cs, [i \in DOMAIN cs |-> Header + Total(Lengths(cs[i].frames)) + Trailer], 0, cut, NoName)
Avml ==
  \/ \E fs \in SeqsUpTo(Frames, 3), length \in {6, 8, 10}, cut \in {0, 2} : dump = AvmlFile(<<Chunk(1, length, fs)>>, cut)
  \/ \E s, t \in {0, 8}, fs, gs \in SeqsUpTo({f \in Frames : f.raw > 0}, 2), cut \in {0, 1, 4} :
       dump = AvmlFile(<<Chunk(s, 8, fs), Chunk(t, 8, gs)>>, cut)

Elf ==
  \E hs \in SeqsUpTo([load : BOOLEAN, start : {0, 2, 5}, mapped : {4, 9}, filesz : {0, 3}, memsz : {2, 3}], 2) :
    dump = Table("elf", hs, 12, 0)

Crash ==
  \/ \E rs \in SeqsUpTo([base : 0..3, count : 0..2], 3) : dump = Table("runs", rs, 24, 2)
  \/ \E ws \in SeqsUpTo(SUBSET (0 .. (WordBits - 1)), 3) : dump = Table("bitmap", ws, 24, 3)

\* Sections in several orders, with names in orders of their own; page 2 is in the file where
\* the pages are read as entries
XenSection(name, entries) == [name |-> name, at |-> IF name = "pages" THEN 4 ELSE 1, entries |-> entries]
Orders == {<<NoName, "pfn", "pages">>, <<NoName, "pages", "pfn">>, <<NoName, "p2m", "pages">>,
           <<"pfn", "pages", NoName>>, <<NoName, "p2m", "pfn", "pages">>, <<NoName, "other", "pfn", "pages">>,
           <<NoName, "pfn">>, <<>>}
Xen ==
  \E es \in SeqsUpTo({None, 0, 1, 2, 3}, 4), names \in Orders,
     sections \in {o \in Orders : "pfn" \in Range(o) /\ "pages" \in Range(o)} :
    dump = File("xen", [i \in DOMAIN sections |-> XenSection(sections[i], CASE sections[i] = "pfn" -> es
                                                                            [] sections[i] = "pages" -> <<2>>
                                                                            [] OTHER -> <<>>)],
                12, 0, names, NoName)

Regions == [start : {0, 1, 3}, mapped : {0, 2}, length : {1, 2}, missing : {FALSE}]
           \cup {[start |-> 0, mapped |-> 0, length |-> 1, missing |-> TRUE]}
Vmware == \E rs \in SeqsUpTo(Regions, 3) : dump = Table("vmware", rs, 12, 0)

(* QEMU *)

Is(kind) == [is |-> kind]
Configuration(name, size) == [is |-> "configuration", architecture |-> name, size |-> size]
Starts(id, ram, version) == [is |-> "section", id |-> id, ram |-> ram, version |-> version]
Part(id) == [is |-> "part", id |-> id]
Footer(id) == [is |-> "footer", id |-> id]
Sizes(total) == [is |-> "sizes", total |-> total]
Page(address, name, compressed) == [is |-> "page", address |-> address, name |-> name, compressed |-> compressed]

Pages == {Page(address, name, compressed) : address \in {0, 2, 4}, name \in {"pc.ram", NoName}, compressed \in BOOLEAN}
         \cup {Page(0, "vga", FALSE)}
Beginnings == {<<>>, <<Configuration("i440fx", 1)>>, <<Configuration("i440fx", 2)>>, <<Configuration("other", 2)>>}
Endings ==
  {<<Is("eos"), Footer(1), Is("eof")>>, <<Is("eos"), Part(1)>>, <<Is("eos"), Part(2)>>, <<Is("eos"), Footer(2)>>, <<>>,
   <<Is("xbzrle")>>, <<Is("eos"), Starts(3, FALSE, 1), Is("content")>>, <<Is("eos"), Starts(3, FALSE, 1)>>}

Length(r) == CASE r.is = "configuration" -> r.size [] r.is = "page" -> IF r.compressed THEN 2 ELSE 1 + PageSize [] OTHER -> 1
QemuFile(rs, fallback) == Stream("qemu", rs, [i \in DOMAIN rs |-> Length(rs[i])], 1, 0, fallback)
Qemu ==
  \E b \in Beginnings, fallback \in {NoName, "i440fx"} :
    \/ \E total \in {None, 4, 8}, p \in Pages, e \in Endings :
         dump = QemuFile(b \o <<Starts(1, TRUE, 4), Sizes(total), p>> \o e, fallback)
    \/ \E total \in {4, 8}, p, q \in Pages, r \in {Page(2, NoName, FALSE), Page(4, NoName, TRUE)} :
         dump = QemuFile(b \o <<Starts(1, TRUE, 4), Sizes(total), p, q, Is("eos"), Part(1), r, Is("eos"), Footer(1), Is("eof")>>,
                         fallback)
    \/ \E ram \in BOOLEAN : dump = QemuFile(b \o <<Starts(1, ram, 3)>>, fallback)

MCHoles == [i440fx |-> [minimum |-> 6, start |-> 4, end |-> 6]]

-----------------------------------------------------------------------------
(* Kernel modules: the sections are listed in one order, and begin in any; two may begin at *)
(* one place, and some out of the area.                                                     *)

SectionsAt(names, places, above) ==
  [i \in DOMAIN names |-> [name |-> names[i], address |-> places[i] + above, there |-> TRUE]]
SymbolAt(value) == [value |-> value, shndx |-> 9, named |-> value > 0, there |-> TRUE]
SomeSymbols == <<SymbolAt(0), SymbolAt(High + 9), SymbolAt(High + 14), SymbolAt(High + 10)>>
Module(there, sections, strings, symbols) ==
  [there |-> there, sections |-> sections, tables |-> TRUE, strings |-> strings, symbols |-> symbols]
Lose(seq, i) == [seq EXCEPT ![i].there = FALSE]

\* One of its sections or symbols is lost, or where the symbols are
Losing(module) ==
  {[module EXCEPT !.sections = Lose(@, i)] : i \in DOMAIN module.sections}
  \cup {[module EXCEPT !.symbols = Lose(@, i)] : i \in DOMAIN module.symbols}
  \cup {[module EXCEPT !.tables = FALSE]}

Modules ==
  {Module(TRUE, SectionsAt(<<"text", other, "symtab", "strtab">>, places, above), strings, SomeSymbols) :
     other \in {"data", "rela", Unnamed, Blank, Smeared, "strtab"}, places \in [1 .. 4 -> {8, 10, 13, 40}],
     above \in {0, High}, strings \in {2, 4}}
  \cup {Module(there, SectionsAt(<<"symtab", "strtab", "data">>, <<8, 10, 13>>, High), 2, symbols) :
           there \in BOOLEAN, symbols \in {<<>>, SomeSymbols}}
  \cup UNION {Losing(Module(TRUE, SectionsAt(names, <<8, 10, 13>>, High), 2, symbols)) :
                names \in {<<"symtab", other, "data">> : other \in {"strtab", "text", Unnamed}} \cup {<<"text", "data", "strtab">>},
                symbols \in {<<>>, SomeSymbols}}
NoModule == Module(FALSE, <<>>, 0, <<>>)

\* Loading a dump, and making a file of a module
FilesDescribed == BytesWhereHeadersSay /\ ModuleFileRight

\* Both come to an end
FilesReturn ==
  /\ dump.format # "none" => LoadReturns
  /\ dump.format = "none" => <>(stage \in {"made", "none", "raised"})

NoDump == dump = File("none", <<>>, 0, 0, <<>>, NoName)

MCInit ==
  \/ (Lime \/ Avml \/ Elf \/ Crash \/ Xen \/ Vmware \/ Qemu) /\ Init /\ lkm = NoModule /\ ExtractInit
  \/ NoDump /\ Init /\ lkm \in Modules /\ ExtractInit

MCNext ==
  \/ dump.format # "none" /\ Next /\ UNCHANGED moduleVars
  \/ dump.format = "none" /\ ExtractNext /\ UNCHANGED vars

MCSpec == MCInit /\ [][MCNext]_<<vars, moduleVars>> /\ WF_<<vars, moduleVars>>(MCNext)
=============================================================================
