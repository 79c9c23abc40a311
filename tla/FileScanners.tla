---------------------------- MODULE FileScanners ----------------------------
(***************************************************************************)
(* The built-in scanners: what one file contributes to the graph.          *)
(*                                                                         *)
(* A path is the sequence of its segments; the root directory is <<>>.  A  *)
(* file is a record [path, size, body]; a body holds what the parser of its *)
(* language finds: top-level statements, SQL clauses, headings.  A node id *)
(* is a tuple that starts with the type; an edge is its id: type, source,   *)
(* target.  Lines, snippets and confidence are left out.                   *)
(***************************************************************************)
EXTENDS Naturals, Sequences, FiniteSets, SequencesExt, TLC

CONSTANTS
  UrlSegment,       \* [path segment -> URL segments]: route groups vanish, [id] is :id
  CodeLikeSymbols,  \* names distinctive enough to match in prose
  CodeLikeTables,
  TestNames,        \* base names that name a test by convention
  None              \* null

Node(id, type, label, path) ==
  [id |-> id, type |-> type, label |-> label, path |-> path,
   dir |-> <<>>, deps |-> {}, url |-> None]
E(type, from, to) == <<type, from, to>>
IdsOf(nodes) == {nodes[i].id : i \in DOMAIN nodes}
NoData == [doc |-> None]
Contribution(nodes, edges) == [nodes |-> nodes, edges |-> edges, data |-> NoData]

fileId(path) == <<"file", path>>
packageId(name) == <<"package", name>>
functionId(path, name) == <<"function", path, name>>

posixDirname(path) == Front(path)
posixBasename(path) == Last(path)
posixJoin(segs) ==
  FoldLeft(LAMBDA acc, s : CASE s = "."  -> acc
                             [] s = ".." -> IF acc = <<>> THEN acc ELSE Front(acc)
                             [] OTHER    -> Append(acc, s),
           <<>>, segs)

IsSequence(s) == s \in Seq(ToSet(s))

\* The elements of s whose places are in S, in order.
Picked(s, S) == FlattenSeq([i \in DOMAIN s |-> IF i \in S THEN <<s[i]>> ELSE <<>>])

FirstIn(candidates, S) == IF \E i \in DOMAIN candidates : candidates[i] \in S
                          THEN SelectSeq(candidates, LAMBDA c : c \in S)[1] ELSE None

-----------------------------------------------------------------------------
(* package.json                                                            *)

\* Without a name, or when it does not parse, a manifest contributes nothing.
scanPackageJson(file) ==
  IF file.body.name = None THEN Contribution(<<>>, {})
  ELSE Contribution(<<[Node(packageId(file.body.name), "package", file.body.name, file.path)
                         EXCEPT !.dir = posixDirname(file.path), !.deps = file.body.deps]>>, {})

\* dir.length of the string: "." for the root.
DirLength(dir) ==
  LET upTo[n \in 0..Len(dir)] == IF n = 0 THEN 0 ELSE upTo[n - 1] + Len(dir[n]) + 1
  IN IF dir = <<>> THEN 1 ELSE upTo[Len(dir)] - 1

\* The first package, by descending length of its directory, that the path is under.
Nearest(packages, path) ==
  LET under == {i \in DOMAIN packages : packages[i].dir = <<>> \/ IsPrefix(packages[i].dir, path)}
      Precedes(i, j) == \/ DirLength(packages[i].dir) > DirLength(packages[j].dir)
                        \/ DirLength(packages[i].dir) = DirLength(packages[j].dir) /\ i <= j
  IN IF under = {} THEN None
     ELSE packages[CHOOSE i \in under : \A j \in under : Precedes(i, j)]

\* A fault: the first package the file is under, outermost as likely as not.
NearestFirst(packages, path) ==
  LET under == SelectSeq(packages, LAMBDA p : p.dir = <<>> \/ IsPrefix(p.dir, path))
  IN IF under = <<>> THEN None ELSE under[1]

derivePackageEdgesFirst(nodes) ==
  LET packages == SelectSeq(nodes, LAMBDA n : n.type = "package")
  IN {E("belongs_to", n.id, NearestFirst(packages, n.path).id) :
        n \in {m \in ToSet(nodes) : /\ m.type \in {"file", "migration"}
                                    /\ NearestFirst(packages, m.path) # None}}

derivePackageEdges(nodes) ==
  LET packages == Picked(nodes, {i \in DOMAIN nodes : nodes[i].type = "package"})
      names == {p.label : p \in ToSet(packages)}
      members == {n \in ToSet(nodes) : /\ n.type \in {"file", "migration"}
                                       /\ Nearest(packages, n.path) # None}
  IN {E("belongs_to", n.id, Nearest(packages, n.path).id) : n \in members}
     \cup UNION {{E("depends_on", p.id, packageId(dep)) : dep \in p.deps \cap names}
                   : p \in ToSet(packages)}

-----------------------------------------------------------------------------
(* TypeScript and JavaScript.  A statement is [k, name, calls, exported,    *)
(* decorators, spec, names]; a call is [inner, callee] where inner is the   *)
(* named function inside the statement that holds it, or None.             *)

CODE_EXTS == <<"", ".ts", ".tsx", ".js", ".jsx", ".mjs", ".cjs">>
INDEX_FILES == <<"index.ts", "index.tsx", "index.js", "index.jsx">>
HTTP_METHODS == {"GET", "POST", "PUT", "PATCH", "DELETE", "HEAD", "OPTIONS"}

resolveLocalImport(from, spec, targets) ==
  IF spec[1] \notin {".", ".."} THEN None
  ELSE LET target == posixJoin(posixDirname(from) \o spec)
           withExt == IF target = <<>> THEN <<>>
                      ELSE [i \in DOMAIN CODE_EXTS |->
                              Append(Front(target), Last(target) \o CODE_EXTS[i])]
           index == [i \in DOMAIN INDEX_FILES |-> Append(target, INDEX_FILES[i])]
       IN FirstIn(withExt \o index, targets)

\* The workspace package whose name is the specifier or its first part.  A scope and
\* a name (@scope/name) are one part; a name that goes on as another one's directory
\* ("a" beside "a/b", which npm does not allow) is left out.
matchWorkspacePackage(spec, names) == IF spec[1] \in names THEN spec[1] ELSE None

isTestPath(path) == \/ \E i \in DOMAIN path : path[i] \in {"__tests__", "tests", "test"}
                    \/ posixBasename(path) \in TestNames

SymbolId(path, s) == <<IF s.k = "class" THEN "class" ELSE "function", path, s.name>>

\* The first definition of a name is kept.
Definitions(body, kinds) ==
  LET symbols == {i \in DOMAIN body : body[i].k \in kinds}
  IN Picked(body, {i \in symbols : \A j \in symbols : body[j].name = body[i].name => i <= j})

SymbolNode(path, s) ==
  Node(SymbolId(path, s),
       IF isTestPath(path) THEN "test" ELSE IF s.k = "class" THEN "class" ELSE "function",
       s.name, path)

Symbols(path, defs) ==
  Contribution([i \in DOMAIN defs |-> SymbolNode(path, defs[i])],
               {E("defines", fileId(path), SymbolId(path, defs[i])) : i \in DOMAIN defs})

extractSymbols(path, body) == Symbols(path, Definitions(body, {"function", "class", "const"}))

\* [edges, importedNames]: the last import of a local name counts.
extractImports(path, body, targets, packages) ==
  LET imports == {i \in DOMAIN body : body[i].k \in {"import", "reexport"}}
      Target(i) == resolveLocalImport(path, body[i].spec, targets)
      linked == {i \in imports : Target(i) # None}
      bound == {i \in linked : body[i].k = "import"}
      foreign == {matchWorkspacePackage(body[i].spec, packages) : i \in imports \ linked} \ {None}
      Rebound(n, i) == \E j \in bound : j > i /\ \E m \in body[j].names : m.local = n.local
  IN [edges |-> {E("imports", fileId(path), fileId(Target(i))) : i \in linked}
                \cup {E("imports", fileId(path), packageId(pkg)) : pkg \in foreign},
      names |-> UNION {{[local |-> n.local, file |-> Target(i), name |-> n.exported] :
                          n \in {m \in body[i].names : ~Rebound(m, i)}} : i \in bound}]

ROUTE_FILES == {"route.ts", "route.tsx", "route.js", "route.jsx"}

\* The URL of an App Router handler: the segments after the last "app".
routeUrlFor(path) ==
  LET apps == {i \in 1..(Len(path) - 1) : path[i] = "app"}
      last == CHOOSE i \in apps : \A j \in apps : j <= i
      segs == FlattenSeq([i \in 1..(Len(path) - 1 - last) |-> UrlSegment[path[last + i]]])
  IN IF posixBasename(path) \notin ROUTE_FILES \/ apps = {} THEN None
     ELSE FoldLeft(LAMBDA url, s : IF url = "/" THEN url \o s ELSE url \o "/" \o s, "/", segs)

\* The routes of a file, each a [method, url, handler], and the functions that answer them.
Routes(path, routes) ==
  LET Id(r) == <<"route", r.url, r.method>>
  IN Contribution([i \in DOMAIN routes |->
                     [Node(Id(routes[i]), "route", routes[i].method \o " " \o routes[i].url, path)
                        EXCEPT !.url = routes[i].url]],
                  UNION {{E("defines", fileId(path), Id(routes[i])),
                          E("references", Id(routes[i]), functionId(path, routes[i].handler))}
                           : i \in DOMAIN routes})
Nothing == Contribution(<<>>, {})

extractRoutes(path, body) ==
  LET url == routeUrlFor(path)
      handlers == Picked(body, {i \in DOMAIN body : /\ body[i].k \in {"function", "const"}
                                                    /\ body[i].name \in HTTP_METHODS
                                                    /\ body[i].exported})
  IN IF url = None THEN Nothing
     ELSE Routes(path, [i \in DOMAIN handlers |-> [method |-> handlers[i].name, url |-> url,
                                                   handler |-> handlers[i].name]])

\* A fault: an import is looked up by its local name.
CalleeLocal(path, defs, imported, name) ==
  IF \E i \in DOMAIN defs : defs[i].name = name
  THEN SymbolId(path, SelectSeq(defs, LAMBDA d : d.name = name)[1])
  ELSE IF \E b \in imported : b.local = name
       THEN LET b == CHOOSE x \in imported : x.local = name IN functionId(b.file, b.local)
       ELSE None

\* The callee of a simple call: a symbol of the file, or a named import taken for a function.
Callee(path, defs, imported, name) ==
  IF \E i \in DOMAIN defs : defs[i].name = name
  THEN SymbolId(path, SelectSeq(defs, LAMBDA d : d.name = name)[1])
  ELSE IF \E b \in imported : b.local = name
       THEN LET b == CHOOSE x \in imported : x.local = name IN functionId(b.file, b.name)
       ELSE None

\* The edges of <<caller, name of the callee>> pairs that resolve, but for recursion.
Calls(path, defs, imported, pairs) ==
  {e \in {E("calls", p[1], Callee(path, defs, imported, p[2])) : p \in pairs}
     : e[3] # None /\ e[2] # e[3]}

\* The top of the stack of named functions and classes, or the file.
extractCalls(path, body, defs, imported) ==
  LET Caller(s, c) == IF c.inner # None THEN functionId(path, c.inner)
                      ELSE IF s.k \in {"function", "class", "const"} THEN SymbolId(path, s)
                      ELSE fileId(path)
  IN Calls(path, defs, imported,
           UNION {{<<Caller(s, c), c.callee>> : c \in s.calls} : s \in ToSet(body)})

FileNode(path) == Node(fileId(path), "file", posixBasename(path), path)

scanCode(file, targets, packages) ==
  LET symbols == extractSymbols(file.path, file.body)
      imports == extractImports(file.path, file.body, targets, packages)
      routes == extractRoutes(file.path, file.body)
      calls == extractCalls(file.path, file.body,
                            Definitions(file.body, {"function", "class", "const"}), imports.names)
  IN Contribution(<<FileNode(file.path)>> \o symbols.nodes \o routes.nodes,
                  symbols.edges \cup imports.edges \cup routes.edges \cup calls)

-----------------------------------------------------------------------------
(* Python: an import is [k |-> "from" or "plain", dots, parts, names].      *)

resolvePyModule(from, dots, parts, knownFiles) ==
  LET dir == posixDirname(from)
      up == IF dots - 1 > Len(dir) THEN Len(dir) ELSE dots - 1
      base == IF dots = 0 THEN <<>> ELSE SubSeq(dir, 1, Len(dir) - up)
      mod == base \o parts
      init == Append(mod, "__init__.py")
  IN FirstIn(IF parts = <<>> THEN <<init>>
             ELSE <<Append(Front(mod), Last(mod) \o ".py"), init>>, knownFiles)

extractPySymbols(path, body) == Symbols(path, Definitions(body, {"function", "class"}))

\* [edges, names]: the last import of a local name counts; `from . import a, b` names
\* sibling modules and binds no call target.
extractPyImports(path, body, knownFiles) ==
  LET Target(s, parts) == resolvePyModule(path, IF s.k = "from" THEN s.dots ELSE 0, parts, knownFiles)
      imports == {i \in DOMAIN body : body[i].k \in {"from", "plain"}}
      siblings == {i \in imports : body[i].k = "from" /\ body[i].parts = <<>>}
      bound == {i \in imports \ siblings : body[i].k = "from" /\ Target(body[i], body[i].parts) # None}
      Named(i) == {n \in body[i].names : n.local # "*"}
      Rebound(n, i) == \E j \in bound : j > i /\ \E m \in Named(j) : m.local = n.local
      linked == {Target(body[i], body[i].parts) : i \in imports \ siblings}
                \cup UNION {{Target(body[i], <<n.exported>>) : n \in Named(i)} : i \in siblings}
  IN [edges |-> {E("imports", fileId(path), fileId(t)) : t \in linked \ {None}},
      names |-> UNION {{[local |-> n.local, file |-> Target(body[i], body[i].parts), name |-> n.exported] :
                          n \in {m \in Named(i) : ~Rebound(m, i)}} : i \in bound}]

\* @app.get("/x"), and @app.route("/x", methods=[...]) with GET when none is given.
RouteMethods(d) == CASE d.verb \in HTTP_METHODS -> <<d.verb>>
                     [] d.verb = "route" -> IF d.methods = <<>> THEN <<"GET">> ELSE d.methods
                     [] OTHER -> <<>>

extractPyRoutes(path, body) ==
  LET OfDecorator(s, d) == LET methods == RouteMethods(d)
                           IN [i \in DOMAIN methods |-> [method |-> methods[i], url |-> d.url,
                                                         handler |-> s.name]]
      OfFunction(s) == FlattenSeq([i \in DOMAIN s.decorators |-> OfDecorator(s, s.decorators[i])])
  IN Routes(path, FlattenSeq([i \in DOMAIN body |-> IF body[i].k = "function"
                                                    THEN OfFunction(body[i]) ELSE <<>>]))

\* The enclosing top-level definition, or the file.
extractPyCalls(path, body, defs, imported) ==
  LET Caller(s) == IF s.k \in {"function", "class"} THEN SymbolId(path, s) ELSE fileId(path)
  IN Calls(path, defs, imported,
           UNION {{<<Caller(s), c.callee>> : c \in s.calls} : s \in ToSet(body)})

scanPython(file, knownFiles) ==
  LET symbols == extractPySymbols(file.path, file.body)
      imports == extractPyImports(file.path, file.body, knownFiles)
      routes == extractPyRoutes(file.path, file.body)
      calls == extractPyCalls(file.path, file.body,
                              Definitions(file.body, {"function", "class"}), imports.names)
  IN Contribution(<<FileNode(file.path)>> \o symbols.nodes \o routes.nodes,
                  symbols.edges \cup imports.edges \cup routes.edges \cup calls)

-----------------------------------------------------------------------------
(* SQL: the clauses of a migration in the order of the text.               *)

normalizeTable(raw) == IF raw.schema = "public" THEN raw.name ELSE raw.schema \o raw.name
tableId(raw) == <<"table", normalizeTable(raw)>>

\* A foreign key is of the last table created or altered before it.
scanSql(file) ==
  LET mig == <<"migration", file.path>>
      clauses == file.body
      Of(k) == Picked(clauses, {i \in DOMAIN clauses : clauses[i].k = k})
      tables == Of("create") \o Of("alter") \o Of("references")
      Source(i) == LET before == {j \in 1..(i - 1) : clauses[j].k \in {"create", "alter"}}
                   IN IF before = {} THEN None
                      ELSE tableId(clauses[CHOOSE j \in before : \A l \in before : l <= j].table)
      keys == {i \in DOMAIN clauses : /\ clauses[i].k = "references" /\ Source(i) # None
                                      /\ Source(i) # tableId(clauses[i].table)}
  IN Contribution(<<Node(mig, "migration", posixBasename(file.path), file.path)>>
                    \o [i \in DOMAIN tables |-> Node(tableId(tables[i].table), "table",
                                                     normalizeTable(tables[i].table), file.path)],
                  {E("defines", mig, tableId(c.table)) : c \in ToSet(Of("create"))}
                  \cup {E("references", Source(i), tableId(clauses[i].table)) : i \in keys})

-----------------------------------------------------------------------------
(* Markdown.  A body is [headings, links, code, words, paths]: a heading is *)
(* [slug, words], code holds the words of code spans, words and paths those *)
(* of the whole text.                                                      *)

\* usedSlugs: the second heading of a slug gets -1, the third -2.
Slug(headings, i) ==
  LET Base(j) == IF headings[j].slug = "" THEN "section" ELSE headings[j].slug
      seen == Cardinality({j \in 1..(i - 1) : Base(j) = Base(i)})
  IN IF seen = 0 THEN Base(i) ELSE Base(i) \o "-" \o ToString(seen)

SectionId(path, headings, i) == <<"section", path, Slug(headings, i)>>
DocId(path) == <<"doc", path>>

scanDocs(file) ==
  LET headings == file.body.headings
      sections == [i \in DOMAIN headings |->
                     Node(SectionId(file.path, headings, i), "section", headings[i].slug, file.path)]
  IN [nodes |-> <<Node(DocId(file.path), "doc", posixBasename(file.path), file.path)>> \o sections,
      edges |-> {E("belongs_to", s.id, DocId(file.path)) : s \in ToSet(sections)},
      data |-> [doc |-> file.path, parsed |-> file.body]]

\* A link from the root, from the document's directory, or either.
resolveFile(doc, link, files) ==
  LET here == posixJoin(posixDirname(doc) \o link.segs)
  IN CASE link.form = "external" -> None
       [] link.form = "root" -> FirstIn(<<link.segs>>, files)
       [] link.form = "relative" -> FirstIn(<<here>>, files)
       [] OTHER -> FirstIn(<<link.segs, here>>, files)

\* What a text can name: routes, and symbols and tables by their word.
Linkable(nodes) == {n \in ToSet(nodes) : \/ n.type \in {"class", "table", "route"}
                                         \/ n.type = "function" /\ n.label \notin HTTP_METHODS}
Names(words, n) == IF n.type = "route" THEN n.url \in words \/ n.label \in words
                   ELSE n.label \in words

\* A name that is not code-like counts only in code spans.
MentionedIn(parsed, n) ==
  CASE n.type = "route" -> Names(parsed.words, n)
    [] n.type = "table" -> Names(IF n.label \in CodeLikeTables THEN parsed.words ELSE parsed.code, n)
    [] OTHER -> Names(IF n.label \in CodeLikeSymbols THEN parsed.words ELSE parsed.code, n)

Mentionable(parsed, nodes, explained) ==
  {n \in Linkable(nodes) \ explained : MentionedIn(parsed, n)}

LinksOf(data, nodes) ==
  LET doc == data.doc
      parsed == data.parsed
      files == {n.path : n \in {m \in ToSet(nodes) : m.type = "file"}}
      explains == {x \in (DOMAIN parsed.headings) \X Linkable(nodes) :
                     Names(parsed.headings[x[1]].words, x[2])}
      explained == {x[2] : x \in explains}
      documented == {resolveFile(doc, l, files) : l \in parsed.links} \ {None}
  IN {E("explains", SectionId(doc, parsed.headings, x[1]), x[2].id) : x \in explains}
     \cup {E("documents", DocId(doc), fileId(p)) : p \in documented}
     \cup {E("mentions", DocId(doc), n.id) : n \in Mentionable(parsed, nodes, explained)}
     \cup {E("mentions", DocId(doc), fileId(p)) : p \in (files \cap parsed.paths) \ documented}

linkDocsToCode(docs, nodes) == UNION {LinksOf(d, nodes) : d \in docs}

=============================================================================
