------------------------- MODULE MCScannerRegistry -------------------------
(***************************************************************************)
(* Three repositories: a workspace of packages in TypeScript, a service in *)
(* Python with migrations and a guide, and one with the names that give    *)
(* trouble: a directory of one letter, nested functions, equal headings.   *)
(***************************************************************************)
EXTENDS ScannerRegistry

Plugin(id, rank, order, kind) == [id |-> id, rank |-> rank, order |-> order, ok |-> TRUE, kind |-> kind]

\* A third party's SQL plugin goes before the built-in one; two plugins are refused.
MCOffered ==
  {Plugin("builtin:package", 3, 0, "package"), Plugin("builtin:code", 2, 1, "code"),
   Plugin("builtin:python", 4, 1, "python"), Plugin("builtin:sql", 5, 2, "sql"),
   Plugin("builtin:docs", 6, 3, "docs"), Plugin("acme:sql", 1, 2, "acme"),
   [Plugin("acme:old", 0, 0, "old") EXCEPT !.ok = FALSE]}

File(path, ext, body) == [path |-> path, ext |-> ext, size |-> 1, body |-> body]
Manifest(dir, name, deps) ==
  File(Append(dir, "package.json"), ".json", [name |-> name, deps |-> deps])

Stmt(k, name) == [k |-> k, name |-> name, calls |-> {}, exported |-> TRUE, decorators |-> <<>>,
                  spec |-> <<"">>, names |-> {}, dots |-> 0, parts |-> <<>>]
Fn(name, callees) == [Stmt("function", name) EXCEPT !.calls = {[inner |-> None, callee |-> c] : c \in callees}]
Imp(spec, names) ==
  [Stmt("import", "") EXCEPT !.spec = spec, !.names = {[local |-> n[1], exported |-> n[2]] : n \in names}]
From(dots, parts, names) ==
  [Stmt("from", "") EXCEPT !.dots = dots, !.parts = parts,
                           !.names = {[local |-> n[1], exported |-> n[2]] : n \in names}]

Workspace ==
  [ignore |-> {[form |-> "name", name |-> "gen"]},
   files |->
     <<File(<<"gen", "x.ts">>, ".ts", <<Fn("skipped", {})>>),
       Manifest(<<"lib">>, "core", {}),
       File(<<"lib", "index.ts">>, ".ts", <<Fn("load", {"parse"}), Imp(<<".", "util">>, {<<"parse", "parse2">>}),
                                            [Stmt("class", "Store") EXCEPT !.calls = {[inner |-> None, callee |-> "load"]}]>>),
       File(<<"lib", "util.ts">>, ".ts", <<Fn("parse2", {}), Imp(<<"..", "web">>, {})>>),
       Manifest(<<>>, "root", {"core"}),
       File(<<"web", "app", "(shop)", "route.ts">>, ".ts",
            <<Imp(<<"core">>, {<<"load", "load">>}), Imp(<<"..", "..", "..", "lib">>, {<<"get", "load">>}),
              Fn("GET", {"get", "load"})>>),
       Manifest(<<"web">>, "web", {"core", "react"})>>]

Service ==
  [ignore |-> {[form |-> "path", path |-> <<"svc", "big.py">>], [form |-> "glob", names |-> {"old.sql"}]},
   files |->
     <<File(<<"db", "1.sql">>, ".sql",
            <<[k |-> "create", table |-> [schema |-> "public", name |-> "users"]],
              [k |-> "create", table |-> [schema |-> "", name |-> "orders"]],
              [k |-> "references", table |-> [schema |-> "", name |-> "users"]]>>),
       File(<<"db", "old.sql">>, ".sql", <<>>),
       File(<<"guide.md">>, ".md",
            [headings |-> <<[slug |-> "users", words |-> {"users"}], [slug |-> "users", words |-> {"/items"}],
                            [slug |-> "", words |-> {}]>>,
             links |-> {[form |-> "plain", segs |-> <<"svc", "api.py">>], [form |-> "external", segs |-> <<"x">>]},
             code |-> {"run"}, words |-> {"users", "/items", "run", "orders", "helper"},
             paths |-> {<<"svc", "api.py">>, <<"svc", "core.py">>}]),
       Manifest(<<>>, "svc", {}),
       File(<<"svc", "__init__.py">>, ".py", <<>>),
       File(<<"svc", "api.py">>, ".py",
            <<From(1, <<"core">>, {<<"h", "helper">>}), From(1, <<>>, {<<"core", "core">>}),
              [Fn("items", {"h"}) EXCEPT !.decorators = <<[verb |-> "GET", url |-> "/items", methods |-> <<>>],
                                                          [verb |-> "route", url |-> "/all", methods |-> <<>>]>>]>>),
       [File(<<"svc", "core.py">>, ".py", <<Fn("helper", {}), Fn("run", {"helper"})>>) EXCEPT !.size = 1],
       [File(<<"svc", "huge.py">>, ".py", <<>>) EXCEPT !.size = 3]>>]

Trouble ==
  [ignore |-> {},
   files |->
     <<File(<<"README.md">>, ".md",
            [headings |-> <<[slug |-> "setup", words |-> {}], [slug |-> "setup", words |-> {}],
                            [slug |-> "setup-1", words |-> {}]>>,
             links |-> {}, code |-> {}, words |-> {}, paths |-> {}]),
       Manifest(<<>>, "root", {}),
       File(<<"x", "main.ts">>, ".ts",
            <<Fn("helper", {}),
              [Fn("main", {}) EXCEPT !.calls = {[inner |-> "each", callee |-> "helper"]}]>>),
       Manifest(<<"x">>, "inner", {})>>]

MCRepos == <<Workspace, Service>>
MCTrouble == <<Trouble>>

\* What the third party gives: a node without an id, one twice, an edge to nowhere.
MCForeign(f) ==
  Contribution(<<Node(<<"table", "users">>, "table", "users", f.path), Node(None, "table", "", f.path),
                 Node(<<"table", "users">>, "table", "again", f.path)>>,
               {E("references", <<"table", "users">>, <<"table", "nowhere">>),
                E("references", <<"table", "users">>, None)})

MCUrlSegment == [s \in {"(shop)"} |-> <<>>]
MCCodeLike == {"helper"}
MCCodeLikeTables == {"orders"}
MCTestNames == {"a.test.ts"}
=============================================================================
