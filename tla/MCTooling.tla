------------------------------ MODULE MCTooling ------------------------------
(* Small instances of the scripts: two source files with tables, every     *)
(* bundle of up to four pieces, a web of eighteen pages, two versions.     *)
EXTENDS Tooling

Entry(id, number) == [id |-> id, number |-> number]
MCFiles == <<"limits", "names", "plain">>
MCOriginal ==
  [f \in ToSet(MCFiles) |->
     CASE f = "limits" -> <<[tokens |-> <<Entry(1, 1), Comma, Entry(2, NoNumber), Comma, Entry(3, 3), Comma>>,
                             within |-> 0],
                            [tokens |-> <<Entry(4, NoNumber)>>, within |-> 2]>>
       [] f = "names" -> <<[tokens |-> <<Entry(1, 2), Comma, Entry(2, NoNumber)>>, within |-> 0]>>
       [] OTHER -> <<>>]
MCPinned == {<<"limits", 1>>, <<"limits", 2>>, <<"limits", 4>>, <<"names", 2>>}

(* Bundles a build may print: tokens that join are apart, and a comment to *)
(* the end of the line ends it.                                            *)
Printed(s) ==
  \A i \in 1..(Len(s) - 1) : ~(s[i] = "a" /\ s[i + 1] = "a") /\ (s[i] = "l" => s[i + 1] = "nl")
MCBuilds ==
  {[p \in {"server"} |-> s] : s \in {t \in UNION {[1..n -> Pieces] : n \in 0..4} : Printed(t)}}
    \union {<<>>}
    \union {[server |-> s, admin |-> t] : s, t \in
              {<<"a", "c", "a">>, <<"a", "m", "a">>, <<"op", "c", "a">>, <<"a", "sp", "a">>, <<"c", "nl", "a">>}}

Page(page, to, found) ==
  [refused |-> FALSE, addresses |-> {[v4 |-> <<140, 82>>]}, page |-> page, to |-> to, found |-> found]
MCWeb ==
  [docs    |-> Page("live", "", TRUE),
   badge   |-> Page("headless", "", TRUE),
   old     |-> Page("moved", "badge", TRUE),
   gone    |-> Page("dead", "", FALSE),
   looping |-> Page("moved", "looping", FALSE),
   inward  |-> Page("moved", "intranet", TRUE),
   intranet |-> [Page("live", "", TRUE) EXCEPT !.addresses = {[v4 |-> <<172, 31>>], [v6 |-> "2000::/3"]}],
   literal |-> [Page("live", "", TRUE) EXCEPT !.refused = TRUE],
   cloudy  |-> Page("denied", "", TRUE),
   npm     |-> Page("denied", "", FALSE),
   unborn  |-> Page("dead", "", FALSE),
   broken  |-> Page("garbled", "", FALSE),
   hop6    |-> Page("moved", "hop5", TRUE),
   hop5    |-> Page("moved", "hop4", TRUE),
   hop4    |-> Page("moved", "hop3", TRUE),
   hop3    |-> Page("moved", "hop2", TRUE),
   hop2    |-> Page("moved", "hop1", TRUE),
   hop1    |-> Page("moved", "docs", TRUE)]
MCRegistry == [npm |-> "unborn"]

Diagnostic(code, pos, module, type) == [code |-> code, pos |-> pos, module |-> module, type |-> type]
Snippet(imports, diagnostics) ==
  [imports |-> imports, elisions |-> {1}, locals |-> {"Repo"}, diagnostics |-> diagnostics]
Diagnostics ==
  {Diagnostic("TS1109", 1, "", ""), Diagnostic("TS1109", 2, "", ""),
   Diagnostic("TS2307", 2, "peer", ""), Diagnostic("TS2307", 2, "relative", ""),
   Diagnostic("TS2339", 2, "", "Repo"), Diagnostic("TS2551", 2, "", "Repo"),
   Diagnostic("TS2551", 2, "", "CacheService"), Diagnostic("TS2345", 2, "", "")}

Readme(links, internal, relative, snippets) ==
  [links |-> links, headings |-> {"#-quick-start"}, internal |-> internal, relative |-> relative,
   snippets |-> snippets]
Fine == {Snippet(TRUE, {})}
Plain == Readme({}, {"#-quick-start"}, {"present"}, Fine)

Notes(v, short) == [version |-> v, short |-> short]
Complete == [sections |-> <<Notes("1.1.0", FALSE), Notes("1.0.0", FALSE)>>, defined |-> {"1.1.0", "1.0.0"}]
Changelogs ==
  {Complete,
   [sections |-> <<Notes("1.1.0", FALSE)>>, defined |-> {"1.1.0", "1.0.0"}],
   [sections |-> <<Notes("1.0.0", FALSE)>>, defined |-> {"1.0.0"}],
   [sections |-> <<Notes("1.1.0", TRUE), Notes("1.0.0", FALSE), Notes("1.1.0", FALSE)>>,
    defined |-> {"1.1.0", "1.0.0"}]}
Tagged(local, remote, shallow) == [local |-> local, remote |-> remote, shallow |-> shallow]
Full == Tagged({"1.0.0"}, {"1.0.0"}, FALSE)
Publish(readme_, changelog_, repository_) ==
  [readme |-> readme_, changelog |-> changelog_, repository |-> repository_]

(* Links, up to two at once; then snippets; then notes and tags.           *)
MCPublished ==
  {Publish(Readme(ls, {"#-quick-start"}, {"present"}, Fine), Complete, Full) :
     ls \in {s \in SUBSET {"docs", "old", "gone", "looping", "inward", "literal", "npm", "broken"} :
               Cardinality(s) \in 1..2} \union {{"cloudy"}, {"hop5"}, {"hop6"}}}
    \union {Publish(Readme({}, i, r, Fine), Complete, Full) :
              i \in {{}, {"#quick-start"}}, r \in {{}, {"present"}, {"present", "outside"}}}
    \union {Publish(Readme({}, {}, {"present"}, {Snippet(imports, ds)}), Complete, Full) :
              imports \in BOOLEAN, ds \in {s \in SUBSET Diagnostics : Cardinality(s) <= 2}}
    \union {Publish(Plain, log, Tagged(l, r, s)) :
              log \in Changelogs, l, r \in {{}, {"1.0.0"}}, s \in BOOLEAN}

(* Declaration files of up to two statements; entry points come and go.    *)
Decl(name, body) == [name |-> name, body |-> body]
Names(typeOnly, elements) == [typeOnly |-> typeOnly, elements |-> elements]
Element(typeOnly, name) == [typeOnly |-> typeOnly, local |-> name, name |-> name]
Statements ==
  {Decl("get", "get1"), Decl("get", "get2"), Decl("set", "set1"),
   Names(FALSE, <<Element(FALSE, "get"), Element(TRUE, "set")>>),
   Names(FALSE, <<Element(FALSE, "get")>>), Names(TRUE, <<Element(FALSE, "set")>>)}
File(statements) == [directives |-> <<>>, module |-> TRUE, statements |-> statements]
Dists == {[server |-> File(s)] : s \in UNION {[1..n -> Statements] : n \in 1..2}}
Long == {[server |-> File(s)] : s \in [1..3 -> {Decl("get", "get1"), Decl("get", "get2"), Decl("set", "set1")}]}
Other == {[server |-> File(<<>>)], [server |-> File(<<>>), admin |-> File(<<>>)], [server |-> [File(<<>>) EXCEPT !.module = FALSE]],
          [server |-> [File(<<>>) EXCEPT !.directives = <<"types node">>]]}
Release(version, against, published, before, now, sections) ==
  [version |-> version, against |-> against, published |-> published, dist |-> now, sections |-> sections,
   dists |-> [v \in {w \in published \union against : Stable(w)} |->
                IF v = <<1, 2, 9>> THEN before ELSE [server |-> File(<<>>)]]]
Noted(note) == <<[version |-> <<1, 2, 10>>, note |-> note]>>
MCReleases ==
  {Release(<<1, 2, 10>>, {}, {<<1, 2, 9>>, <<0, 9, 12>>}, b, n, Noted(FALSE)) : b \in Dists, n \in Dists}
    \union {Release(<<1, 2, 10>>, {<<1, 2, 9>>}, {}, b, n, Noted(FALSE)) : b, n \in Long}
    \union {Release(<<1, 2, 10>>, {NoTriple}, {}, b, b, Noted(TRUE)) : b \in Other}
    \union {Release(v, {}, p, b, n, s) :
              v \in {<<1, 2, 10>>, <<2, 0, 0>>, NoTriple},
              p \in SUBSET {<<1, 2, 9>>, <<1, 1, 11>>, <<3, 0, 0>>, NoTriple},
              b \in Other, n \in Other, s \in {<<>>, Noted(TRUE), Noted(FALSE)}}

MCPackages ==
  LET all == Bundles
      some == {all, all \ {<<"server", "esm">>}, all \ {<<"shared", "cjs">>}}
  IN  [files : some, loads : some, exports : some,
       packed : {{"dist"}, {"dist", "stray"}}, resolves : {Subpaths, {"server"}}]
=============================================================================
