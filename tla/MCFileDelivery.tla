----------------------------- MODULE MCFileDelivery -----------------------------
(* An archive with a site's rules, a version that is an archive and one that *)
(* is one file, and visits of every kind.                                   *)
EXTENDS FileDelivery

CONSTANTS a1, v1, v2

MCVersions == {v1, v2}
MCArchive == {a1, v1}
MCPlaceholders == {":splat", ":page"}
MCSchemes == {"http:"}
MCOdd == {"\\"}
MCDenied == {"etag"}
MCDeniedNow == {"etag", "cache-control"}

Html(bytes) == [bytes |-> bytes, inline |-> FALSE, gzip |-> FALSE, size |-> 2]
Packed(bytes) == [bytes |-> bytes, inline |-> FALSE, gzip |-> TRUE, size |-> 4]
Control(bytes) == [bytes |-> bytes, inline |-> TRUE, gzip |-> FALSE, size |-> 2]

MCContent ==
  (a1 :> ((<<"index.html">> :> Packed("a1 index")) @@ (<<"_redirects">> :> Control("a1 redirects"))))
  @@ (v1 :> ((<<"404.html">> :> Html("v1 404")) @@ (<<"docs", "index.html">> :> Html("v1 docs"))
             @@ (<<"_headers">> :> Control("v1 headers"))))
  @@ (v2 :> <<>>)
MCSingle ==
  (a1 :> [name |-> "site.zip", bytes |-> "a1 zip", inline |-> FALSE, gzip |-> FALSE, size |-> 2])
  @@ (v1 :> [name |-> "site.zip", bytes |-> "v1 zip", inline |-> FALSE, gzip |-> FALSE, size |-> 2])
  @@ (v2 :> [name |-> "map.json", bytes |-> "v2 map", inline |-> TRUE, gzip |-> TRUE, size |-> 3])

Rule(from, to, status, force) ==
  [fields |-> 3, rooted |-> TRUE, from |-> from, to |-> to, status |-> status, force |-> force]
NoFile == [large |-> FALSE, lines |-> <<>>]
MCRedirectsFile ==
  [u \in {a1, v1, v2} |->
     IF u # a1 THEN NoFile
     ELSE [large |-> FALSE, lines |->
       <<Rule(<<"old", "*">>, <<":splat">>, 301, FALSE), Rule(<<"go", ":page">>, <<":page">>, 302, TRUE),
         Rule(<<"home">>, <<"index.html">>, 200, TRUE), Rule(<<"bad", "*", "x">>, <<"">>, 301, FALSE),
         Rule(<<"app", "*">>, <<"docs">>, 200, FALSE), Rule(<<"out">>, <<"", "host">>, 301, FALSE)>>]]
MCHeadersFile ==
  [u \in {a1, v1, v2} |->
     IF u # v1 THEN NoFile
     ELSE [large |-> FALSE, lines |->
       <<[indented |-> FALSE, rooted |-> TRUE, pattern |-> <<"*">>],
         [indented |-> TRUE, name |-> "cache-control", value |-> "immutable", large |-> FALSE],
         [indented |-> TRUE, name |-> "content-security-policy", value |-> "none", large |-> FALSE],
         [indented |-> TRUE, name |-> "x-robots-tag", value |-> "all", large |-> FALSE]>>]]

Host(label) == <<label, <<"sites">>, <<"net">>>>
MCSuffix == <<<<"sites">>, <<"net">>>>
MCDomain == <<<<"net">>>>
MCBaseHost == <<<<"api">>, <<"com">>>>
MCLoopback == {<<<<"localhost">>>>}
MCSites == {Host(<<"map">>), <<<<"map">>, <<"city">>>>}
MCIdOf == ("a1" :> a1) @@ ("v1" :> v1)
MCNumberOf == "v1" :> 1
MCThumbnailFiles == ("xs.webp" :> "xs") @@ ("huge.webp" :> "huge")
Viewer == <<<<"viewer">>, <<"org">>>>
Foreign == <<<<"other">>, <<"org">>>>
MCOrigins == {[exact |-> TRUE, origin |-> Viewer]}

NoRange == [kind |-> "absent", start |-> 0, end |-> 0]
Bytes(start, end) == [kind |-> "bytes", start |-> start, end |-> end]
Visit(host, root, id, path) ==
  [host |-> host, root |-> root, id |-> id, path |-> path, query |-> None, method |-> "GET", body |-> 0,
   range |-> NoRange, credential |-> "none", origin |-> None]
Get(id, path) == Visit(MCBaseHost, "files", id, path)
Browse(label, path) == Visit(Host(label), "ui", None, path)
Map == <<"map">>
ByCookie(visit, origin) == [visit EXCEPT !.credential = "cookie", !.origin = origin]

MCVisits ==
  {Get(a1, <<"">>), Get(v1, <<"docs", "">>),
   Browse(<<"latest", "map">>, <<"index.html">>), Browse(<<"v1", "map">>, <<"docs", "">>),
   Browse(Map, <<"old", "index.html">>), Browse(Map, <<"go", "docs">>), Browse(Map, <<"app", "x">>),
   Browse(Map, <<"_headers">>), Visit(<<Map, <<"city">>>>, "ui", None, <<"">>),
   [Get(v2, <<"map.json">>) EXCEPT !.range = Bytes(1, 99)],
   [Get(a1, <<"index.html">>) EXCEPT !.range = Bytes(1, 2)],
   [Browse(<<"v1">>, <<"docs", "">>) EXCEPT !.range = Bytes(1, 99)],
   [Get(v2, <<"map.json">>) EXCEPT !.query = "xs"],
   Get(a1, <<"_thumbs", "huge.webp">>),
   Visit(MCBaseHost, "ui", None, <<"">>), Browse(<<"a", "b", "map">>, <<"">>),
   [Browse(Map, <<"">>) EXCEPT !.method = "OPTIONS", !.origin = Foreign],
   [Browse(Map, <<"_serve", "auth">>) EXCEPT !.method = "POST", !.body = 2],
   [Browse(Map, <<"home">>) EXCEPT !.range = Bytes(1, 99), !.credential = "basic"]}
  \cup {ByCookie(Browse(Map, <<"">>), o) : o \in {Viewer, Foreign}}
===============================================================================
