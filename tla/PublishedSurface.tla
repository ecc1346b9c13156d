--------------------------- MODULE PublishedSurface ---------------------------
(***************************************************************************)
(* src/scripts/check-published-surface.mjs: before a release, the links of *)
(* the README are followed, all at once, the CHANGELOG is held against the *)
(* tags, and the snippets of the README are compiled against dist.         *)
(*                                                                         *)
(* The Web is a function of urls: whether the url is refused as written,   *)
(* the addresses of its host, what the page answers the gate, where it has *)
(* moved to, and whether a reader who follows the url finds a page.        *)
(***************************************************************************)
EXTENDS ScriptProcess, FiniteSets, FiniteSetsExt

CONSTANTS
  Web,         \* what there is
  Registry,    \* registry.npmjs.org of each page on www.npmjs.com
  Current,     \* PKG.version
  Published    \* what may be published: [readme, changelog, repository]

(* What is linked, and what it moves to or is looked up as, is somewhere.  *)
(* A page that is denied to a program may be there or not; the registry    *)
(* answers honestly whether a package page is.                             *)
ASSUME WebAssumption ==
  /\ \A v \in DOMAIN Web :
       /\ Web[v].page \in {"live", "headless", "dead", "denied", "moved", "garbled"}
       /\ Web[v].found \in BOOLEAN
       /\ Web[v].page \in {"live", "headless"} => Web[v].found
       /\ Web[v].page \in {"dead", "garbled"} => ~Web[v].found
       /\ Web[v].page = "moved" => Web[v].to \in DOMAIN Web /\ Web[v].found = Web[Web[v].to].found
  /\ \A u \in DOMAIN Registry :
       Registry[u] \in DOMAIN Web /\ (u \in DOMAIN Web => Web[u].found = Web[Registry[u]].found)
  /\ \A p \in Published : p.readme.links \subseteq DOMAIN Web

VARIABLES
  readme,      \* the README
  changelog,   \* the CHANGELOG
  repository,  \* tags, and whether the checkout is shallow
  check,       \* the check that is next or under way
  link,        \* progress of the check of each external link
  hindered,    \* links whose host could not be resolved or reached in time
  gitAnswered, \* the commands of git that worked
  problems,    \* the checks that recorded a failure
  gateDir,     \* .docs-gate exists
  unwritable   \* a file of .docs-gate could not be written

inputs == <<readme, changelog, repository>>
surfaceVars == <<inputs, check, link, hindered, gitAnswered, problems, gateDir, unwritable>>

MaxHops == 5

Fail(name, found) == problems' = IF found THEN problems \union {name} ELSE problems

-----------------------------------------------------------------------------
(* Addresses and hosts.                                                    *)

(* An address is [v4 |-> <<a, b>>], its first two bytes, or [v6 |-> block],*)
(* the block it is in, or [mapped |-> <<a, b>>].                           *)
PrivateV4(a, b) ==
  \/ a \in {127, 0, 10}
  \/ a = 172 /\ b \in 16..31
  \/ a = 192 /\ b = 168
  \/ a = 169 /\ b = 254

PrivateAddressReason(ip) ==
  CASE DOMAIN ip = {"v4"} -> PrivateV4(ip.v4[1], ip.v4[2])
    [] DOMAIN ip = {"mapped"} -> PrivateV4(ip.mapped[1], ip.mapped[2])
    [] OTHER -> ip.v6 \in {"::1", "::", "fc00::/7", "fe80::/10"}

(* Not https, a loopback or mDNS name, or an IP literal; then a lookup that*)
(* may fail or take over 5 s, and then says nothing.                       *)
UnroutableReason(url, answers) ==
  \/ Web[url].refused
  \/ answers /\ \E ip \in Web[url].addresses : PrivateAddressReason(ip)

-----------------------------------------------------------------------------
(* checkLinks.                                                             *)

Probe(url) == IF url \in DOMAIN Registry THEN Registry[url] ELSE url

(* The anchors and relative targets, which need no network.                *)
StaticLinks ==
  /\ Runs("check-published-surface")
  /\ check = "links"
  /\ Fail("links", ~(readme.internal \subseteq readme.headings) \/ ~(readme.relative \subseteq {"present"}))
  /\ check' = "probing"
  /\ link' = [u \in readme.links |->
       [at |-> "written", url |-> u, method |-> "HEAD", hops |-> 0, late |-> FALSE, checked |-> {}]]
  /\ Continues
  /\ UNCHANGED <<inputs, hindered, gitAnswered, gateDir, unwritable>>

Probing(u, step) ==
  /\ Runs("check-published-surface")
  /\ check = "probing"
  /\ link[u].at = step
  /\ Continues
  /\ UNCHANGED <<inputs, check, gitAnswered, problems, gateDir, unwritable>>

Goes(u, l) == link' = [link EXCEPT ![u] = l]
Settles(u, result) == Goes(u, [link[u] EXCEPT !.at = result])

(* Mutant: the count starts again at each hop.                             *)
UncountedHops(l, step) == 0

(* The chain of redirects is counted from the url that was given.          *)
NextHops(l, step) == IF step = "hop" THEN l.hops + 1 ELSE 0

(* unroutableReason of the url as written, of the registry's url in its    *)
(* place, and of each hop; then fetchChecked to its fetch: the chain is    *)
(* bounded, and a request after the deadline fails at once.                *)
Checked(u) ==
  \E step \in {"written", "rewritten", "hop"}, answers \in BOOLEAN :
    LET l == [link[u] EXCEPT !.checked = @ \union {link[u].url}, !.hops = NextHops(link[u], step)]
    IN  /\ Probing(u, step)
        /\ IF UnroutableReason(l.url, answers) \/ l.hops > MaxHops
           THEN Settles(u, "failed") /\ UNCHANGED hindered
           ELSE /\ IF step = "written" /\ Probe(u) # u
                   THEN Goes(u, [l EXCEPT !.at = "rewritten", !.url = Probe(u)])
                   ELSE Goes(u, [l EXCEPT !.at = IF l.late THEN "noted" ELSE "requested"])
                /\ hindered' = IF answers /\ ~l.late THEN hindered ELSE hindered \union {u}

(* The page answers: a redirect is followed by hand, its target checked    *)
(* first; a HEAD that is refused is repeated as a GET of the first url.    *)
Status(url, method) ==
  CASE Web[url].page = "live" -> 200
    [] Web[url].page = "headless" -> IF method = "HEAD" THEN 405 ELSE 200
    [] Web[url].page = "dead" -> 404
    [] Web[url].page = "denied" -> 403
    [] Web[url].page \in {"moved", "garbled"} -> 302

Answered(u) ==
  LET l == link[u]
      status == Status(l.url, l.method)
  IN  /\ Probing(u, "requested")
      /\ CASE Web[l.url].page = "moved" -> Goes(u, [l EXCEPT !.at = "hop", !.url = Web[l.url].to])
           [] Web[l.url].page = "garbled" -> Settles(u, "failed")
           [] status \in {405, 403, 429} /\ l.method = "HEAD" ->
                Goes(u, [l EXCEPT !.url = Probe(u), !.method = "GET", !.hops = 0])
           [] status = 200 -> Settles(u, "live")
           [] status = 404 /\ Probe(u) # u -> Settles(u, "noted")
           [] OTHER -> Settles(u, "failed")
      /\ UNCHANGED hindered

(* The request is rejected: the host cannot be reached, or the 10 s that   *)
(* all requests of a link share are over.  Both are notes.                 *)
Unreached(u) ==
  /\ Probing(u, "requested")
  /\ Settles(u, "noted")
  /\ hindered' = hindered \union {u}

(* The 10 s are over while a hop is looked up.                             *)
DeadlinePasses(u) ==
  /\ Probing(u, "hop")
  /\ ~link[u].late
  /\ Goes(u, [link[u] EXCEPT !.late = TRUE])
  /\ UNCHANGED hindered

LinksDone ==
  /\ Runs("check-published-surface")
  /\ check = "probing"
  /\ \A u \in DOMAIN link : link[u].at \in {"live", "noted", "failed"}
  /\ Fail("links", \E u \in DOMAIN link : link[u].at = "failed")
  /\ check' = "changelog"
  /\ Continues
  /\ UNCHANGED <<inputs, link, hindered, gitAnswered, gateDir, unwritable>>

-----------------------------------------------------------------------------
(* checkChangelog.  A section is [version, short]; of two with one heading *)
(* the first is read.                                                      *)

Documented == {s.version : s \in ToSet(changelog.sections)}

ReleaseNotes(v) ==
  changelog.sections[Min({i \in DOMAIN changelog.sections : changelog.sections[i].version = v})]

MissingSections(released, shallow) ==
  IF released = {} THEN shallow ELSE ~(released \subseteq Documented)

(* git fetch, git tag and git rev-parse are asked, and each may fail: then *)
(* the local tags are all there is, the check fails, and the checkout is   *)
(* taken for a full one.                                                   *)

CheckChangelog ==
  /\ Runs("check-published-surface")
  /\ check = "changelog"
  /\ \E answered \in SUBSET {"fetch", "tag", "rev-parse"} :
       LET released == repository.local \union (IF "fetch" \in answered THEN repository.remote ELSE {})
           shallow  == "rev-parse" \in answered /\ repository.shallow
       IN  /\ gitAnswered' = answered
           /\ Fail("changelog",
                IF Current \notin Documented THEN TRUE
                ELSE \/ \E v \in Documented : ReleaseNotes(v).short \/ v \notin changelog.defined
                     \/ "tag" \notin answered
                     \/ MissingSections(released, shallow))
  /\ check' = "snippets"
  /\ Continues
  /\ UNCHANGED <<inputs, link, hindered, gateDir, unwritable>>

-----------------------------------------------------------------------------
(* checkSnippets.  A snippet is [imports, elisions, locals, diagnostics];  *)
(* a diagnostic is [code, pos, module, type].                              *)

IsParseElision(b, d) == d.code \in {"TS1108", "TS1109"} /\ d.pos \in b.elisions
IsForeignModule(d) == d.code = "TS2307" /\ d.module = "peer"

(* "Property ... does not exist on type", with or without a suggestion.    *)
IsAbbreviatedLocalType(b, d) == d.code \in {"TS2339", "TS2551"} /\ d.type \in b.locals

Real(b) ==
  {d \in b.diagnostics : ~IsParseElision(b, d) /\ ~IsForeignModule(d) /\ ~IsAbbreviatedLocalType(b, d)}

Verdict == Ends(IF problems' = {} THEN "0" ELSE "1")

NoSnippet ==
  /\ Runs("check-published-surface")
  /\ check = "snippets"
  /\ ~\E b \in readme.snippets : b.imports
  /\ Fail("snippets", TRUE)
  /\ check' = "done"
  /\ Verdict
  /\ UNCHANGED <<inputs, link, hindered, gitAnswered, gateDir, unwritable>>

(* scaffoldConsumer and the snippet files, before the try block.           *)
ScaffoldConsumer ==
  /\ Runs("check-published-surface")
  /\ check = "snippets"
  /\ \E b \in readme.snippets : b.imports
  /\ gateDir' = TRUE
  /\ \/ check' = "compile" /\ Continues /\ UNCHANGED unwritable
     \/ check' = "done" /\ Ends("1") /\ unwritable' = TRUE
  /\ UNCHANGED <<inputs, link, hindered, gitAnswered, problems>>

(* compileGate answers or throws; the directory goes in either case.       *)
CompileGate ==
  /\ Runs("check-published-surface")
  /\ check = "compile"
  /\ \/ Fail("snippets", \E b \in readme.snippets : Real(b) # {}) /\ Verdict
     \/ UNCHANGED problems /\ Ends("1")
  /\ gateDir' = FALSE
  /\ check' = "done"
  /\ UNCHANGED <<inputs, link, hindered, gitAnswered, unwritable>>

-----------------------------------------------------------------------------
SurfaceInit ==
  /\ \E p \in Published :
       readme = p.readme /\ changelog = p.changelog /\ repository = p.repository
  /\ check = "links"
  /\ link = <<>>
  /\ hindered = {}
  /\ gitAnswered = {}
  /\ problems = {}
  /\ gateDir \in BOOLEAN  \* one may be left of an earlier run
  /\ unwritable = FALSE

SurfaceIdle ==
  /\ readme = <<>> /\ changelog = <<>> /\ repository = <<>>
  /\ check = "links" /\ link = <<>> /\ hindered = {} /\ gitAnswered = {}
  /\ problems = {} /\ gateDir = FALSE /\ unwritable = FALSE

LinkSettles(u) == Checked(u) \/ Answered(u) \/ Unreached(u)

SurfaceNext ==
  \/ StaticLinks
  \/ \E u \in DOMAIN link : LinkSettles(u) \/ DeadlinePasses(u)
  \/ LinksDone
  \/ CheckChangelog
  \/ NoSnippet \/ ScaffoldConsumer \/ CompileGate

-----------------------------------------------------------------------------
(* Properties.                                                             *)

(* What the rules of the gate make of a url when every lookup and request  *)
(* is answered: https names of public hosts at each hop, MaxHops of them,  *)
(* and a page that a program may read.  A reader has none of these rules.  *)
Fate(u) ==
  LET fate[n \in 0..MaxHops] ==
        [v \in DOMAIN Web |->
           IF UnroutableReason(v, TRUE) THEN "unroutable"
           ELSE IF Web[v].page = "moved"
                THEN IF n = MaxHops THEN "endless" ELSE fate[n + 1][Web[v].to]
                ELSE Web[v].page]
      direct == IF UnroutableReason(u, TRUE) THEN "unroutable" ELSE fate[0][Probe(u)]
  IN  IF direct = "dead" /\ Probe(u) # u THEN "unborn" ELSE direct

(* Nothing is requested before it was checked: neither the registry's url, *)
(* nor a hop, nor the GET after a HEAD.                                    *)
RequestsAreChecked ==
  \A u \in DOMAIN link : link[u].at = "requested" => link[u].url \in link[u].checked

(* A link that passes as live leads a reader to a page.  One that fails    *)
(* leads nowhere, or breaks a rule of the gate, as a page does that is     *)
(* denied to programs; what the rules accept never fails.  One that is     *)
(* only noted is a package before its first publish, or out of reach.      *)
LinkVerdicts ==
  \A u \in DOMAIN link :
    LET accepted == Fate(u) \in {"live", "headless", "unborn"}
    IN  /\ link[u].at = "live" => Web[u].found /\ (accepted \/ u \in hindered)
        /\ link[u].at = "noted" => Fate(u) = "unborn" \/ u \in hindered
        /\ link[u].at = "failed" =>
             ~accepted /\ (~Web[u].found \/ Fate(u) \in {"unroutable", "endless", "denied"})

(* A green gate: each link leads to a page, to one that the release will   *)
(* make, or was out of reach; this version, each tag of the checkout and,  *)
(* when they could be fetched, each tag of the remote has its notes, and   *)
(* no tag at all was believed of a checkout that git called shallow; what  *)
(* the compiler says of a snippet is at an elision, of a peer that is not  *)
(* installed, or of a type with the name of one the snippet declares.      *)
GreenMeansPublishable ==
  exit = "0" /\ script = "check-published-surface" =>
    /\ \A u \in readme.links : Web[u].found \/ Fate(u) = "unborn" \/ u \in hindered
    /\ Current \in Documented
    /\ \A v \in Documented : ~ReleaseNotes(v).short
    /\ repository.local \subseteq Documented
    /\ "fetch" \in gitAnswered => repository.remote \subseteq Documented
    /\ repository.shallow /\ "rev-parse" \in gitAnswered =>
         repository.local # {} \/ ("fetch" \in gitAnswered /\ repository.remote # {})
    /\ \A b \in readme.snippets : \A d \in b.diagnostics :
         d.pos \in b.elisions \/ d.module = "peer" \/ d.type \in b.locals

(* The directory of the gate is gone, unless it could not be filled.       *)
GateDirRemoved ==
  exit # "running" /\ check = "done" => (gateDir => unwritable \/ ~\E b \in readme.snippets : b.imports)
=============================================================================
