------------------------------- MODULE SiteRules -------------------------------
(***************************************************************************)
(* The rule files of a site, `_headers` and `_redirects` (core/site/       *)
(* rules.ts): what parsing keeps of a file, and which rules apply to a     *)
(* path.                                                                   *)
(*                                                                         *)
(* A path is the sequence of its segments after the leading slash; "" as   *)
(* the last one stands for a trailing slash, and the root is <<"">>.  A    *)
(* file is [large, lines]; a line is a record of what the parser asks of   *)
(* it.  Only whole segments are substituted.                               *)
(***************************************************************************)
EXTENDS Integers, FiniteSets, SequencesExt

CONSTANTS
  Placeholders,       \* the `:name` segments a pattern or a target may have
  Schemes, Odd,       \* segments ending in a colon; segments with a backslash
  DeniedHeaders, MalformedNames,
  MaxHeaderRules, MaxHeadersPerRule, MaxRedirectRules, MaxHostingRules

ASSUME RulesAssumption ==
  {MaxHeaderRules, MaxHeadersPerRule, MaxRedirectRules, MaxHostingRules} \subseteq Nat

RedirectStatuses == {200, 301, 302, 307, 308}

-------------------------------------------------------------------------------
(* Patterns *)

EndsInSplat(pattern) == pattern # <<>> /\ Last(pattern) = "*"
Fixed(pattern) == IF EndsInSplat(pattern) THEN Front(pattern) ELSE pattern

\* "*" matches the rest, nothing included; a placeholder one non-empty segment.
Matches(pattern, path) ==
  LET fixed == Fixed(pattern) IN
  /\ Len(fixed) <= Len(path)
  /\ EndsInSplat(pattern) \/ Len(fixed) = Len(path)
  /\ \A i \in DOMAIN fixed : IF fixed[i] \in Placeholders THEN path[i] # "" ELSE fixed[i] = path[i]

Splat(pattern, path) ==
  IF EndsInSplat(pattern) /\ Len(path) >= Len(pattern)
  THEN SubSeq(path, Len(pattern), Len(path)) ELSE <<"">>

\* What one segment of a target becomes; the last placeholder of a name counts.
Replacement(segment, pattern, path) ==
  LET at == {i \in DOMAIN Fixed(pattern) : Fixed(pattern)[i] = segment}
  IN IF segment = ":splat" THEN Splat(pattern, path)
     ELSE IF segment \in Placeholders /\ at # {} THEN <<path[Max(at)]>>
     ELSE <<segment>>

Substitute(target, pattern, path) ==
  FlattenSeq([i \in DOMAIN target |-> Replacement(target[i], pattern, path)])

MisplacedSplat(pattern) == \E i \in DOMAIN pattern : pattern[i] = "*" /\ i < Len(pattern)

\* "//host", "scheme://" or a backslash: not a plain path inside the site.
External(target) ==
  \/ Len(target) > 1 /\ target[1] = ""
  \/ \E i \in 1..Len(target) - 2 : target[i] \in Schemes /\ target[i + 1] = ""
  \/ \E i \in DOMAIN target : target[i] \in Odd

-------------------------------------------------------------------------------
(* _headers.  Lines: [pattern, rooted] opens a block, [name, value, large]  *)
(* belongs to one; the field `indented` tells which.                        *)

IsDeniedHeader(name, denied) == name \in denied

OpenBlock(state, line) ==
  IF ~line.rooted \/ MisplacedSplat(line.pattern) THEN [state EXCEPT !.open = FALSE]
  ELSE IF Len(state.rules) >= MaxHeaderRules THEN [state EXCEPT !.ignored = TRUE]
  ELSE [state EXCEPT !.open = TRUE, !.rules = Append(@, [pattern |-> line.pattern, headers |-> <<>>])]

AddHeader(state, line) ==
  IF ~state.open \/ line.name \in MalformedNames \/ IsDeniedHeader(line.name, DeniedHeaders) THEN state
  ELSE LET headers == Last(state.rules).headers
           full == line.name \notin DOMAIN headers /\ Cardinality(DOMAIN headers) >= MaxHeadersPerRule
       IN IF line.large \/ full THEN [state EXCEPT !.ignored = TRUE]
          ELSE [state EXCEPT !.rules[Len(state.rules)].headers = (line.name :> line.value) @@ headers]

\* A limit exceeded ignores the whole file; a bad line costs only itself.
ParseHeaders(file) ==
  LET Read(state, line) == IF line.indented THEN AddHeader(state, line) ELSE OpenBlock(state, line)
      end == FoldLeft(Read, [rules |-> <<>>, open |-> FALSE, ignored |-> FALSE], file.lines)
  IN IF file.large \/ end.ignored THEN <<>>
     ELSE SelectSeq(end.rules, LAMBDA rule : DOMAIN rule.headers # {})

\* A later rule overrides an earlier one for the same header.
MatchHeaders(rules, path) ==
  LET Override(headers, rule) == IF Matches(rule.pattern, path) THEN rule.headers @@ headers ELSE headers
  IN FoldLeft(Override, <<>>, rules)

-------------------------------------------------------------------------------
(* _redirects.  Lines: [fields, from, to, rooted, status, force].           *)

GoodRedirect(line) ==
  /\ line.fields \in {2, 3} /\ line.rooted
  /\ ~MisplacedSplat(line.from)
  /\ line.status \in RedirectStatuses
  /\ ~External(line.to)

ParseRedirects(file) ==
  LET good == SelectSeq(file.lines, GoodRedirect)
  IN IF file.large \/ Len(good) > MaxRedirectRules THEN <<>> ELSE good

NoRule == [status |-> 0, to |-> <<>>]

\* The first rule that matches and whose target is still inside the site.
MatchRedirect(rules, path) ==
  LET Target(i) == Substitute(rules[i].to, rules[i].from, path)
      hits == {i \in DOMAIN rules : Matches(rules[i].from, path) /\ ~External(Target(i))}
  IN IF hits = {} THEN NoRule ELSE [status |-> rules[Min(hits)].status, to |-> Target(Min(hits))]

\* What the row of a version or an asset may carry.
BoundHosting(hosting) ==
  IF Len(hosting.headers) + Len(hosting.redirects) <= MaxHostingRules THEN hosting
  ELSE [headers |-> <<>>, redirects |-> <<>>]
===============================================================================
