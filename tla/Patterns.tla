------------------------------- MODULE Patterns -------------------------------
(***************************************************************************)
(* The text of a network filter: how parse takes it apart                  *)
(* (src/filters/network.rs), which tokens the filter is filed under        *)
(* (utils.rs), and when it is found in a URL (network_matchers.rs,         *)
(* regex_manager.rs).  A list only tries a filter on requests whose URL    *)
(* has the token it is filed under.                                        *)
(*                                                                         *)
(* Texts are sequences of letters, ".", "/" and the wildcards "*" and "^"; *)
(* what stands before the host of a URL is Scheme.                         *)
(***************************************************************************)
EXTENDS Integers, Sequences

CONSTANTS
  Letter,   \* what tokens are made of: letters, digits and "%"
  Text,     \* the texts of the filters considered, between their anchors
  Url       \* the URLs considered: records of a host and a path

Scheme == <<"h", "h", "/">>

Wildcard == {"*", "^"}
Sign     == Letter \cup {".", "/"} \cup Wildcard

\* Letters are no signs, texts are made of both, and what comes after a host
\* starts with no letter.
TextsShaped ==
  /\ Letter \cap {".", "/", "*", "^"} = {}
  /\ Text \subseteq Seq(Sign)
  /\ Url \subseteq [host : Seq(STRING), path : Seq(STRING)]
  /\ \A u \in Url : u.path = << >> \/ u.path[1] \notin Letter

\* Texts between slashes are regexes of their own; of two carets in a row
\* compile_regex leaves the second as it is.  Neither is considered, nor are
\* two stars in a row.
Considered(t) ==
  /\ t # << >>
  /\ Len(t) > 1 => t[1] # "/" \/ t[Len(t)] # "/"
  /\ \A i \in 1 .. Len(t) - 1 : t[i] = t[i + 1] => t[i] \notin Wildcard

VARIABLES
  filter,   \* the parsed filter, with the text and the anchors it came from
  url       \* the request under way, or NoUrl

NoUrl == [host |-> << >>, path |-> << >>]

-------------------------------------------------------------------------------
(* Sequences. *)

Least(S)       == CHOOSE i \in S : \A j \in S : i <= j
Places(c, s)   == {i \in DOMAIN s : s[i] \in c}
StartsAt(t, s, i)  == Len(t) + i - 1 <= Len(s) /\ SubSeq(s, i, i + Len(t) - 1) = t
Occurrences(t, s)  == {i \in 1 .. Len(s) + 1 : StartsAt(t, s, i)}
From(s, i)         == SubSeq(s, i, Len(s))
EndsWith(s, t)     == Len(t) <= Len(s) /\ From(s, Len(s) - Len(t) + 1) = t

-------------------------------------------------------------------------------
(* NetworkFilter::parse, from the text between the anchors on. *)

HasWildcard(t) == Places(Wildcard, t) # {}

\* Where the hostname of a "||" filter ends.
HostEnd(t) == LET stops == Places(IF HasWildcard(t) THEN {"/", "*", "^"} ELSE {"/"}, t)
              IN  IF stops = {} THEN Len(t) + 1 ELSE Least(stops)

\* Variant of LeftAnchored: the leading star is taken off, the anchor stays.
LeftAnchoredAnyway(left, rest, star) == left = "|" \/ (left = "||" /\ rest)

\* A "||" filter must go on right after its hostname, unless a star stands there;
\* a leading star undoes the anchor.
LeftAnchored(left, rest, star) == ~star /\ (left = "|" \/ (left = "||" /\ rest))

\* Variant of IsRegex: set once, for the whole text.
IsRegexOnce(t, body, lone) == HasWildcard(t) /\ ~lone

\* IS_REGEX is set for the whole text, and again for what is left of it.
IsRegex(t, body, lone) == IF body = << >> THEN HasWildcard(t) /\ ~lone ELSE HasWildcard(body)

Parse(t, left, right) ==
  LET hosted == left = "||"
      cut    == IF hosted THEN HostEnd(t) ELSE 1
      lone   == hosted /\ cut = Len(t) /\ t[cut] = "^"    \* ||host^
      start  == IF lone THEN cut + 1 ELSE cut
      last   == IF start <= Len(t) /\ t[Len(t)] = "*" THEN Len(t) - 1 ELSE Len(t)
      star   == start <= last /\ t[start] = "*"
      body   == SubSeq(t, IF star THEN start + 1 ELSE start, last)
  IN  [text        |-> body,
       host        |-> IF hosted THEN SubSeq(t, 1, cut - 1) ELSE << >>,
       hostAnchor  |-> hosted,
       hostRegex   |-> hosted /\ cut <= Len(t) /\ t[cut] = "*",
       leftAnchor  |-> LeftAnchored(left, start <= Len(t), star),
       rightAnchor |-> right \/ lone,
       regex       |-> IsRegex(t, body, lone),
       from |-> t, left |-> left, right |-> right]

-------------------------------------------------------------------------------
(* Tokens: the runs of letters, as pairs of their first and last places. *)

Runs(s) ==
  {r \in (DOMAIN s) \X (DOMAIN s) :
     /\ r[1] <= r[2] /\ \A i \in r[1] .. r[2] : s[i] \in Letter
     /\ r[1] = 1 \/ s[r[1] - 1] \notin Letter
     /\ r[2] = Len(s) \/ s[r[2] + 1] \notin Letter}

\* fast_tokenizer_no_regex: runs of two letters or more and not next to a star.
\* A run that reaches the end of the text is not asked whether it is the first.
Kept(s, skipFirst, skipLast) ==
  {r \in Runs(s) :
     /\ r[2] > r[1]
     /\ r[1] = 1 \/ s[r[1] - 1] # "*"
     /\ IF r[2] = Len(s) THEN ~skipLast
        ELSE s[r[2] + 1] # "*" /\ (r[1] # 1 \/ ~skipFirst)}

TokensAt(s, runs) == {SubSeq(s, r[1], r[2]) : r \in runs}

\* Variant of TextRuns: the last run is kept whatever follows.
TextRunsAll(f) == Kept(f.text, f.rightAnchor, FALSE)

\* get_tokens skips the first run of filters anchored at the end, and the last
\* run of the others.
TextRuns(f) == Kept(f.text, f.rightAnchor, ~f.rightAnchor)

\* Of a hostname that a star continues only the labels before the last dot count.
HostTokens(f) ==
  LET dots == Places({"."}, f.host)
      sure == IF ~f.hostRegex THEN f.host
              ELSE IF dots = {} THEN << >>
              ELSE SubSeq(f.host, 1, (CHOOSE i \in dots : \A j \in dots : j <= i) - 1)
  IN  TokensAt(sure, Kept(sure, FALSE, FALSE))

FilterTokens(f) == TokensAt(f.text, TextRuns(f)) \cup HostTokens(f)

UrlText(u)   == Scheme \o u.host \o u.path
UrlTokens(u) == TokensAt(UrlText(u), Kept(UrlText(u), FALSE, FALSE))

-------------------------------------------------------------------------------
(* check_pattern. *)

\* Where the i-th sign of a wildcard text leads to in s from some places (0:
\* before s).  The carets that may stand for the end of s are given.
Led(t, s, i, final, before) ==
  LET step == {p \in before : p < Len(s)}
  IN  CASE t[i] = "*" -> {q \in 0 .. Len(s) : \E p \in before : p <= q}
        [] t[i] = "^" -> {p + 1 : p \in {q \in step : s[q + 1] \notin Letter \cup {"."}}}
                           \cup (IF i \in final THEN before \ step ELSE {})
        [] OTHER      -> {p + 1 : p \in {q \in step : s[q + 1] = t[i]}}

Ends(t, s, from, final) ==
  LET reached[i \in 0 .. Len(t)] == IF i = 0 THEN from ELSE Led(t, s, i, final, reached[i - 1])
  IN  reached[Len(t)]

\* compile_regex, and the match: an empty text matches everything.
Wildcards(t, leftAnchor, rightAnchor, s) ==
  LET ends == Ends(t, s, IF leftAnchor THEN {0} ELSE 0 .. Len(s), {Len(t)})
  IN  t = << >> \/ IF rightAnchor THEN Len(s) \in ends ELSE ends # {}

\* is_anchored_by_hostname: only the first occurrence is looked at, and inside
\* a host the end of a label is looked for as if the occurrence came first.
Anchored(name, host, wild) ==
  LET at    == Occurrences(name, host)
      i     == Least(at)
      front == name[1] = "." \/ host[i - 1] = "."
      back  == wild \/ name[Len(name)] = "." \/ host[Len(name) + 1] = "."
  IN  \/ name = << >> \/ name = host
      \/ /\ Len(name) < Len(host) /\ at # {}
         /\ i > 1 => front
         /\ i # Len(host) - Len(name) + 1 => back

\* get_url_after_hostname
AfterHost(f, u) ==
  LET at == Occurrences(f.host, UrlText(u))
  IN  From(UrlText(u), (IF at = {} THEN Len(UrlText(u)) - Len(f.host) + 1 ELSE Least(at)) + Len(f.host))

FoundAfterHost(f, u) ==
  LET rest == AfterHost(f, u)
  IN  CASE f.regex -> Wildcards(f.text, f.leftAnchor, f.rightAnchor, rest)
        [] ~f.regex /\ f.leftAnchor /\ f.rightAnchor -> f.text = << >> \/ rest = f.text
        [] ~f.regex /\ ~f.leftAnchor /\ f.rightAnchor ->
             IF f.text = << >> THEN EndsWith(u.host, f.host) ELSE EndsWith(UrlText(u), f.text)
        [] ~f.regex /\ f.leftAnchor /\ ~f.rightAnchor -> StartsAt(f.text, rest, 1)
        [] OTHER -> Occurrences(f.text, rest) # {}

FoundInUrl(f, s) ==
  CASE f.regex -> Wildcards(f.text, f.leftAnchor, f.rightAnchor, s)
    [] ~f.regex /\ f.leftAnchor /\ f.rightAnchor  -> f.text = << >> \/ f.text = s
    [] ~f.regex /\ f.leftAnchor /\ ~f.rightAnchor -> StartsAt(f.text, s, 1)
    [] ~f.regex /\ ~f.leftAnchor /\ f.rightAnchor -> EndsWith(s, f.text)
    [] OTHER -> Occurrences(f.text, s) # {}

Found(f, u) == IF f.hostAnchor THEN Anchored(f.host, u.host, f.hostRegex) /\ FoundAfterHost(f, u)
               ELSE FoundInUrl(f, UrlText(u))

-------------------------------------------------------------------------------
(* A list of one filter, and the request it is asked about. *)

PatternInit ==
  /\ url = NoUrl
  /\ \E t \in {x \in Text : Considered(x)}, left \in {"no", "|", "||"}, right \in BOOLEAN :
       filter = Parse(t, left, right)

AskUrl == /\ url = NoUrl /\ url' \in Url
          /\ UNCHANGED filter

PatternSpec == PatternInit /\ [][AskUrl]_<<filter, url>>

-------------------------------------------------------------------------------
(* Properties. *)

\* The types, and what the rest of the engine relies on: a text is looked for
\* with a regex when it has wildcards and only then, whatever was taken off it
\* (network.rs:612, 655-663, 722).
PatternsTypeOK ==
  /\ filter.text \in Seq(Sign)
  /\ filter.text # << >> => (filter.regex <=> HasWildcard(filter.text))
  /\ filter.host # << >> => filter.hostAnchor
  /\ url \in Url \cup {NoUrl}

\* The hostname stands in the host with full labels.
FullLabels(f, u) == \E i \in Occurrences(f.host, u.host) :
  LET next == i + Len(f.host)
  IN  f.host # << >> =>
        /\ i = 1 \/ f.host[1] = "." \/ u.host[i - 1] = "."
        /\ f.hostRegex \/ next > Len(u.host) \/ u.host[next] = "." \/ f.host[Len(f.host)] = "."

Starless(u) == Places({"*"}, UrlText(u)) = {}

\* The tokens that a filter's URLs must have: not the one a text that may start
\* anywhere begins with.
SureTokens(f) ==
  HostTokens(f) \cup TokensAt(f.text, {r \in TextRuns(f) : r[1] > 1 \/ f.leftAnchor})

\* Whichever of its sure tokens a filter is filed under, it is tried on every
\* URL it is found in whose host has its hostname with full labels
\* (network.rs:884-958: the skipped runs, the stars, the last label).  Of a URL
\* with a star the runs next to it are no tokens, while a caret may stand for
\* the star: these URLs are left out.
TokensSound ==
  url # NoUrl /\ Found(filter, url) /\ FullLabels(filter, url) /\ Starless(url)
    => SureTokens(filter) \subseteq UrlTokens(url)

\* What a text means as it is written: a caret that nothing or a star follows
\* may stand for the end of the URL.
AsWritten(f, s) ==
  LET t    == f.from
      ends == Ends(t, s, IF f.left = "|" THEN {0} ELSE 0 .. Len(s),
                   {Len(t)} \cup (IF t[Len(t)] = "*" THEN {Len(t) - 1} ELSE {}))
  IN  IF f.right THEN Len(s) \in ends ELSE ends # {}

\* A filter without "||" is found where its text, wildcards and all, stands in
\* the URL as its anchors say, though stars are taken off and most texts are
\* looked for without a regex (network.rs:670-700, network_matchers.rs:355-396).
\* A star before an anchored end is the exception: it is taken off, the anchor stays.
FoundAsWritten ==
  url # NoUrl /\ ~filter.hostAnchor /\ (filter.right => filter.from[Len(filter.from)] # "*") =>
    (Found(filter, url) <=> AsWritten(filter, UrlText(url)))

\* network_filter_list.rs:72, "Returns the first found filter, if any, that
\* matches the given request.": a list of one filter finds it for every URL it
\* matches, whichever of its tokens it is filed under.
FiledWhereFound ==
  url # NoUrl /\ Found(filter, url) /\ FullLabels(filter, url)
    => FilterTokens(filter) \subseteq UrlTokens(url)
===============================================================================
