----------------------------- MODULE MCEngineTags -----------------------------
(***************************************************************************)
(* Engine over filter sets whose tagged filters may be fused.              *)
(***************************************************************************)
EXTENDS Engine

TagsDomain == {"a.com"}
TagsToken  == {"a.com", "0", "http", "https", "ads"}
AnyOne     == [p \in {"/ads/a", "/ads/b"} |-> {"ads"}]
TagsHash   == [d \in TagsDomain |-> 1]
None       == [m \in {} |-> 0]

\* /ads/a$tag=t and /ads/b$tag=u
Ads(pattern, tag) ==
  [mask |-> {"script", "image"} \cup Party \cup Scheme, patterns |-> {pattern},
   domains |-> Null, notDomains |-> Null, modifier |-> Null, tag |-> tag]

TagsFilter == {Ads("/ads/a", "t"), Ads("/ads/b", "u")}
TagsLine   == [f \in TagsFilter |-> IF f.tag = "t" THEN 1 ELSE 2]
TagsSets   == {TagsFilter}

TagsRequest ==
  {[supported |-> TRUE, type |-> "script", needs |-> {"script", "https", "thirdParty"},
    source |-> Null, found |-> found, tokens |-> {"0", "https", "ads"}, params |-> {}] :
      found \in {{"/ads/a"}, {"/ads/b"}}}

TagsPolicy  == {[interval |-> 1, unused |-> 1]}
TagsDefault == CHOOSE p \in TagsPolicy : TRUE
===============================================================================
