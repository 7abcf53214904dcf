--------------------------- MODULE MCSearchService ---------------------------
(***************************************************************************)
(* Values for model-checking SearchService.                                 *)
(***************************************************************************)
EXTENDS SearchService, TLC

K(query, edition) == [query |-> query, edition |-> edition]
H(id, edition, scoped) == [id |-> id, edition |-> edition, scoped |-> scoped]

\* Two packages; vim is in the dashboard in one edition only.
TwoPackages == {[id |-> "vim", edition |-> "oss"], [id |-> "qt", edition |-> "com"]}

\* The same query in any edition and in one
BothEditions == {K("editor", AnyEdition), K("editor", "oss")}
ThreeKeys == BothEditions \cup {K("shell", AnyEdition)}

\* A good response, one with an omission, a mixed one, the wrong edition of a known
\* package, and a hit out of scope
MixedResponses ==
    { <<H("vim", "oss", TRUE)>>,
      <<H("nano", "oss", TRUE), H("vim", "oss", TRUE)>>,
      <<H("qt", "com", TRUE), H("vim", "oss", TRUE)>>,
      <<H("vim", "com", TRUE)>>,
      <<H("vim", "oss", TRUE), H("qt", "com", FALSE)>> }

AnySearch == Permutations(Searches)
=============================================================================
