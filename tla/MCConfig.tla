----------------------------- MODULE MCConfig -----------------------------
\* A test "t" with two components; scopes with each of the glob's characters, a
\* regular expression, and names that a dot taken for any character would cover.
EXTENDS ConfigProperties

CONSTANTS m1, m2, int, str

root == <<>>
t == <<"t">>
ta == <<"t", ".", "a">>
tb == <<"t", ".", "b">>
tops == <<"t", "x", "a">>

McComponents == {root, t, ta, tb, tops}
McSettings ==
  [cntxt : {root}, inst_name : {<<>>, <<"*">>, <<"t", "+">>, ta, <<"/", "a", "/">>}]
    \cup [cntxt : {t}, inst_name : {<<>>, <<"*">>, <<"?">>}]
    \cup [cntxt : {ta}, inst_name : {<<>>}]
McWatch == [m \in Monitors |-> [T |-> int, name |-> IF m = m1 THEN ta ELSE t, field |-> "f"]]

\* The scopes of this run are compiled rightly, as a theorem about get assumes.
ASSUME McScopes == ScopesMeanWhatTheySay
=============================================================================
