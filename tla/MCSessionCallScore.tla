------------------------- MODULE MCSessionCallScore -------------------------
(* An instance of SessionCallScore for TLC: one demo tool and one other, and  *)
(* results of up to three leaves of which a short one is no token and the     *)
(* last is cut off.                                                           *)
EXTENDS SessionCallScore

\* 'usage' and 'bill' are told apart by what they bring; 'one' is "1".
MCLeaves == {"usage", "bill", "one", "true"}
MCShortLeaves == {"one"}
MCResults == {<<"one">>, <<"one", "usage", "bill">>, <<"bill">>}

Text(contains, breach, spanish) ==
  [contains |-> contains, breach |-> breach, spanish |-> spanish]

\* Answers about usage, about the bill or about nothing, an English
\* greeting and a breach.
MCTexts ==
  {Text({"usage"}, FALSE, TRUE), Text({"bill"}, FALSE, FALSE), Text({"one"}, FALSE, TRUE),
   Text({}, FALSE, FALSE), Text({"usage"}, TRUE, TRUE)}

\* Where scorers overlap: an answer that grounds the result, an English one that
\* does not, and a breach.
MCThreeTexts ==
  {Text({"usage"}, FALSE, TRUE), Text({}, FALSE, FALSE), Text({"usage"}, TRUE, TRUE)}
MCOneResult == {<<"one", "usage", "bill">>}
MCTwoResults == {<<"usage">>, <<"bill">>}
MCScorers == Permutations(Scorers)
=============================================================================
