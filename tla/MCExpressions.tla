---------------------------- MODULE MCExpressions ----------------------------
(* Small families of strings: each is about one part of the language.        *)
EXTENDS ExpressionsProps

Family(pre, words, len, xt, yt, xs) ==
  [pre |-> pre, words |-> words, len |-> len, xt |-> xt, yt |-> yt,
   xs |-> [k \in DOMAIN xs |-> Whole(xs[k])], made |-> FALSE, lin |-> Request("", <<>>, Fresh)]
Y == <<"y", "=">>
Sums == Family(Y, {"x", "2", "+", "*", "(", ")"}, 9, "i", "i", <<3>>)
Signs == Family(Y, {"x", "2", "-", "*", "(", ")"}, 8, "i", "i", <<3>>)
Quotients == {Family(Y, {"x", "2", "/", "+", "(", ")"}, 6, xt, yt, <<3, 0>>) : xt, yt \in {"i", "f"}}
Skips == Family(<<"a", "=", "2", "/", "x", ";", "y", "=">>, {"a", "x", "+"}, 4, "f", "i", <<2, 0, 3>>)
Truths == Family(Y, {"x", "2", "<", "==", "&&", "?:"}, 8, "i", "f", <<3, 0>>)
Nots == Family(<<"y", "=", "!">>, {"x", "2", "<", "&&", "-"}, 6, "i", "i", <<3, 0>>)
Ternaries == Family(Y, {"x", "2", "?", ":", "<", "+"}, 8, "i", "i", <<3, 0>>)
Pasts == Family(<<"y", "{", "-", "2", "}", "=", "2", ";", "y", "=">>, {"x", "y", "{", "}", "-", "*", "2"}, 7, "i", "i", <<3, 5, 2>>)
PastX == Family(Y, {"x", "{", "}", "-", "*", "2"}, 7, "i", "i", <<3, 5, 2>>)
Calls == Family(Y, {"x", "2", "abs(", "-", ")"}, 8, "i", "i", <<3>>)
Mins == Family(<<"y", "=", "min(", "x", ",">>, {"x", "2", "abs(", ",", "-", ")"}, 7, "i", "i", <<3>>)
Steps == Family(<<"a", "=", "2", ";">>, {"a", "y", "x", "++", ";", "=", "+"}, 8, "i", "i", <<3, 5>>)
Compounds_ == Family(<<"a", "=", "2", ";">>, {"a", "y", "x", "*=", "+=", ";", "=", "+"}, 10, "i", "i", <<3, 5>>)
Types == Family(<<"a", "=">>, {"a", "y", "x", "0.5", ";", "=", "+"}, 9, "i", "i", <<3, 5>>)
Lives == Family(<<"alive", "=", "x", "<">>, {"2", "y", "x", ";", "=", "<"}, 6, "i", "i", <<0, 3, 1>>)
Mutes == Family(<<"muted", "=", "x", "<">>, {"2", "y", "x", ";", "=", "<"}, 6, "i", "i", <<0, 3, 1>>)
(* What maps make up: xt and yt the types of the signals. *)
Made(req, xt, yt) ==
  [Family(set_linear(req), {}, 0, xt, yt, <<2, 3, 0, 1>>)
     EXCEPT !.made = Len(set_linear(req)) > 3, !.lin = req]
Given == {<<"0", "2", "1", "3">>, <<"1", "3", "0.5", "2">>, <<"3", "1", "0", "2">>,
          <<"2", "2", "1", "3">>, <<"0", "3", "3", "0">>}
Asked == {<<"?", "?", "1", "3">>, <<"?", "2", "0", "0.5">>, <<"1", "?", "2", "1">>,
          <<"-", "-", "-", "-">>, <<"?", "?", "-", "3">>, <<"-", "2", "1", "-">>}
HadBefore == [v \in {"sMin", "sMax", "dMin", "dMax"} |->
              CASE v = "sMin" -> "1" [] v = "sMax" -> "2" [] v = "dMin" -> "3" [] OTHER -> "0.5"]
Requests ==
  {Request("ranges", limits, Fresh) : limits \in Given \cup {<<"0", "2", "", "">>}}
  \cup {Request("macro", limits, old) :
           limits \in Given \cup Asked, old \in {Fresh, HadBefore, [sMin |-> "1"]}}
Lines == {Made(req, xt, yt) : req \in Requests, xt, yt \in {"i", "f"}}
MCFamilies ==
  {Sums, Signs, Skips, Truths, Nots, Ternaries, Pasts, PastX, Calls, Mins, Steps, Compounds_,
   Types, Lives, Mutes} \cup Quotients \cup Lines
=============================================================================
