-------------------------------- MODULE MCSurface ------------------------------
(***************************************************************************)
(* Two clients of one file: every placement of their file system objects,  *)
(* spellings and leases, with faults and crashes; one client with the      *)
(* documents, rules and numbers that are hard to repair; and three that    *)
(* only record.                                                            *)
(***************************************************************************)
EXTENDS SurfaceSession

MCClients  == {"c1", "c2", "c3"}
MCNames    == <<"", "0", "1", "10", "2", "3", "4", "5", "6", "7", "8", "9",
                "a", "a.b", "b", "n", "s", "t", "x">>
MCNumerals == <<"0", "1", "2", "3", "4", "5", "6", "7", "8", "9", "10">>
MCDotted   == "a.b" :> <<"a", "b">>

Num(n)  == Number(FALSE, <<n>>, <<>>)
Text(w) == [kind |-> "string", text |-> <<w>>]
MCLiterals == "1" :> Num(1) @@ "2" :> Num(2) @@ "null" :> Null

(* The document with these leaves; other nodes are containers.             *)
Doc(arrays, leaves) ==
  [n \in UNION {{SubSeq(k, 1, i) : i \in 0..Len(k)} : k \in DOMAIN leaves \cup {<<>>}} |->
     IF n \in DOMAIN leaves THEN leaves[n] ELSE IF n \in arrays THEN Array ELSE Object]

One      == Doc({}, <<"a">> :> Num(1))
Two      == Doc({}, <<"a">> :> Num(2))
TwoMore  == Doc({}, <<"a">> :> Num(2) @@ <<"b">> :> Text("s"))
OneMore  == Doc({}, <<"a">> :> Num(1) @@ <<"b">> :> Text("t"))
Nothing  == <<>> :> Object
Long(n)  == Doc({<<"a">>}, [k \in {<<"a", MCNumerals[i]>> : i \in 1..n} |-> Num(1)])
Nulled   == Doc({}, <<"a">> :> Null)
Nested   == Doc({}, <<"a", "b">> :> Num(2))
Listed   == Doc({<<"a">>}, <<"a", "0">> :> Num(1))
Matrix   == Doc({<<"a">>, <<"a", "0">>}, <<"a", "0", "0">> :> Num(1))
Crossed  == Doc({<<"a", "x">>}, <<"a", "x", "0">> :> Num(2))
DottedIs == Doc({}, <<"a.b">> :> Num(1) @@ <<"b">> :> Num(1))
NoName   == Doc({}, <<"a", "">> :> Num(2))
BothDots == Doc({}, <<"a.b">> :> Num(1) @@ <<"a", "b">> :> Num(1))
Unnamed  == Doc({<<"", "a">>}, <<"", "a", "0">> :> Num(1))
Holed    == Doc({<<"a">>}, <<"a", "0">> :> Object @@ <<"a", "1">> :> Num(2))
Huge     == Doc({}, <<"a">> :> Num(1) @@ <<"n">> :> Number(FALSE, <<1, 0, 0, 0>>, <<>>))

Rule(words, severity, auto) == [expression |-> words, severity |-> severity, autoRemediate |-> auto]
RuleSets ==
  {{}, {Rule(<<"a", "==", "2">>, "critical", FALSE)}, {Rule(<<"a", "<", "2">>, "low", FALSE)},
   {Rule(<<"b", ">=", "s">>, "high", TRUE)}, {Rule(<<"b", "!=", "null">>, "high", FALSE)},
   {Rule(<<"a">>, "low", TRUE)}, {Rule(<<"a", ">", "1">>, "medium", FALSE)}}

All(x) == [c \in MCClients |-> x]
Base == [fs |-> All("p"), key |-> All("k"), leases |-> All(TRUE), document |-> One,
         desired |-> All(TwoMore), rules |-> {}, faults |-> FALSE, crash |-> FALSE,
         audited |-> {}, at |-> [All("start") EXCEPT !["c3"] = "done"], room |-> 3,
         numbers |-> {}]

(* Two clients that want different documents; two threads with a lease     *)
(* record what one did.  Without a lease the spelling does not matter.    *)
Placements ==
  {place \in [p : {"p", "q"}, k : {"k", "l"}, first : BOOLEAN, second : BOOLEAN] :
     (place.second => place.first) /\ (place.k = "l" => place.first)}
Shared ==
  {[Base EXCEPT !.fs["c2"] = place.p, !.key["c2"] = place.k,
                !.leases["c1"] = place.first, !.leases["c2"] = place.second,
                !.desired["c2"] = Two,
                !.faults = trouble[1], !.crash = trouble[2],
                !.audited = IF place.second /\ place.p = "p" THEN {"c1"} ELSE {}] :
     place \in Placements, trouble \in {<<FALSE, FALSE>>, <<TRUE, FALSE>>, <<FALSE, TRUE>>}}

(* A client, and another that finds the document as it wants it.           *)
Pairs == {<<One, TwoMore>>, <<OneMore, Two>>, <<Nothing, Long(11)>>, <<Long(2), Long(4)>>,
          <<Nulled, Nested>>, <<Listed, Crossed>>, <<DottedIs, Nested>>, <<BothDots, Nested>>,
          <<Nothing, NoName>>, <<NoName, Two>>, <<Huge, Two>>, <<Listed, Two>>, <<Two, Listed>>, <<Nothing, Matrix>>, <<Unnamed, Holed>>}
Single ==
  {[Base EXCEPT !.document = pair[1], !.desired["c1"] = pair[2], !.desired["c2"] = pair[1],
                !.rules = rules] : pair \in Pairs, rules \in RuleSets}

(* Three clients that record, in one or two processes.                     *)
Recording ==
  {[Base EXCEPT !.fs["c3"] = p, !.at = All("record"), !.room = room,
                !.faults = faults, !.crash = crash] :
     p \in {"p", "q"}, room \in {2, 3}, faults \in BOOLEAN, crash \in BOOLEAN}

Lexemes ==
  {[neg |-> neg, whole |-> whole, frac |-> frac, exp |-> exp] :
     neg \in BOOLEAN, whole \in {<<0>>, <<1>>, <<1, 0>>, <<1, 2, 0>>},
     frac \in {<<>>, <<0>>, <<5>>, <<0, 1>>}, exp \in {-3, -1, 0, 1, 2}}

MCScenarios ==
  Shared \cup Single \cup Recording \cup {[Base EXCEPT !.at = All("done"), !.numbers = Lexemes]}
===============================================================================
