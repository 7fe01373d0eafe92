------------------------------ MODULE MCSequential -----------------------------
(* Arguments and input of the programs, for the instance TLC checks. *)
EXTENDS Sequential, TLC

CONSTANT NoNumber

\* With and without a first byte 1, 46 70, and a 46; twice the same but for the
\* last byte; more than a byte, too few and too many fields, and none.
SomeLines == {<<1, 46, 0, 0>>, <<1, 46, 0, 255>>, <<46, 70, 1, 1>>, <<70, 0, 0, 46>>,
              <<46, 70>>, <<257, 1, 1, 1>>, <<1, 1, 1, 1, 1>>, <<NoNumber>>}

\* Words of the clients of 11_join_server and the requests made of them.
SomeNumbers == "1" :> 1 @@ "+1" :> 1 @@ "-3" :> -3
SomeWidths == "INSERT" :> 6 @@ "SELECT" :> 6 @@ "TRUNCATE" :> 8 @@ "INTERSECT" :> 9
          @@ "DIFFERENCE" :> 10 @@ "HELLO" :> 5 @@ "A" :> 1 @@ "B" :> 1 @@ "1" :> 1
          @@ "+1" :> 2 @@ "-3" :> 2 @@ "x" :> 1 @@ "lean" :> 4 @@ "proposal" :> 8
          @@ "hippopotamus" :> 12 @@ "thunderstorms" :> 13
          @@ "uncharacteristically" :> 20

\* With these phrases the longest name is refused by a text longer than a line.
SomePhrases == [unterminated |-> 20, blank |-> 9, unexpected |-> 9, insert |-> 6,
                terms |-> 10, missing |-> 9]

SomeRequests == {<<"INSERT", "A", "1", "lean">>, <<"INSERT", "A", "-3", "hippopotamus">>,
          <<"INSERT", "B", "+1", "proposal">>, <<"INSERT", "B", "-3", "thunderstorms">>,
          <<"INSERT", "A", "x", "lean">>, <<"INSERT", "A", "x">>,
          <<"SELECT", "A">>, <<"TRUNCATE", "B">>, <<"INTERSECT">>,
          <<"DIFFERENCE">>, <<"DIFFERENCE", "B", "A">>, <<"INTERSECT", "A">>, <<"HELLO">>,
          <<"INSERT", "B", "1", "uncharacteristically">>,
          << >>, <<"uncharacteristically">>, <<"INSERT", "A", "1", "x", "x">>,
          <<"SELECT", "uncharacteristically">>}
===============================================================================
