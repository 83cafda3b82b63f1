------------------------------- MODULE MCDesk --------------------------------
(* The constants of Desk for TLC: small enough for every behaviour of every  *)
(* component to be enumerated.                                               *)
EXTENDS Desk

MCPrintable == {"A", "a", " "}
MCUpper == [c \in MCPrintable |-> IF c = "a" THEN "A" ELSE c]

MCLetters == {"C", "L", "M", "F", "U", "T", "N", "E", "W", "S", "H", "A", "R", "P",
              "O", "D", "B", "G", "Q", "I", "X", "K", "V"}
MCMoreWords == {<<"N", "E", "W", "S">>, <<"C", "H", "A", "R", "T">>,
                <<"F", "U", "T">>, <<"C", "L">>}
MCWords ==
    UNION {[1..n -> {"C", "L", "6", "."}] : n \in 1..4} \union MCMoreWords \union
    {<<"C", "L", "M", "6">>, <<"C", "L", "M", "2", "6">>,
     <<"C", "L", "M", "1", "2", "6">>, <<"V", "X", "M", "6">>,
     <<"B", "R", "K", "-", "B">>, <<"C", "C", "C", "C", "C", "C", "C", "C">>,
     <<"C", "C", "C", "C", "C", "C", "C", "C", "C">>,
     <<"C", "C", "C", "C", "C", "C", "C", "2", "6">>,
     <<"P", "O", "S">>, <<"I", "N", "F", "O">>, <<"H", "E", "L", "P">>,
     <<"D", "E", "B", "U", "G">>, <<"E", "X", "I", "T">>, <<"Q", "U", "I", "T">>}
MCKnownRoots == {<<"C", "L">>, <<"E", "S">>}

MCNames == [lt |-> "<", amp |-> "&"]

MCCategories == {<<"a">>, <<"a", "b">>, <<"a", ".", "b">>, <<"a", ".", "b", ".", "c">>}
MCEvery == <<"*">>
MCSpecs == {
    << << <<"a">>, 0>>, << <<"*">>, 4>> >>,
    << << <<"a">>, 9>>, << <<"*">>, 4>>, << <<"a", ".", "b">>, 9>> >>,
    << << <<>>, 2>>, << <<"a", ".", "b">>, 0>>, << <<"a">>, 4>>, << <<"a", ".", "b">>, 4>>,
       << <<"*">>, 9>> >>}

MCClicks == {-3, 3, 7, 8, 9, 10, 11, 12}

MCKeys == {<<"A", "call">>, <<"A", "put">>, <<"B", "call">>, <<"B", "stock">>}
MCGroupOf == [c \in {"call", "put", "stock"} |-> IF c = "stock" THEN c ELSE "option"]
MCPositions == {-1, 0, 2}
MCValues == {-2, 9}

=============================================================================
